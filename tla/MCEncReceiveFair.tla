-------------------------- MODULE MCEncReceiveFair --------------------------
(***************************************************************************)
(* The short ring with a fair driver, once with PKTCNT as wide as it is    *)
(* and once with a PKTCNT that is at its limit with two frames, which the  *)
(* ring has room for: the limit is drawn when the system starts.           *)
(***************************************************************************)
EXTENDS MCEncReceive

VARIABLE narrow

Narrow == INSTANCE EncReceive WITH PktMax <- 2

MCInit == Init /\ narrow \in BOOLEAN

MCNext == (IF narrow THEN Narrow!Next ELSE Next) /\ UNCHANGED narrow

MCReceive == (IF narrow THEN Narrow!Receive ELSE Receive) /\ UNCHANGED narrow

MCFairSpec ==
    MCInit /\ [][MCNext]_<<vars, narrow>> /\ WF_<<vars, narrow>>(MCReceive)

=============================================================================
