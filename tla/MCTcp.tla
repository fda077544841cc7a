------------------------------- MODULE MCTcp -------------------------------
(***************************************************************************)
(* Instances of Tcp for TLC.                                               *)
(***************************************************************************)
EXTENDS Tcp

\* The client's sequence numbers wrap in the handshake.
MCIss == [e \in Ends |-> IF e = Client THEN SeqSize - 1 ELSE 9]

ThePlan(b, w, e, h, l, t) ==
    [bytes |-> b, whole |-> w, eager |-> e, hasty |-> h, lossy |-> l, early |-> t]

\* A segment that is lost, a timer that expires early, a segment that is lost
\* while the window is closed, a server that closes first.
MCPlans == {ThePlan(3, FALSE, TRUE,  FALSE, 1, 0),
            ThePlan(2, FALSE, FALSE, FALSE, 0, 1),
            ThePlan(5, TRUE,  FALSE, FALSE, 1, 0),
            ThePlan(2, FALSE, TRUE,  TRUE,  0, 0)}

\* More than the window, and the FIN goes with the last bytes.
SplitPlans == {ThePlan(5, FALSE, TRUE, FALSE, 0, 0)}

\* Two reads behind when the FIN comes.
LatePlans == {ThePlan(3, FALSE, FALSE, FALSE, 0, 0)}

\* As much as the window; segments overtake each other.
FullPlans == {ThePlan(4, FALSE, TRUE, FALSE, 0, 0)}

=============================================================================
