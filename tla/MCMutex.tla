------------------------------ MODULE MCMutex ------------------------------
(***************************************************************************)
(* An instance of Mutex: four tasks, two mutexes, always taken in the      *)
(* same order.                                                             *)
(***************************************************************************)
EXTENDS Mutex

Nested == [priorities |-> [a |-> 2, b |-> 3, c |-> 4, d |-> 1],
           mutexes |-> {"m", "n"}, nested |-> {<<"n", "m">>}, settings |-> {}]

MCUses == {Nested}

=============================================================================
