------------------------------ MODULE MCQueue ------------------------------
(***************************************************************************)
(* Instances of Queue for TLC.                                             *)
(***************************************************************************)
EXTENDS Queue

\* Task a above the others.
MCPriority == [t \in Tasks |-> IF t = "a" THEN 2 ELSE 1]

\* Two items: one task, with interrupts, everywhere in a ring of two slots.
Ordered == [length |-> 2, callers |-> {"a"}, interrupts |-> {"back", "front", "receive"},
            items |-> {"x", "y"}, sends |-> {"back", "front"},
            reads |-> {"receive", "peek"}, waits |-> {"none", "finite"},
            resets |-> TRUE]

\* One slot, two tasks that wait for a time.
Single == [length |-> 1, callers |-> {"a", "b"}, interrupts |-> {"overwrite", "receive"},
           items |-> {"x"}, sends |-> {"back"},
           reads |-> {"receive", "peek"}, waits |-> {"finite"}, resets |-> FALSE]

\* Two slots, and several tasks that wait for an item ...
Readers == [length |-> 2, callers |-> {"a", "b", "c"}, interrupts |-> {"back"},
            items |-> {"x"}, sends |-> {}, reads |-> {"receive"},
            waits |-> {"forever"}, resets |-> FALSE]

\* ... or for a place.
Writers == [length |-> 2, callers |-> {"a", "b", "c"}, interrupts |-> {"receive"},
            items |-> {"x"}, sends |-> {"back"}, reads |-> {},
            waits |-> {"forever"}, resets |-> FALSE]

MCUses == {Ordered, Single, Readers, Writers}

=============================================================================
