------------------------------ MODULE Mailbox ------------------------------
(***************************************************************************)
(* What a FreeRTOS queue promises its users, and lwIP builds its mailboxes *)
(* on: a bounded first-in first-out buffer whose operations take effect at *)
(* one instant, wherever the tasks and interrupts that use it stand.       *)
(***************************************************************************)
EXTENDS Naturals, Sequences

CONSTANTS Items, Nothing

VARIABLES
    length,     \* how many items it holds; it never changes
    queue,      \* the items, the next one first
    taken       \* what the last operation that read the queue returned

vars == <<length, queue, taken>>

Init == length \in Nat \ {0} /\ queue = << >> /\ taken = Nothing

Post(i) == Len(queue) < length /\ queue' = Append(queue, i) /\ UNCHANGED taken

PostFront(i) == Len(queue) < length /\ queue' = <<i>> \o queue /\ UNCHANGED taken

\* For a mailbox with one slot.
Overwrite(i) == length = 1 /\ queue' = <<i>> /\ UNCHANGED taken

Fetch == queue # << >> /\ taken' = Head(queue) /\ queue' = Tail(queue)

Peek == queue # << >> /\ taken' = Head(queue) /\ UNCHANGED queue

Reset == queue' = << >> /\ UNCHANGED taken

Next ==
    /\ \/ \E i \in Items : Post(i) \/ PostFront(i) \/ Overwrite(i)
       \/ Fetch \/ Peek \/ Reset
    /\ UNCHANGED length

Spec == Init /\ [][Next]_vars

=============================================================================
