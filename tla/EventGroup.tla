---------------------------- MODULE EventGroup ----------------------------
(***************************************************************************)
(* FreeRTOS event groups (event_groups.c): tasks that set bits, wait for   *)
(* some or all of a set of bits, and meet in xEventGroupSync.              *)
(*                                                                         *)
(* No interrupt touches an event group, so that what is done with the      *)
(* scheduler suspended is one step.  A task that was woken, or whose time  *)
(* is over, goes on in a later one.                                        *)
(***************************************************************************)
EXTENDS Naturals, FiniteSets

CONSTANTS
    Tasks,
    Bits,
    Uses,       \* the ways the group is used, of which one is drawn
    MaxRounds   \* bound of the exploration: calls of xEventGroupSync of each task

\* The calls a task may make: "sync" sets bits, waits for all of `for' and clears them.
Calls ==
    {c \in [kind : {"sync", "wait", "set", "clear"}, sets : SUBSET Bits, for : SUBSET Bits,
            all : BOOLEAN, clears : BOOLEAN, wait : {"none", "finite", "forever"}] :
       c.kind = "sync" => c.all /\ c.clears}

GroupAssumption == Uses \subseteq [Tasks -> SUBSET Calls] /\ MaxRounds \in Nat

VARIABLES
    use,            \* for each task, the calls it makes
    uxEventBits,
    pc, call,       \* of each task
    item,           \* the bits its event list item was left with when it was woken
    entered, left   \* history: how often each began and ended a rendezvous

vars == <<use, uxEventBits, pc, call, item, entered, left>>

NoCall == [kind |-> "none", sets |-> {}, for |-> {}, all |-> FALSE, clears |-> FALSE,
           wait |-> "none"]

Init ==
    /\ use \in Uses
    /\ uxEventBits = {}
    /\ pc = [t \in Tasks |-> "out"] /\ call = [t \in Tasks |-> NoCall]
    /\ item = [t \in Tasks |-> {}]
    /\ entered = [t \in Tasks |-> 0] /\ left = [t \in Tasks |-> 0]

Any(c, bits) == c.for \intersect bits # {}

prvTestWaitCondition(c, bits) == IF c.all THEN c.for \subseteq bits ELSE Any(c, bits)

Waiting == {t \in Tasks : pc[t] = "waiting"}

\* The tasks that `bits' wake, and what they clear.
Woken(bits) == {t \in Waiting : prvTestWaitCondition(call[t], bits)}

Cleared(bits) == UNION {call[t].for : t \in {u \in Woken(bits) : call[u].clears}}

\* The walk along xTasksWaitingForBits; the bits are cleared when it is over.
Wake(bits, pcs) ==
    /\ pc' = [t \in Tasks |-> IF t \in Woken(bits) THEN "woken" ELSE pcs[t]]
    /\ item' = [t \in Tasks |-> IF t \in Woken(bits) THEN bits ELSE item[t]]

Enters(t, c) ==
    entered' = [entered EXCEPT ![t] = IF c.kind = "sync" THEN @ + 1 ELSE @]

Leaves(t, c) ==
    left' = [left EXCEPT ![t] = IF c.kind = "sync" THEN @ + 1 ELSE @]

xEventGroupSetBits(t, c) ==
    LET bits == uxEventBits \union c.sets
    IN  /\ c.kind = "set"
        /\ Wake(bits, pc)
        /\ uxEventBits' = bits \ Cleared(bits)
        /\ UNCHANGED <<call, entered, left>>

xEventGroupClearBits(t, c) ==
    /\ c.kind = "clear"
    /\ uxEventBits' = uxEventBits \ c.for
    /\ UNCHANGED <<pc, call, item, entered, left>>

\* The last task to come clears the bits itself: it is not on the list.
xEventGroupSync(t, c) ==
    LET bits == uxEventBits \union c.sets
        met  == c.for \subseteq bits
        stay == ~met /\ c.wait # "none"
    IN  /\ c.kind = "sync" /\ entered[t] < MaxRounds
        /\ Wake(bits, [pc EXCEPT ![t] = IF stay THEN "waiting" ELSE "out"])
        /\ uxEventBits' = bits \ (Cleared(bits) \union IF met THEN c.for ELSE {})
        /\ call' = [call EXCEPT ![t] = IF stay THEN c ELSE NoCall]
        /\ Enters(t, c)
        /\ IF met THEN Leaves(t, c) ELSE UNCHANGED left

xEventGroupWaitBits(t, c) ==
    LET met  == prvTestWaitCondition(c, uxEventBits)
        stay == ~met /\ c.wait # "none"
    IN  /\ c.kind = "wait"
        /\ pc' = [pc EXCEPT ![t] = IF stay THEN "waiting" ELSE "out"]
        /\ call' = [call EXCEPT ![t] = IF stay THEN c ELSE NoCall]
        /\ uxEventBits' = uxEventBits \ IF met /\ c.clears THEN c.for ELSE {}
        /\ UNCHANGED <<item, entered, left>>

Expire(t, to) ==
    /\ pc[t] = "waiting" /\ call[t].wait = "finite"
    /\ pc' = [pc EXCEPT ![t] = to]
    /\ UNCHANGED <<uxEventBits, call, item, entered, left>>

TimePasses(t) == Expire(t, "expired")

Leave(t, bits) ==
    /\ pc[t] = "woken"
    /\ pc' = [pc EXCEPT ![t] = "out"]
    /\ call' = [call EXCEPT ![t] = NoCall]
    /\ item' = [item EXCEPT ![t] = {}]
    /\ Leaves(t, call[t])
    /\ uxEventBits' = bits
    /\ UNCHANGED entered

Return_ClearsAgain(t) ==
    Leave(t, uxEventBits \ IF call[t].clears THEN call[t].for ELSE {})

\* A task that was woken: it is told the bits it was woken with.
Return(t) == Leave(t, uxEventBits)

\* The bits may have been set since.
ReturnLate(t) ==
    LET met == prvTestWaitCondition(call[t], uxEventBits)
    IN  /\ pc[t] = "expired"
        /\ pc' = [pc EXCEPT ![t] = "out"]
        /\ call' = [call EXCEPT ![t] = NoCall]
        /\ uxEventBits' = uxEventBits \ IF met /\ call[t].clears THEN call[t].for ELSE {}
        /\ IF met THEN Leaves(t, call[t]) ELSE UNCHANGED left
        /\ UNCHANGED <<item, entered>>

\* The bound of the exploration is reached, and nobody was left waiting.
RoundsOver == (\A t \in Tasks : pc[t] = "out" /\ entered[t] = MaxRounds) /\ UNCHANGED vars

Next ==
    /\ UNCHANGED use
    /\ \/ \E t \in Tasks :
            \/ /\ pc[t] = "out"
               /\ \E c \in use[t] :
                    \/ xEventGroupSetBits(t, c) \/ xEventGroupClearBits(t, c)
                    \/ xEventGroupSync(t, c) \/ xEventGroupWaitBits(t, c)
            \/ TimePasses(t) \/ Return(t) \/ ReturnLate(t)
       \/ RoundsOver

Spec == Init /\ [][Next]_vars

(* ---- properties ---- *)

\* Type invariant.
TypeOK ==
    /\ use \in Uses /\ use \in [Tasks -> SUBSET Calls]
    /\ uxEventBits \subseteq Bits
    /\ pc \in [Tasks -> {"out", "waiting", "woken", "expired"}]
    /\ \A t \in Tasks : pc[t] = "out" <=> call[t] = NoCall
    /\ item \in [Tasks -> SUBSET Bits]
    /\ entered \in [Tasks -> 0 .. MaxRounds] /\ left \in [Tasks -> 0 .. MaxRounds]

\* No task stays on the list beside the bits it waits for, and one that was woken was
\* shown them, though others that were woken with it cleared them.
NoneMissed ==
    \A t \in Tasks :
      /\ pc[t] = "waiting" => ~prvTestWaitCondition(call[t], uxEventBits)
      /\ pc[t] = "woken" => prvTestWaitCondition(call[t], item[t])

\* What a task sets.
Own(t) == UNION {c.sets : c \in use[t]}

\* Every task comes to the rendezvous with bits of its own, for as long as it takes, and
\* together they set them all.
OnlyMeet ==
    /\ \A t \in Tasks : use[t] # {} /\ \A c \in use[t] :
         /\ c.kind = "sync" /\ c.wait = "forever"
         /\ c.for = Bits /\ c.sets = Own(t) /\ c.sets # {}
    /\ \A t, u \in Tasks : t # u => Own(t) \intersect Own(u) = {}
    /\ Bits = UNION {Own(t) : t \in Tasks}

\* Where tasks only meet, nobody leaves a rendezvous before everybody has come to it,
\* however fast some come back, and nobody waits for those who have all come.
Rendezvous ==
  /\ NoneMissed
  /\ OnlyMeet =>
      /\ \A t, u \in Tasks : left[t] <= entered[u]
      /\ \A t \in Waiting : \E u \in Tasks : entered[u] < entered[t]

=============================================================================
