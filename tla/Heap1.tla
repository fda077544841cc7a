------------------------------- MODULE Heap1 -------------------------------
(***************************************************************************)
(* heap_1.c: blocks are cut off the front of one array and never returned. *)
(* What is asked for is a size_t, which wraps; the array lies anywhere.    *)
(***************************************************************************)
EXTENDS Integers

CONSTANTS
    HeapSize,   \* configTOTAL_HEAP_SIZE
    Align,      \* portBYTE_ALIGNMENT
    SizeMax     \* the largest size_t

VARIABLES
    ucHeap,         \* the address of the array, chosen by the linker
    xNextFreeByte,
    blocks          \* history: what callers were given, and what they asked for

vars == <<ucHeap, xNextFreeByte, blocks>>

HeapAssumption ==
    /\ Align \in Nat \ {0} /\ SizeMax \in Nat
    /\ HeapSize \in Nat /\ Align < HeapSize /\ HeapSize <= SizeMax

configADJUSTED_HEAP_SIZE_Whole == HeapSize

configADJUSTED_HEAP_SIZE == HeapSize - Align

Init ==
    /\ ucHeap \in 0 .. Align - 1
    /\ xNextFreeByte = 0
    /\ blocks = {}

\* The first aligned address of the array.
pucAlignedHeap == (ucHeap + Align - 1) - ((ucHeap + Align - 1) % Align)

heapADD_WILL_OVERFLOW(a, b) == a > SizeMax - b

Missing(n) == IF n % Align = 0 THEN 0 ELSE Align - (n % Align)

\* Rounded up to the alignment; what cannot be is refused as if it were nothing.
Rounded(n) == IF heapADD_WILL_OVERFLOW(n, Missing(n)) THEN 0 ELSE n + Missing(n)

CanTake(size) ==
    /\ size > 0
    /\ ~heapADD_WILL_OVERFLOW(xNextFreeByte, size)
    /\ xNextFreeByte + size < configADJUSTED_HEAP_SIZE

pvPortMalloc(n) ==
    /\ CanTake(Rounded(n))
    /\ blocks' = blocks \union {[at |-> pucAlignedHeap + xNextFreeByte, size |-> n]}
    /\ xNextFreeByte' = xNextFreeByte + Rounded(n)
    /\ UNCHANGED ucHeap

\* NULL is returned.
Refuse(n) == ~CanTake(Rounded(n)) /\ UNCHANGED vars

Next == \E n \in 0 .. SizeMax : pvPortMalloc(n) \/ Refuse(n)

Spec == Init /\ [][Next]_vars

(* ---- properties ---- *)

\* Type invariant.
TypeOK ==
    /\ ucHeap \in 0 .. Align - 1
    /\ xNextFreeByte \in 0 .. HeapSize
    /\ blocks \in SUBSET [at : Nat, size : 0 .. SizeMax]

Apart(b, c) == b.at + b.size <= c.at \/ c.at + c.size <= b.at

\* Every block lies in the array, is aligned and as large as was asked for, and no two
\* overlap, wherever the linker put the array and whatever was asked for.
BlocksApart ==
    /\ \A b \in blocks :
         /\ ucHeap <= b.at /\ b.at + b.size <= ucHeap + HeapSize
         /\ b.at % Align = 0 /\ b.size > 0
    /\ \A b, c \in blocks : b # c => Apart(b, c)

=============================================================================
