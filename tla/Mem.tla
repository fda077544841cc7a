-------------------------------- MODULE Mem --------------------------------
(***************************************************************************)
(* mem.c: the heap of lwIP.  A header in front of every area, used or not, *)
(* links it to its neighbours; the search for a free one begins at lfree.  *)
(*                                                                         *)
(* Calls hold mem_mutex, save that mem_trim looks at the size of the block *)
(* before it takes it.  An address is an index into "ram"; a block has the *)
(* address of its header.  Callers free and trim what they were given.     *)
(***************************************************************************)
EXTENDS Integers

CONSTANTS
    MEM_SIZE,           \* MEM_SIZE_ALIGNED, the address of ram_end
    MEM_ALIGNMENT,
    SIZEOF_STRUCT_MEM,
    MIN_SIZE,           \* MIN_SIZE_ALIGNED
    SizeMax             \* the largest mem_size_t

MemAssumption ==
    /\ MEM_ALIGNMENT \in Nat \ {0} /\ SizeMax \in Nat
    /\ MEM_SIZE \in Nat /\ MEM_SIZE % MEM_ALIGNMENT = 0 /\ MEM_SIZE <= SizeMax
    /\ SIZEOF_STRUCT_MEM \in Nat \ {0} /\ SIZEOF_STRUCT_MEM % MEM_ALIGNMENT = 0
    /\ MIN_SIZE \in Nat \ {0} /\ MIN_SIZE % MEM_ALIGNMENT = 0
    /\ SIZEOF_STRUCT_MEM + MIN_SIZE <= MEM_SIZE

VARIABLES
    ram,        \* the headers that are linked, by address
    lfree,
    blocks,     \* what callers have: the size they asked for, by address
    trim        \* the block mem_trim has looked at and not locked the heap for, or none

vars == <<ram, lfree, blocks, trim>>

Sizes == 0 .. SizeMax

None == [at |-> -1, newsize |-> 0, size |-> 0, asked |-> 0]

Init ==
    /\ ram = [p \in {0, MEM_SIZE} |->
                [next |-> MEM_SIZE, prev |-> p, used |-> p = MEM_SIZE]]
    /\ lfree = 0
    /\ blocks = [p \in {} |-> 0] /\ trim = None

(* ---- sizes ---- *)

\* Rounded up to the alignment, in a mem_size_t.
LWIP_MEM_ALIGN_SIZE(n) ==
    LET up == n + MEM_ALIGNMENT - 1 IN (up - (up % MEM_ALIGNMENT)) % (SizeMax + 1)

Expanded(n) ==
    IF LWIP_MEM_ALIGN_SIZE(n) < MIN_SIZE THEN MIN_SIZE ELSE LWIP_MEM_ALIGN_SIZE(n)

TooLarge(n) == Expanded(n) > MEM_SIZE \/ Expanded(n) < n

\* What an area holds besides its header.
Room(p) == ram[p].next - p - SIZEOF_STRUCT_MEM

(* ---- headers ---- *)

\* A new header at q makes two areas of the one at p; nobody looks at ram_end's prev.
Split(h, p, q) ==
    [a \in DOMAIN h \union {q} |->
       IF a = q THEN [next |-> h[p].next, prev |-> p, used |-> FALSE]
       ELSE IF a = p THEN [h[p] EXCEPT !.next = q]
       ELSE IF a = h[p].next /\ a # MEM_SIZE THEN [h[a] EXCEPT !.prev = q]
       ELSE h[a]]

\* The area behind the one at p becomes part of it.
Join(h, p) ==
    LET n == h[p].next
    IN  [a \in DOMAIN h \ {n} |->
           IF a = p THEN [h[p] EXCEPT !.next = h[n].next]
           ELSE IF a = h[n].next /\ a # MEM_SIZE THEN [h[a] EXCEPT !.prev = p]
           ELSE h[a]]

JoinsNext_Never(h, p) == FALSE

JoinsNext(h, p) == ~h[h[p].next].used

JoinsPrev(h, p) == h[p].prev # p /\ ~h[h[p].prev].used

plug_holes(h, p) ==
    LET f == IF JoinsNext(h, p) THEN Join(h, p) ELSE h
    IN  IF JoinsPrev(f, p) THEN Join(f, f[p].prev) ELSE f

\* Where lfree goes, which may be at one of the headers that are gone.
plug_holes_lfree(h, p, l) ==
    LET f == IF JoinsNext(h, p) /\ l = h[p].next THEN p ELSE l
    IN  IF JoinsPrev(h, p) /\ f = p THEN h[p].prev ELSE f

(* ---- calls ---- *)

\* The loop of mem_malloc: the first area from lfree on that is free and large enough.
Fits(size) ==
    {p \in DOMAIN ram : lfree <= p /\ p < MEM_SIZE - size /\ ~ram[p].used /\ Room(p) >= size}

\* What the update of lfree looks for from p on: a free area, or ram_end.
FreeFrom(h, p) == {q \in DOMAIN h : p <= q /\ (~h[q].used \/ q = MEM_SIZE)}

First(areas) == {p \in areas : \A q \in areas : p <= q}

\* The area p is given out; what is more than enough remains free.
Taken(p, size) ==
    LET h == IF Room(p) >= size + SIZEOF_STRUCT_MEM + MIN_SIZE
               THEN Split(ram, p, p + SIZEOF_STRUCT_MEM + size) ELSE ram
    IN  [h EXCEPT ![p].used = TRUE]

Refused(n) == n = 0 \/ TooLarge(n) \/ Fits(Expanded(n)) = {}

mem_malloc(n) ==
    \/ /\ ~Refused(n)
       /\ \E p \in First(Fits(Expanded(n))) :
            /\ ram' = Taken(p, Expanded(n))
            /\ lfree' \in IF p = lfree THEN First(FreeFrom(ram', p)) ELSE {lfree}
            /\ blocks' = [b \in DOMAIN blocks \union {p} |-> IF b = p THEN n ELSE blocks[b]]
       /\ UNCHANGED trim
    \/ Refused(n) /\ UNCHANGED vars

\* What mem_free asks of a header before it believes it.
mem_link_valid(p) ==
    LET mem == ram[p]
    IN  /\ mem.next <= MEM_SIZE /\ mem.prev <= MEM_SIZE
        /\ mem.prev = p \/ ram[mem.prev].next = p
        /\ mem.next = MEM_SIZE \/ ram[mem.next].prev = p

Lower(p, q) == IF p < q THEN p ELSE q

mem_free(p) ==
    /\ p \in DOMAIN blocks /\ p # trim.at
    /\ ram[p].used /\ mem_link_valid(p)
    /\ LET freed == [ram EXCEPT ![p].used = FALSE]
       IN  /\ ram' = plug_holes(freed, p)
           /\ lfree' = plug_holes_lfree(freed, p, Lower(p, lfree))
    /\ blocks' = [b \in DOMAIN blocks \ {p} |-> blocks[b]]
    /\ UNCHANGED trim

\* A size that is not smaller changes nothing.
BeginTrim(p, n) ==
    /\ trim = None /\ p \in DOMAIN blocks
    /\ n <= blocks[p] /\ ~TooLarge(n) /\ Expanded(n) < Room(p)
    /\ trim' = [at |-> p, newsize |-> Expanded(n), size |-> Room(p), asked |-> n]
    /\ UNCHANGED <<ram, lfree, blocks>>

\* A free neighbour grows; behind a used one there is room for a free area or not.
mem_trim ==
    LET p    == trim.at
        next == ram[p].next
        ptr2 == p + SIZEOF_STRUCT_MEM + trim.newsize
    IN  /\ trim # None /\ trim' = None
        /\ blocks' = [blocks EXCEPT ![p] = trim.asked]
        /\ \/ /\ ~ram[next].used
              /\ ram' = Split(Join(ram, p), p, ptr2)
              /\ lfree' = IF lfree = next THEN ptr2 ELSE lfree
           \/ /\ ram[next].used
              /\ trim.newsize + SIZEOF_STRUCT_MEM + MIN_SIZE <= trim.size
              /\ ram' = Split(ram, p, ptr2)
              /\ lfree' = Lower(ptr2, lfree)
           \/ /\ ram[next].used
              /\ trim.newsize + SIZEOF_STRUCT_MEM + MIN_SIZE > trim.size
              /\ UNCHANGED <<ram, lfree>>

Next ==
    \/ \E n \in Sizes : mem_malloc(n)
    \/ \E p \in DOMAIN blocks : mem_free(p) \/ \E n \in Sizes : BeginTrim(p, n)
    \/ mem_trim

Spec == Init /\ [][Next]_vars

(* ---- properties ---- *)

Addresses == 0 .. MEM_SIZE

\* Type invariant.
TypeOK ==
    /\ DOMAIN ram \subseteq Addresses
    /\ ram \in [DOMAIN ram -> [next : Addresses, prev : Addresses, used : BOOLEAN]]
    /\ lfree \in DOMAIN ram
    /\ DOMAIN blocks \subseteq DOMAIN ram /\ blocks \in [DOMAIN blocks -> Sizes]
    /\ trim = None
       \/ trim \in [at : DOMAIN blocks, newsize : Sizes, size : Sizes, asked : Sizes]

\* The areas follow each other without a gap and are linked both ways; of two
\* neighbours one is used, so that memory is never in smaller pieces than it need be.
AreasLinked ==
    \A p \in DOMAIN ram \ {MEM_SIZE} :
      LET n == ram[p].next
      IN  /\ n \in DOMAIN ram /\ p + SIZEOF_STRUCT_MEM + MIN_SIZE <= n
          /\ \A q \in DOMAIN ram : q <= p \/ n <= q
          /\ n # MEM_SIZE => ram[n].prev = p
          /\ ram[p].used \/ ram[n].used

\* The search misses no free area.
SearchStarts ==
    /\ ~ram[lfree].used \/ lfree = MEM_SIZE
    /\ \A p \in DOMAIN ram : ~ram[p].used => lfree <= p

\* Callers have the areas that are used, with room for what they asked for, aligned;
\* what they give back is not taken for a double free.
BlocksFit ==
    /\ DOMAIN blocks = {p \in DOMAIN ram : ram[p].used} \ {MEM_SIZE}
    /\ \A p \in DOMAIN ram : p % MEM_ALIGNMENT = 0
    /\ \A p \in DOMAIN blocks : blocks[p] <= Room(p) /\ mem_link_valid(p)

\* What mem_sanity would assert if it were compiled in, and what its callers rely on,
\* also when others take and give back memory between the two halves of mem_trim.
HeapSound == AreasLinked /\ SearchStarts /\ BlocksFit

=============================================================================
