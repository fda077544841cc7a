-------------------------------- MODULE Pbuf --------------------------------
(***************************************************************************)
(* pbuf.c: the packet buffers of lwIP, chained, counted and shared between *)
(* threads, and memp.c's pool that most of them come from.                 *)
(*                                                                         *)
(* Only ref and the pools are protected.  Threads keep to the rules of the *)
(* comments: they change a packet, or what it is chained to, only when     *)
(* nobody else refers to it, and give up the reference that pbuf_cat takes *)
(* over.  They do not chain an empty packet behind another.  PBUF_REF and  *)
(* PBUF_ROM are left out.                                                  *)
(***************************************************************************)
EXTENDS Integers, SequencesExt

CONSTANTS
    Pool,       \* the pbufs of memp's PBUF_POOL, numbers from 1
    Ram,        \* those that mem_malloc has room for, further numbers
    BufSize,    \* PBUF_POOL_BUFSIZE_ALIGNED
    Threads,
    Tcpip,      \* the one that is tcpip_thread
    Pcbs,       \* tcp_active_pcbs; what an ooseq holds is a packet each
    Lengths,    \* of the packets that are allocated
    Layers,     \* the room in front of them, and the sizes of headers
    MaxLen      \* bound: of a chain

PbufAssumption == IsFiniteSet(Threads) /\ Tcpip \in Threads

VARIABLES
    pbuf,       \* the allocated ones, by number: their fields, payload as the room in
                \* front of it, and the len bytes from there on
    held,       \* for each thread and pcb, the packets it refers to and their bytes
    pbuf_free_ooseq_pending,
    callbacks,  \* how many pbuf_free_ooseq_callback wait in tcpip_thread's mailbox
    call        \* where each thread is in pbuf_alloc, pbuf_free or tcp_segs_free

vars == <<pbuf, held, pbuf_free_ooseq_pending, callbacks, call>>

NULL == 0
Pbufs == Pool \union Ram
Owners == Threads \union Pcbs

\* Two bytes are enough to tell one from its neighbours; a header has the one that
\* unwritten memory has.
Unwritten == 0
Header == 0

Idle == [pc |-> "idle", at |-> NULL, last |-> NULL, length |-> 0, rem |-> 0, offset |-> 0,
         more |-> {}]

Init ==
    /\ pbuf = [p \in {} |-> 0]
    /\ held = [o \in Owners |-> [p \in {} |-> <<>>]]
    /\ pbuf_free_ooseq_pending = FALSE /\ callbacks = 0
    /\ call = [t \in Threads |-> Idle]

(* ---- chains ---- *)

Chain(b, p) ==
    LET from[q \in DOMAIN b \union {NULL}] ==
          IF q = NULL THEN <<>> ELSE <<q>> \o from[b[q].next]
    IN  from[p]

len(b, p) == Len(b[p].bytes)

Content(b, chain) == FlattenSeq([i \in DOMAIN chain |-> b[chain[i]].bytes])

\* How many bytes of the chain are in front of its i-th pbuf.
Before(b, chain, i) == Len(Content(b, SubSeq(chain, 1, i - 1)))

\* Nothing but t's reference to the first leads into the packet.
Sole(t, p) ==
    p \in DOMAIN held[t] /\ \A q \in ToSet(Chain(pbuf, p)) : pbuf[q].ref = 1

Put(f, p, v) == [q \in DOMAIN f \union {p} |-> IF q = p THEN v ELSE f[q]]

Drop(f, p) == [q \in DOMAIN f \ {p} |-> f[q]]

pbuf_init_alloced_pbuf(payload, tot_len, length) ==
    [next |-> NULL, payload |-> payload, tot_len |-> tot_len, ref |-> 1,
     bytes |-> [i \in 1 .. length |-> Unwritten]]

\* The bytes of the chain are overwritten from its first one on, as far as data goes.
pbuf_take(b, p, data) ==
    LET chain == Chain(b, p)
        Taken(i) ==
          LET n == Before(b, chain, i)
          IN  [k \in DOMAIN b[chain[i]].bytes |->
                 IF n + k <= Len(data) THEN data[n + k] ELSE b[chain[i]].bytes[k]]
    IN  [q \in DOMAIN b |->
           [b[q] EXCEPT !.bytes =
              IF q \in ToSet(chain) THEN Taken(CHOOSE i \in DOMAIN chain : chain[i] = q)
                                    ELSE @]]

Data(n) == [i \in 1 .. n |-> i % 2]

\* Which of the free ones it is makes no difference.
Get(free) == CHOOSE p \in free : \A q \in free : p <= q

(* ---- pbuf_alloc ---- *)

Begin(t, n, layer) ==
    /\ call[t] = Idle
    /\ call' = [call EXCEPT ![t] = [Idle EXCEPT !.pc = "alloc", !.length = n, !.rem = n,
                                                !.offset = layer]]
    /\ UNCHANGED <<pbuf, held, pbuf_free_ooseq_pending, callbacks>>

\* memp_malloc has one more; the caller fills the packet when it is complete.
AllocPool(t) ==
    LET c == call[t]
        free == Pool \ DOMAIN pbuf
        q == Get(free)
        room == BufSize - c.offset
        qlen == IF c.rem < room THEN c.rem ELSE room
        new == pbuf_init_alloced_pbuf(c.offset, c.rem, qlen)
        linked == Put(IF c.at = NULL THEN pbuf ELSE [pbuf EXCEPT ![c.last].next = q], q, new)
        p == IF c.at = NULL THEN q ELSE c.at
    IN  /\ c.pc = "alloc" /\ free # {}
        /\ \/ /\ c.rem > qlen
              /\ pbuf' = linked
              /\ call' = [call EXCEPT ![t] = [c EXCEPT !.at = p, !.last = q, !.offset = 0,
                                                       !.rem = c.rem - qlen]]
              /\ UNCHANGED held
           \/ /\ c.rem = qlen
              /\ pbuf' = pbuf_take(linked, p, Data(c.length))
              /\ held' = [held EXCEPT ![t] = Put(@, p, Data(c.length))]
              /\ call' = [call EXCEPT ![t] = Idle]
        /\ UNCHANGED <<pbuf_free_ooseq_pending, callbacks>>

NoneLeft(t) ==
    /\ call[t].pc = "alloc" /\ Pool \subseteq DOMAIN pbuf
    /\ call' = [call EXCEPT ![t].pc = "empty"]
    /\ UNCHANGED <<pbuf, held, pbuf_free_ooseq_pending, callbacks>>

\* Where a thread goes that has p, or NULL, to free and then the ones of more.
Freeing(p, more) ==
    IF p # NULL THEN {[Idle EXCEPT !.pc = "free", !.at = p, !.more = more]}
    ELSE IF more = {} THEN {Idle}
    ELSE {[Idle EXCEPT !.pc = "free", !.at = q, !.more = more \ {q}] : q \in more}

Frees(t, p, more) == \E c \in Freeing(p, more) : call' = [call EXCEPT ![t] = c]

\* One request at a time; then the chain so far goes back.
pbuf_pool_is_empty(t) ==
    /\ call[t].pc = "empty"
    /\ pbuf_free_ooseq_pending' = TRUE
    /\ IF pbuf_free_ooseq_pending THEN Frees(t, call[t].at, {})
       ELSE call' = [call EXCEPT ![t].pc = "post"]
    /\ UNCHANGED <<pbuf, held, callbacks>>

\* tcpip_try_callback finds room for a message and in the mailbox, or it does not.
tcpip_try_callback(t) ==
    /\ call[t].pc = "post"
    /\ \/ callbacks' = callbacks + 1 /\ Frees(t, call[t].at, {})
       \/ call' = [call EXCEPT ![t].pc = "unset"] /\ UNCHANGED callbacks
    /\ UNCHANGED <<pbuf, held, pbuf_free_ooseq_pending>>

Unset(t) ==
    /\ call[t].pc = "unset"
    /\ pbuf_free_ooseq_pending' = FALSE
    /\ Frees(t, call[t].at, {})
    /\ UNCHANGED <<pbuf, held, callbacks>>

\* In tcpip_thread: the packets of one of the pcbs that have any.
pbuf_free_ooseq ==
    /\ call[Tcpip] = Idle /\ callbacks > 0
    /\ callbacks' = callbacks - 1 /\ pbuf_free_ooseq_pending' = FALSE
    /\ LET with == {pcb \in Pcbs : DOMAIN held[pcb] # {}}
       IN  \/ with = {} /\ UNCHANGED <<held, call>>
           \/ \E pcb \in with :
                /\ held' = [held EXCEPT ![pcb] = [p \in {} |-> <<>>]]
                /\ Frees(Tcpip, NULL, DOMAIN held[pcb])
    /\ UNCHANGED pbuf

\* PBUF_RAM: mem_malloc has room for one more.
AllocRam(t, n, layer) ==
    LET p == Get(Ram \ DOMAIN pbuf)
        new == Put(pbuf, p, pbuf_init_alloced_pbuf(layer, n, n))
    IN  /\ call[t] = Idle /\ Ram \ DOMAIN pbuf # {}
        /\ pbuf' = pbuf_take(new, p, Data(n))
        /\ held' = [held EXCEPT ![t] = Put(@, p, Data(n))]
        /\ UNCHANGED <<pbuf_free_ooseq_pending, callbacks, call>>

(* ---- pbuf_free ---- *)

pbuf_free(t, p) ==
    /\ call[t] = Idle /\ p \in DOMAIN held[t]
    /\ held' = [held EXCEPT ![t] = Drop(@, p)]
    /\ Frees(t, p, {})
    /\ UNCHANGED <<pbuf, pbuf_free_ooseq_pending, callbacks>>

Decrement(t) ==
    LET c == call[t]
    IN  /\ c.pc = "free"
        /\ pbuf' = [pbuf EXCEPT ![c.at].ref = @ - 1]
        /\ IF pbuf[c.at].ref = 1 THEN call' = [call EXCEPT ![t].pc = "gone"]
           ELSE Frees(t, NULL, c.more)
        /\ UNCHANGED <<held, pbuf_free_ooseq_pending, callbacks>>

\* Its memory goes back, and the reference it held to the next one is the one to free.
Dispose(t) ==
    LET c == call[t]
    IN  /\ c.pc = "gone"
        /\ pbuf' = Drop(pbuf, c.at)
        /\ Frees(t, pbuf[c.at].next, c.more)
        /\ UNCHANGED <<held, pbuf_free_ooseq_pending, callbacks>>

(* ---- packets change hands ---- *)

\* The packets a thread can reach: its own, and in tcpip_thread those of the pcbs.
Reach(t) == IF t = Tcpip THEN {t} \union Pcbs ELSE {t}

\* Through a mailbox, or onto an ooseq and off it.
Give(t, o, u, p) ==
    /\ call[t] = Idle /\ o \in Reach(t)
    /\ p \in DOMAIN held[o] /\ p \notin DOMAIN held[u]
    /\ u \in Threads \union Reach(t)
    /\ held' = [held EXCEPT ![o] = Drop(@, p), ![u] = Put(@, p, held[o][p])]
    /\ UNCHANGED <<pbuf, pbuf_free_ooseq_pending, callbacks, call>>

\* To keep it and give it away.
pbuf_ref(t, u, p) ==
    /\ call[t] = Idle /\ p \in DOMAIN held[t]
    /\ p \notin DOMAIN held[u] /\ u \in Threads \union Reach(t)
    /\ pbuf' = [pbuf EXCEPT ![p].ref = @ + 1]
    /\ held' = [held EXCEPT ![u] = Put(@, p, held[t][p])]
    /\ UNCHANGED <<pbuf_free_ooseq_pending, callbacks, call>>

(* ---- chaining ---- *)

\* b with the chain of t behind that of h.
Linked_LastOnly(b, h, t) ==
    LET last == Last(Chain(b, h))
    IN  [b EXCEPT ![last].tot_len = @ + b[t].tot_len, ![last].next = t]

Linked(b, h, t) ==
    LET chain == Chain(b, h)
    IN  [q \in DOMAIN b |->
           IF q \notin ToSet(chain) THEN b[q]
           ELSE [b[q] EXCEPT !.tot_len = @ + b[t].tot_len,
                             !.next = IF q = Last(chain) THEN t ELSE @]]

Chainable(t, h, p) ==
    /\ call[t] = Idle /\ Sole(t, h) /\ p \in DOMAIN held[t] \ {h}
    /\ held[t][p] # <<>> /\ Len(held[t][h]) + Len(held[t][p]) <= MaxLen

pbuf_cat(t, h, p) ==
    /\ Chainable(t, h, p)
    /\ pbuf' = Linked(pbuf, h, p)
    /\ held' = [held EXCEPT ![t] = Put(Drop(@, p), h, @[h] \o @[p])]
    /\ UNCHANGED <<pbuf_free_ooseq_pending, callbacks, call>>

pbuf_chain(t, h, p) ==
    /\ Chainable(t, h, p)
    /\ pbuf' = [Linked(pbuf, h, p) EXCEPT ![p].ref = @ + 1]
    /\ held' = [held EXCEPT ![t][h] = @ \o held[t][p]]
    /\ UNCHANGED <<pbuf_free_ooseq_pending, callbacks, call>>

\* Only its first pbuf need be t's alone.
pbuf_dechain(t, p) ==
    LET q == pbuf[p].next
    IN  /\ call[t] = Idle /\ p \in DOMAIN held[t]
        /\ pbuf[p].ref = 1 /\ q # NULL
        /\ pbuf' = [pbuf EXCEPT ![q].tot_len = pbuf[p].tot_len - len(pbuf, p),
                                ![p].next = NULL, ![p].tot_len = len(pbuf, p)]
        /\ held' = [held EXCEPT ![t][p] = pbuf[p].bytes]
        /\ Frees(t, q, {})
        /\ UNCHANGED <<pbuf_free_ooseq_pending, callbacks>>

(* ---- shorter, and headers ---- *)

\* The first pbuf that holds all of the rest is the last; those behind it are unlinked,
\* which the code does when they are freed.
pbuf_realloc(t, p, n) ==
    LET chain == Chain(pbuf, p)
        k == Min({i \in DOMAIN chain : Before(pbuf, chain, i) + len(pbuf, chain[i]) >= n})
        rem == n - Before(pbuf, chain, k)
        shrink == pbuf[p].tot_len - n
    IN  /\ call[t] = Idle /\ Sole(t, p) /\ n < pbuf[p].tot_len
        /\ pbuf' = [q \in DOMAIN pbuf |->
                      IF q \in ToSet(SubSeq(chain, 1, k - 1))
                      THEN [pbuf[q] EXCEPT !.tot_len = @ - shrink]
                      ELSE IF q = chain[k]
                      THEN [pbuf[q] EXCEPT !.bytes = SubSeq(@, 1, rem), !.tot_len = rem,
                                           !.next = NULL]
                      ELSE pbuf[q]]
        /\ held' = [held EXCEPT ![t][p] = SubSeq(@, 1, n)]
        /\ Frees(t, pbuf[chain[k]].next, {})
        /\ UNCHANGED <<pbuf_free_ooseq_pending, callbacks>>

\* The caller writes the header, which hides what was there.
pbuf_add_header(t, p, n) ==
    LET new == [i \in 1 .. n |-> Header]
    IN  /\ call[t] = Idle /\ p \in DOMAIN held[t] /\ pbuf[p].ref = 1
        /\ pbuf[p].payload >= n /\ pbuf[p].tot_len + n <= MaxLen
        /\ pbuf' = [pbuf EXCEPT ![p].payload = @ - n, ![p].bytes = new \o @,
                                ![p].tot_len = @ + n]
        /\ held' = [held EXCEPT ![t][p] = new \o @]
        /\ UNCHANGED <<pbuf_free_ooseq_pending, callbacks, call>>

Without(b, p, n) ==
    [b EXCEPT ![p].payload = @ + n, ![p].bytes = SubSeq(@, n + 1, Len(@)),
              ![p].tot_len = @ - n]

pbuf_remove_header(t, p, n) ==
    /\ call[t] = Idle /\ p \in DOMAIN held[t] /\ pbuf[p].ref = 1
    /\ n <= len(pbuf, p)
    /\ pbuf' = Without(pbuf, p, n)
    /\ held' = [held EXCEPT ![t][p] = SubSeq(@, n + 1, Len(@))]
    /\ UNCHANGED <<pbuf_free_ooseq_pending, callbacks, call>>

\* Pbufs that lie in the first n bytes go, each unlinked first.
pbuf_free_header(t, p, n) ==
    LET chain == Chain(pbuf, p)
        goes == {i \in DOMAIN chain :
                   /\ Before(pbuf, chain, i) < n
                   /\ Before(pbuf, chain, i) + len(pbuf, chain[i]) <= n}
        gone == {chain[i] : i \in goes}
        k == Cardinality(goes) + 1
        cut == [q \in DOMAIN pbuf |-> IF q \in gone THEN [pbuf[q] EXCEPT !.next = NULL]
                                      ELSE pbuf[q]]
        rest == SubSeq(held[t][p], n + 1, Len(held[t][p]))
    IN  /\ call[t] = Idle /\ Sole(t, p) /\ n > 0
        /\ IF k > Len(chain)
           THEN pbuf' = cut /\ held' = [held EXCEPT ![t] = Drop(@, p)]
           ELSE LET left == n - Before(pbuf, chain, k)
                IN  /\ pbuf' = IF left > 0 THEN Without(cut, chain[k], left) ELSE cut
                    /\ held' = [held EXCEPT ![t] = Put(Drop(@, p), chain[k], rest)]
        /\ Frees(t, NULL, gone)
        /\ UNCHANGED <<pbuf_free_ooseq_pending, callbacks>>

\* A copy in one piece, with room for a header: pbuf_copy finds no empty pbuf at the end.
Copied(p, r, layer) ==
    LET n == pbuf[p].tot_len
        b == Put(pbuf, r, pbuf_init_alloced_pbuf(layer, n, n))
    IN  pbuf_take(b, r, Content(pbuf, Chain(pbuf, p)))

pbuf_clone(t, p, layer) ==
    LET r == Get(Ram \ DOMAIN pbuf)
    IN  /\ call[t] = Idle /\ p \in DOMAIN held[t] /\ Ram \ DOMAIN pbuf # {}
        /\ pbuf' = Copied(p, r, layer)
        /\ held' = [held EXCEPT ![t] = Put(@, r, held[t][p])]
        /\ UNCHANGED <<pbuf_free_ooseq_pending, callbacks, call>>

pbuf_coalesce(t, p, layer) ==
    LET r == Get(Ram \ DOMAIN pbuf)
    IN  /\ call[t] = Idle /\ p \in DOMAIN held[t] /\ Ram \ DOMAIN pbuf # {}
        /\ pbuf[p].next # NULL
        /\ pbuf' = Copied(p, r, layer)
        /\ held' = [held EXCEPT ![t] = Put(Drop(@, p), r, held[t][p])]
        /\ Frees(t, p, {})
        /\ UNCHANGED <<pbuf_free_ooseq_pending, callbacks>>

(* ---- specification ---- *)

Next ==
    \/ pbuf_free_ooseq
    \/ \E t \in Threads :
         \/ AllocPool(t) \/ NoneLeft(t) \/ pbuf_pool_is_empty(t) \/ tcpip_try_callback(t)
         \/ Unset(t) \/ Decrement(t) \/ Dispose(t)
         \/ \E n \in Lengths, layer \in Layers : Begin(t, n, layer) \/ AllocRam(t, n, layer)
         \/ \E p \in DOMAIN held[t] :
              \/ pbuf_free(t, p) \/ pbuf_dechain(t, p)
              \/ \E q \in DOMAIN held[t] : pbuf_cat(t, p, q) \/ pbuf_chain(t, p, q)
              \/ \E n \in 0 .. MaxLen : pbuf_realloc(t, p, n) \/ pbuf_free_header(t, p, n)
              \/ \E n \in Layers \ {0} : pbuf_add_header(t, p, n) \/ pbuf_remove_header(t, p, n)
              \/ \E layer \in Layers : pbuf_clone(t, p, layer) \/ pbuf_coalesce(t, p, layer)
              \/ \E u \in Owners \ {t} : pbuf_ref(t, u, p)
         \/ \E o, u \in Owners : \E p \in DOMAIN held[o] : Give(t, o, u, p)

Spec == Init /\ [][Next]_vars

(* ---- properties ---- *)

TypeOK ==
    /\ DOMAIN pbuf \subseteq Pbufs
    /\ \A p \in DOMAIN pbuf :
         /\ pbuf[p].next \in Pbufs \union {NULL}
         /\ {pbuf[p].payload, pbuf[p].tot_len, pbuf[p].ref} \subseteq Nat
         /\ p \in Pool => pbuf[p].payload + len(pbuf, p) <= BufSize
    /\ \A o \in Owners : DOMAIN held[o] \subseteq Pbufs
    /\ pbuf_free_ooseq_pending \in BOOLEAN /\ callbacks \in Nat
    /\ \A t \in Threads : call[t].at \in Pbufs \union {NULL} /\ call[t].more \subseteq Pbufs

\* What pbuf.h says of ref: that many pointers refer to the pbuf, from packets that
\* somebody has, from pbufs that are allocated and from calls under way.  One that nothing
\* refers to is being given back by one thread, so none is lost and none is freed twice.
Counted ==
    LET referring == {p \in DOMAIN pbuf : pbuf[p].next # NULL}
        working == {t \in Threads : call[t].pc # "gone" /\ call[t].at # NULL}
    IN  /\ {pbuf[p].next : p \in referring} \subseteq DOMAIN pbuf
        /\ \A o \in Owners : DOMAIN held[o] \subseteq DOMAIN pbuf
        /\ \A t \in Threads : call[t].more \union ({call[t].at} \ {NULL}) \subseteq DOMAIN pbuf
        /\ \A p \in DOMAIN pbuf :
             /\ pbuf[p].ref = Cardinality({q \in referring : pbuf[q].next = p})
                              + Cardinality({o \in Owners : p \in DOMAIN held[o]})
                              + Cardinality({t \in working : call[t].at = p})
                              + Cardinality({t \in Threads : p \in call[t].more})
             /\ Cardinality({t \in Threads : call[t].pc = "gone" /\ call[t].at = p})
                  = IF pbuf[p].ref = 0 THEN 1 ELSE 0

\* What pbuf.h says of tot_len, for every packet that somebody has; and its bytes are the
\* ones its owner expects, whatever others do with what they share of it.
Intact ==
    \A o \in Owners : \A p \in DOMAIN held[o] :
      LET chain == Chain(pbuf, p)
      IN  /\ Content(pbuf, chain) = held[o][p]
          /\ \A i \in DOMAIN chain :
               pbuf[chain[i]].tot_len = Len(held[o][p]) - Before(pbuf, chain, i)

\* The flag is set as long as one request is on its way, and never without one: what it
\* keeps others from asking for is done.
ReclaimOnce ==
    callbacks + Cardinality({t \in Threads : call[t].pc \in {"post", "unset"}})
      = IF pbuf_free_ooseq_pending THEN 1 ELSE 0

\* Packets are shared, chained, cut and freed without losing count, bytes or lengths.
PbufsSound == Counted /\ Intact /\ ReclaimOnce

=============================================================================
