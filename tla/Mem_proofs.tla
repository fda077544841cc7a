----------------------------- MODULE Mem_proofs -----------------------------
(***************************************************************************)
(* That the areas of lwIP's heap follow each other without a gap, no two   *)
(* free ones side by side, and that callers have what they asked for: for  *)
(* every size of the heap, of a header and of the smallest area, whatever  *)
(* is asked for, given back and shrunk, in any order.                      *)
(***************************************************************************)
EXTENDS Mem, Lemmas

(* ---- the links between headers ---- *)

Headers(h) ==
    /\ DOMAIN h \subseteq Addresses
    /\ h \in [DOMAIN h -> [next : Addresses, prev : Addresses, used : BOOLEAN]]
    /\ 0 \in DOMAIN h /\ MEM_SIZE \in DOMAIN h
    /\ h[MEM_SIZE].used /\ h[0].prev = 0
    /\ \A p \in DOMAIN h : p % MEM_ALIGNMENT = 0

\* Each header leads to the next one, with nothing between them ...
Forward(h) ==
    \A p \in DOMAIN h \ {MEM_SIZE} :
      /\ h[p].next \in DOMAIN h /\ p + SIZEOF_STRUCT_MEM + MIN_SIZE <= h[p].next
      /\ \A q \in DOMAIN h : q <= p \/ h[p].next <= q
      /\ h[p].next # MEM_SIZE => h[h[p].next].prev = p

\* ... and back to the one before.
Back(h) ==
    \A p \in DOMAIN h \ {0, MEM_SIZE} :
      h[p].prev \in DOMAIN h \ {MEM_SIZE} /\ h[h[p].prev].next = p

Linked(h) == Headers(h) /\ Forward(h) /\ Back(h)

\* Of two neighbours one is used.
Separated(h) == \A p \in DOMAIN h \ {MEM_SIZE} : h[p].used \/ h[h[p].next].used

\* Constants, as the provers want them.
LEMMA Constants ==
  ASSUME MemAssumption
  PROVE  /\ MEM_ALIGNMENT \in Nat \ {0} /\ SizeMax \in Nat /\ MEM_SIZE \in Nat
         /\ SIZEOF_STRUCT_MEM \in Nat \ {0} /\ MIN_SIZE \in Nat \ {0}
         /\ SIZEOF_STRUCT_MEM + MIN_SIZE <= MEM_SIZE /\ MEM_SIZE <= SizeMax
         /\ Addresses = 0 .. MEM_SIZE /\ Sizes = 0 .. SizeMax
         /\ 0 \in Addresses /\ MEM_SIZE \in Addresses /\ MEM_SIZE # 0
  BY DEF MemAssumption, Addresses, Sizes

\* What Split does to each header.
EachSplit(g, h, p, q) ==
    /\ DOMAIN g = DOMAIN h \union {q}
    /\ g[q] = [next |-> h[p].next, prev |-> p, used |-> FALSE]
    /\ g[p] = [next |-> q, prev |-> h[p].prev, used |-> h[p].used]
    /\ \A a \in DOMAIN h \ {p} :
         g[a] = [next |-> h[a].next, used |-> h[a].used,
                 prev |-> IF a = h[p].next /\ a # MEM_SIZE THEN q ELSE h[a].prev]

LEMMA SplitHeaders ==
  ASSUME MemAssumption, NEW h, Linked(h), NEW p \in DOMAIN h \ {MEM_SIZE},
         NEW q \in Addresses, q \notin DOMAIN h
  PROVE  EachSplit(Split(h, p, q), h, p, q)
  <1> DEFINE g == Split(h, p, q)
  <1>1. \A a \in DOMAIN h :
          /\ h[a] \in [next : Addresses, prev : Addresses, used : BOOLEAN]
          /\ h[a] = [next |-> h[a].next, prev |-> h[a].prev, used |-> h[a].used]
    BY DEF Linked, Headers
  <1>2. DOMAIN g = DOMAIN h \union {q} /\ q # p
    BY DEF Split
  <1>3. g[q] = [next |-> h[p].next, prev |-> p, used |-> FALSE]
    BY DEF Split
  <1>4. g[p] = [h[p] EXCEPT !.next = q]
    BY <1>2 DEF Split
  <1>5. g[p] = [next |-> q, prev |-> h[p].prev, used |-> h[p].used]
    BY <1>1, <1>4
  <1>6. ASSUME NEW a \in DOMAIN h \ {p}
        PROVE  g[a] = [next |-> h[a].next, used |-> h[a].used,
                       prev |-> IF a = h[p].next /\ a # MEM_SIZE THEN q ELSE h[a].prev]
    <2>1. CASE a = h[p].next /\ a # MEM_SIZE
      <3>1. g[a] = [h[a] EXCEPT !.prev = q]
        BY <2>1 DEF Split
      <3>2. QED
        BY <2>1, <3>1, <1>1
    <2>2. CASE ~(a = h[p].next /\ a # MEM_SIZE)
      <3>1. g[a] = h[a]
        BY <2>2 DEF Split
      <3>2. QED
        BY <2>2, <3>1, <1>1
    <2>3. QED
      BY <2>1, <2>2
  <1> HIDE DEF g
  <1>7. QED
    BY <1>2, <1>3, <1>5, <1>6 DEF EachSplit, g

\* A header put inside an area, with room on both sides, is linked as the others are.
LEMMA SplitLinked ==
  ASSUME MemAssumption, NEW h, Linked(h), NEW p \in DOMAIN h \ {MEM_SIZE},
         NEW q \in Addresses, q % MEM_ALIGNMENT = 0,
         p + SIZEOF_STRUCT_MEM + MIN_SIZE <= q,
         q + SIZEOF_STRUCT_MEM + MIN_SIZE <= h[p].next
  PROVE  q \notin DOMAIN h /\ Linked(Split(h, p, q))
  <1> DEFINE g == Split(h, p, q)
             n == h[p].next
  <1>0. /\ DOMAIN h \subseteq Addresses /\ p \in Addresses /\ n \in Addresses
        /\ n \in DOMAIN h /\ \A a \in DOMAIN h : a <= p \/ n <= a
    BY DEF Linked, Headers, Forward
  <1>1. q \notin DOMAIN h /\ p < q /\ q < n /\ q # 0 /\ q # MEM_SIZE /\ p # q /\ p # n
    BY <1>0, Constants
  <1>2. /\ DOMAIN g = DOMAIN h \union {q}
        /\ g[q] = [next |-> n, prev |-> p, used |-> FALSE]
        /\ g[p] = [next |-> q, prev |-> h[p].prev, used |-> h[p].used]
        /\ \A a \in DOMAIN h \ {p} :
             g[a] = [next |-> h[a].next, used |-> h[a].used,
                     prev |-> IF a = n /\ a # MEM_SIZE THEN q ELSE h[a].prev]
    <2>1. EachSplit(g, h, p, q)
      BY <1>1, SplitHeaders
    <2> HIDE DEF g
    <2>2. QED
      BY <2>1 DEF EachSplit
  <1> HIDE DEF g
  <1>3. Headers(g)
    <2>1. ASSUME NEW a \in DOMAIN g
          PROVE  /\ a \in Addresses /\ a % MEM_ALIGNMENT = 0
                 /\ g[a] \in [next : Addresses, prev : Addresses, used : BOOLEAN]
      <3>1. CASE a = q
        BY <3>1, <1>0, <1>2
      <3>2. CASE a \in DOMAIN h
        <4>1. /\ h[a].next \in Addresses /\ h[a].prev \in Addresses
              /\ h[a].used \in BOOLEAN /\ a % MEM_ALIGNMENT = 0
          BY <3>2 DEF Linked, Headers
        <4>2. QED
          BY <3>2, <4>1, <1>0, <1>2
      <3>3. QED
        BY <3>1, <3>2, <1>2
    <2>2. g \in [DOMAIN g -> [next : Addresses, prev : Addresses, used : BOOLEAN]]
      <3>1. g = [a \in DOMAIN g |-> g[a]]
        BY DEF g, Split
      <3>2. QED
        BY <2>1, <3>1
    <2>3. 0 \in DOMAIN g /\ MEM_SIZE \in DOMAIN g
      BY <1>2 DEF Linked, Headers
    <2>4. g[MEM_SIZE].used
      <3>1. h[MEM_SIZE].used /\ MEM_SIZE \in DOMAIN h \ {p}
        BY DEF Linked, Headers
      <3>2. QED
        BY <3>1, <1>2
    <2>5. g[0].prev = 0
      <3>1. h[0].prev = 0 /\ 0 \in DOMAIN h /\ 0 # n
        BY <1>0, <1>1, Constants DEF Linked, Headers
      <3>2. QED
        BY <3>1, <1>2
    <2>6. QED
      BY <2>1, <2>2, <2>3, <2>4, <2>5 DEF Headers
  <1>4. Forward(g)
    <2>1. ASSUME NEW a \in DOMAIN g \ {MEM_SIZE}
          PROVE  /\ g[a].next \in DOMAIN g
                 /\ a + SIZEOF_STRUCT_MEM + MIN_SIZE <= g[a].next
                 /\ \A b \in DOMAIN g : b <= a \/ g[a].next <= b
                 /\ g[a].next # MEM_SIZE => g[g[a].next].prev = a
      <3>1. CASE a = p
        BY <3>1, <1>0, <1>1, <1>2, Constants
      <3>2. CASE a = q
        <4>1. g[a].next = n /\ n \in DOMAIN g /\ n \in DOMAIN h \ {p}
          BY <3>2, <1>0, <1>1, <1>2
        <4>2. n # MEM_SIZE => g[n].prev = q
          BY <4>1, <1>2
        <4>3. \A b \in DOMAIN g : b <= a \/ n <= b
          BY <3>2, <1>0, <1>1, <1>2, Constants
        <4>4. QED
          BY <3>2, <4>1, <4>2, <4>3
      <3>3. CASE a \in DOMAIN h \ {p, MEM_SIZE}
        <4> DEFINE m == h[a].next
        <4>1. /\ m \in DOMAIN h /\ a + SIZEOF_STRUCT_MEM + MIN_SIZE <= m
              /\ \A b \in DOMAIN h : b <= a \/ m <= b
              /\ m # MEM_SIZE => h[m].prev = a
          BY <3>3 DEF Linked, Forward
        <4>2. a \in Addresses /\ m \in Addresses /\ (a <= p \/ n <= a) /\ (p <= a \/ m <= p)
          BY <3>3, <4>1, <1>0
        <4>3. q <= a \/ m <= q
          BY <4>1, <4>2, <1>0, <1>1, <3>3, Constants
        <4>4. g[a].next = m /\ m \in DOMAIN g
          BY <3>3, <4>1, <1>2
        <4>5. m # n \/ m = MEM_SIZE
          <5>1. n # MEM_SIZE => h[n].prev = p
            BY DEF Linked, Forward
          <5>2. QED
            BY <3>3, <4>1, <5>1
        <4>6. m # MEM_SIZE => g[m].prev = a
          <5>1. CASE m = p
            BY <5>1, <4>1, <1>2
          <5>2. CASE m # p
            BY <5>2, <4>1, <4>5, <1>2
          <5>3. QED
            BY <5>1, <5>2
        <4>7. \A b \in DOMAIN g : b <= a \/ m <= b
          BY <4>1, <4>3, <1>2
        <4>8. QED
          BY <4>1, <4>4, <4>6, <4>7
      <3>4. QED
        BY <3>1, <3>2, <3>3, <1>2
    <2>2. QED
      BY <2>1 DEF Forward
  <1>5. Back(g)
    <2>1. ASSUME NEW a \in DOMAIN g \ {0, MEM_SIZE}
          PROVE  g[a].prev \in DOMAIN g \ {MEM_SIZE} /\ g[g[a].prev].next = a
      <3>1. CASE a = q
        BY <3>1, <1>2
      <3>2. CASE a = n
        <4>1. g[a].prev = q
          BY <3>2, <2>1, <1>0, <1>1, <1>2
        <4>2. QED
          BY <3>2, <4>1, <1>1, <1>2
      <3>3. CASE a \in DOMAIN h \ {0, MEM_SIZE, n}
        <4>1. h[a].prev \in DOMAIN h \ {MEM_SIZE} /\ h[h[a].prev].next = a
          BY <3>3 DEF Linked, Back
        <4>2. g[a].prev = h[a].prev
          BY <3>3, <1>2
        <4>3. h[a].prev # p
          BY <3>3, <4>1
        <4>4. g[h[a].prev].next = h[h[a].prev].next
          BY <4>1, <4>3, <1>2
        <4>5. QED
          BY <4>1, <4>2, <4>4, <1>2
      <3>4. QED
        BY <3>1, <3>2, <3>3, <1>2
    <2>2. QED
      BY <2>1 DEF Back
  <1>6. QED
    BY <1>1, <1>3, <1>4, <1>5 DEF Linked, g

\* What Join does to each header.
LEMMA JoinHeaders ==
  ASSUME MemAssumption, NEW h, Linked(h), NEW p \in DOMAIN h \ {MEM_SIZE},
         h[p].next # MEM_SIZE
  PROVE  LET g == Join(h, p)
             n == h[p].next
         IN  /\ DOMAIN g = DOMAIN h \ {n}
             /\ g[p] = [next |-> h[n].next, prev |-> h[p].prev, used |-> h[p].used]
             /\ \A a \in DOMAIN h \ {p, n} :
                  /\ g[a].next = h[a].next /\ g[a].used = h[a].used
                  /\ a = h[n].next /\ a # MEM_SIZE => g[a].prev = p
                  /\ a # h[n].next \/ a = MEM_SIZE => g[a].prev = h[a].prev
  <1> DEFINE g == Join(h, p)
             n == h[p].next
  <1>1. \A a \in DOMAIN h :
          /\ h[a] \in [next : Addresses, prev : Addresses, used : BOOLEAN]
          /\ h[a] = [next |-> h[a].next, prev |-> h[a].prev, used |-> h[a].used]
    BY DEF Linked, Headers
  <1>2. p \in Nat /\ n \in Nat /\ p < n /\ n \in DOMAIN h
    <2>1. /\ DOMAIN h \subseteq Addresses /\ n \in DOMAIN h
          /\ p + SIZEOF_STRUCT_MEM + MIN_SIZE <= n
      BY DEF Linked, Headers, Forward
    <2>2. QED
      BY <2>1, Constants
  <1>3. DOMAIN g = DOMAIN h \ {n} /\ p \in DOMAIN g
    BY <1>2 DEF Join
  <1>4. g[p] = [h[p] EXCEPT !.next = h[n].next]
    BY <1>3 DEF Join
  <1>5. g[p] = [next |-> h[n].next, prev |-> h[p].prev, used |-> h[p].used]
    BY <1>1, <1>4
  <1>6. ASSUME NEW a \in DOMAIN h \ {p, n}
        PROVE  /\ g[a].next = h[a].next /\ g[a].used = h[a].used
               /\ a = h[n].next /\ a # MEM_SIZE => g[a].prev = p
               /\ a # h[n].next \/ a = MEM_SIZE => g[a].prev = h[a].prev
    <2>1. CASE a = h[n].next /\ a # MEM_SIZE
      <3>1. g[a] = [h[a] EXCEPT !.prev = p]
        BY <2>1 DEF Join
      <3>2. QED
        BY <2>1, <3>1, <1>1
    <2>2. CASE ~(a = h[n].next /\ a # MEM_SIZE)
      <3>1. g[a] = h[a]
        BY <2>2 DEF Join
      <3>2. QED
        BY <2>2, <3>1, <1>1
    <2>3. QED
      BY <2>1, <2>2
  <1>7. QED
    BY <1>3, <1>5, <1>6

\* Taking a header out leaves the others linked.
LEMMA JoinLinked ==
  ASSUME MemAssumption, NEW h, Linked(h), NEW p \in DOMAIN h \ {MEM_SIZE},
         h[p].next # MEM_SIZE
  PROVE  Linked(Join(h, p))
  <1> DEFINE g == Join(h, p)
             n == h[p].next
             m == h[n].next
  <1>0. /\ DOMAIN h \subseteq Addresses /\ n \in DOMAIN h \ {MEM_SIZE}
        /\ p + SIZEOF_STRUCT_MEM + MIN_SIZE <= n
        /\ \A a \in DOMAIN h : a <= p \/ n <= a
    BY DEF Linked, Headers, Forward
  <1>1. /\ m \in DOMAIN h /\ n + SIZEOF_STRUCT_MEM + MIN_SIZE <= m
        /\ \A a \in DOMAIN h : a <= n \/ m <= a
        /\ m # MEM_SIZE => h[m].prev = n
    BY <1>0 DEF Linked, Forward
  <1>2. p \in Nat /\ n \in Nat /\ m \in Nat /\ p < n /\ n < m /\ n # 0 /\ n # MEM_SIZE
    BY <1>0, <1>1, Constants
  <1>3. /\ DOMAIN g = DOMAIN h \ {n}
        /\ g[p] = [next |-> m, prev |-> h[p].prev, used |-> h[p].used]
        /\ \A a \in DOMAIN h \ {p, n} :
             /\ g[a].next = h[a].next /\ g[a].used = h[a].used
             /\ a = m /\ a # MEM_SIZE => g[a].prev = p
             /\ a # m \/ a = MEM_SIZE => g[a].prev = h[a].prev
    BY JoinHeaders
  <1>4. /\ h[p].next = n /\ h[n].next = m /\ p \in DOMAIN g
        /\ g[p].next = m /\ g[p].prev = h[p].prev /\ g[p].used = h[p].used
    BY <1>2, <1>3
  <1> HIDE DEF g, n, m
  <1>5. Headers(g)
    <2>1. ASSUME NEW a \in DOMAIN g
          PROVE  /\ a \in Addresses /\ a % MEM_ALIGNMENT = 0
                 /\ g[a] \in [next : Addresses, prev : Addresses, used : BOOLEAN]
      <3>1. /\ h[a].next \in Addresses /\ h[a].prev \in Addresses
            /\ h[a].used \in BOOLEAN /\ a % MEM_ALIGNMENT = 0 /\ a \in Addresses
        BY <1>3, <1>4 DEF Linked, Headers
      <3>2. /\ g[a].next \in Addresses /\ g[a].prev \in Addresses
            /\ g[a].used \in BOOLEAN
        <4>1. CASE a = p
          BY <4>1, <3>1, <1>0, <1>1, <1>4
        <4>2. CASE a # p
          BY <4>2, <3>1, <1>0, <1>1, <1>3
        <4>3. QED
          BY <4>1, <4>2
      <3>3. g[a] = [next |-> g[a].next, prev |-> g[a].prev, used |-> g[a].used]
        BY DEF g, Join, Linked, Headers
      <3>4. QED
        BY <3>1, <3>2, <3>3
    <2>2. g \in [DOMAIN g -> [next : Addresses, prev : Addresses, used : BOOLEAN]]
      <3>1. g = [a \in DOMAIN g |-> g[a]]
        BY DEF g, Join
      <3>2. QED
        BY <2>1, <3>1
    <2>3. 0 \in DOMAIN g /\ MEM_SIZE \in DOMAIN g
      BY <1>2, <1>3, <1>4 DEF Linked, Headers
    <2>4. g[MEM_SIZE].used
      <3>1. h[MEM_SIZE].used /\ MEM_SIZE \in DOMAIN h \ {p, n}
        BY <1>0 DEF Linked, Headers
      <3>2. QED
        BY <3>1, <1>3, <1>4
    <2>5. g[0].prev = 0
      <3>1. h[0].prev = 0 /\ 0 \in DOMAIN h /\ 0 # n /\ 0 # m
        BY <1>2, Constants DEF Linked, Headers
      <3>2. QED
        BY <3>1, <1>3, <1>4
    <2>6. QED
      BY <2>1, <2>2, <2>3, <2>4, <2>5 DEF Headers
  <1>6. Forward(g)
    <2>1. ASSUME NEW a \in DOMAIN g \ {MEM_SIZE}
          PROVE  /\ g[a].next \in DOMAIN g
                 /\ a + SIZEOF_STRUCT_MEM + MIN_SIZE <= g[a].next
                 /\ \A b \in DOMAIN g : b <= a \/ g[a].next <= b
                 /\ g[a].next # MEM_SIZE => g[g[a].next].prev = a
      <3>1. CASE a = p
        <4>1. g[a].next = m /\ m \in DOMAIN g /\ m \in DOMAIN h \ {p, n}
          BY <3>1, <1>1, <1>2, <1>3, <1>4
        <4>2. m # MEM_SIZE => g[m].prev = p
          BY <4>1, <1>3, <1>4
        <4>3. a + SIZEOF_STRUCT_MEM + MIN_SIZE <= m
          BY <3>1, <1>0, <1>1, <1>2, Constants
        <4>4. ASSUME NEW b \in DOMAIN g PROVE b <= p \/ m <= b
          <5>1. b \in DOMAIN h /\ b # n /\ b \in Nat
            BY <1>0, <1>3, <1>4, Constants
          <5>2. (b <= p \/ n <= b) /\ (b <= n \/ m <= b)
            BY <5>1, <1>0, <1>1
          <5>3. QED
            BY <5>1, <5>2, <1>2
        <4>5. QED
          BY <3>1, <4>1, <4>2, <4>3, <4>4
      <3>2. CASE a # p
        <4> DEFINE k == h[a].next
        <4>1. /\ k \in DOMAIN h /\ a + SIZEOF_STRUCT_MEM + MIN_SIZE <= k
              /\ \A b \in DOMAIN h : b <= a \/ k <= b
              /\ k # MEM_SIZE => h[k].prev = a
          BY <2>1, <1>3, <1>4 DEF Linked, Forward
        <4>2. h[n].prev = p
          BY <1>0, <1>4 DEF Linked, Forward
        <4>3. k # n
          BY <3>2, <4>1, <4>2, <1>0, <1>2
        <4>4. k # m \/ k = MEM_SIZE
          <5>1. a # n
            BY <2>1, <1>3, <1>4
          <5>2. QED
            BY <4>1, <5>1, <1>1
        <4>5. g[a].next = k /\ k \in DOMAIN g
          BY <2>1, <3>2, <4>1, <4>3, <1>3, <1>4
        <4>6. k # MEM_SIZE => g[k].prev = a
          <5>1. CASE k = p
            BY <5>1, <4>1, <1>3, <1>4
          <5>2. CASE k # p
            BY <5>2, <4>1, <4>3, <4>4, <1>3, <1>4
          <5>3. QED
            BY <5>1, <5>2
        <4>7. QED
          BY <4>1, <4>5, <4>6, <1>3, <1>4
      <3>3. QED
        BY <3>1, <3>2
    <2>2. QED
      BY <2>1 DEF Forward
  <1>7. Back(g)
    <2>1. ASSUME NEW a \in DOMAIN g \ {0, MEM_SIZE}
          PROVE  g[a].prev \in DOMAIN g \ {MEM_SIZE} /\ g[g[a].prev].next = a
      <3>1. CASE a = m
        <4>1. g[a].prev = p
          BY <3>1, <2>1, <1>2, <1>3, <1>4
        <4>2. p \in DOMAIN g \ {MEM_SIZE} /\ g[p].next = m
          BY <1>2, <1>3, <1>4
        <4>3. QED
          BY <3>1, <4>1, <4>2
      <3>2. CASE a # m
        <4>1. h[a].prev \in DOMAIN h \ {MEM_SIZE} /\ h[h[a].prev].next = a
          BY <2>1, <1>3, <1>4 DEF Linked, Back
        <4>2. h[a].prev # p /\ h[a].prev # n
          BY <2>1, <3>2, <4>1, <1>3, <1>4
        <4>3. g[a].prev = h[a].prev
          <5>1. CASE a = p
            BY <5>1, <1>3, <1>4
          <5>2. CASE a # p
            BY <5>2, <3>2, <2>1, <1>3, <1>4
          <5>3. QED
            BY <5>1, <5>2
        <4>4. g[h[a].prev].next = h[h[a].prev].next
          BY <4>1, <4>2, <1>3, <1>4
        <4>5. QED
          BY <4>1, <4>2, <4>3, <4>4, <1>3, <1>4
      <3>3. QED
        BY <3>1, <3>2
    <2>2. QED
      BY <2>1 DEF Back
  <1>8. QED
    BY <1>5, <1>6, <1>7 DEF Linked, g

\* The headers h with one area taken or given back.
Marked(g, h, p, u) ==
    /\ Linked(g) /\ DOMAIN g = DOMAIN h
    /\ \A a \in DOMAIN h : g[a].next = h[a].next /\ g[a].prev = h[a].prev
    /\ \A a \in DOMAIN h : g[a].used = IF a = p THEN u ELSE h[a].used

\* Taking an area, or giving it back, does not touch the links.
LEMMA MarkLinked ==
  ASSUME MemAssumption, NEW h, Linked(h), NEW p \in DOMAIN h \ {MEM_SIZE},
         NEW u \in BOOLEAN
  PROVE  Marked([h EXCEPT ![p].used = u], h, p, u)
  <1> DEFINE g == [h EXCEPT ![p].used = u]
  <1>1. ASSUME NEW a \in DOMAIN h
        PROVE  /\ g[a] \in [next : Addresses, prev : Addresses, used : BOOLEAN]
               /\ g[a].next = h[a].next /\ g[a].prev = h[a].prev
               /\ g[a].used = IF a = p THEN u ELSE h[a].used
    <2>1. h[a] \in [next : Addresses, prev : Addresses, used : BOOLEAN]
      BY DEF Linked, Headers
    <2>2. g[a] = IF a = p THEN [h[a] EXCEPT !.used = u] ELSE h[a]
      OBVIOUS
    <2>3. QED
      BY <2>1, <2>2
  <1>2. DOMAIN g = DOMAIN h
    OBVIOUS
  <1>3. g \in [DOMAIN g -> [next : Addresses, prev : Addresses, used : BOOLEAN]]
    <2>1. g = [a \in DOMAIN g |-> g[a]]
      OBVIOUS
    <2>2. QED
      BY <1>1, <1>2, <2>1
  <1> HIDE DEF g
  <1>4. Headers(g)
    BY <1>1, <1>2, <1>3 DEF Linked, Headers
  <1>5. Forward(g)
    BY <1>1, <1>2 DEF Linked, Forward
  <1>6. Back(g)
    BY <1>1, <1>2 DEF Linked, Back
  <1>7. QED
    BY <1>1, <1>2, <1>4, <1>5, <1>6 DEF Linked, Marked, g

(* ---- what the calls do to areas ---- *)

\* An address inside an area where it can be cut in two.
Cut(h, p, q) ==
    /\ q % MEM_ALIGNMENT = 0
    /\ p + SIZEOF_STRUCT_MEM + MIN_SIZE <= q
    /\ q + SIZEOF_STRUCT_MEM + MIN_SIZE <= h[p].next

\* The headers h with an area cut in two, as far as it matters.
CutInTwo(g, h, p, q) ==
    /\ Linked(g) /\ q \notin DOMAIN h /\ DOMAIN g = DOMAIN h \union {q}
    /\ g[q].next = h[p].next /\ ~g[q].used
    /\ g[p].next = q /\ g[p].used = h[p].used
    /\ \A a \in DOMAIN h \ {p} : g[a].next = h[a].next /\ g[a].used = h[a].used

LEMMA SplitAreas ==
  ASSUME MemAssumption, NEW h, Linked(h), NEW p \in DOMAIN h \ {MEM_SIZE},
         NEW q \in Addresses, Cut(h, p, q)
  PROVE  CutInTwo(Split(h, p, q), h, p, q)
  <1> DEFINE g == Split(h, p, q)
  <1>1. Linked(g) /\ q \notin DOMAIN h
    BY SplitLinked DEF Cut
  <1>2. /\ DOMAIN g = DOMAIN h \union {q}
        /\ g[q] = [next |-> h[p].next, prev |-> p, used |-> FALSE]
        /\ g[p] = [next |-> q, prev |-> h[p].prev, used |-> h[p].used]
        /\ \A a \in DOMAIN h \ {p} :
             g[a] = [next |-> h[a].next, used |-> h[a].used,
                     prev |-> IF a = h[p].next /\ a # MEM_SIZE THEN q ELSE h[a].prev]
    <2>1. EachSplit(g, h, p, q)
      BY <1>1, SplitHeaders
    <2> HIDE DEF g
    <2>2. QED
      BY <2>1 DEF EachSplit
  <1> HIDE DEF g
  <1>3. /\ g[q].next = h[p].next /\ ~g[q].used
        /\ g[p].next = q /\ g[p].used = h[p].used
    BY <1>2
  <1>4. ASSUME NEW a \in DOMAIN h \ {p}
        PROVE  g[a].next = h[a].next /\ g[a].used = h[a].used
    <2>1. g[a] = [next |-> h[a].next, used |-> h[a].used,
                  prev |-> IF a = h[p].next /\ a # MEM_SIZE THEN q ELSE h[a].prev]
      BY <1>2
    <2>2. QED
      BY <2>1
  <1>5. QED
    BY <1>1, <1>2, <1>3, <1>4 DEF CutInTwo, g

\* The headers h with an area and the next made one, as far as it matters.
MadeOne(g, h, p) ==
    LET n == h[p].next
    IN  /\ Linked(g) /\ n \in DOMAIN h /\ n # p /\ DOMAIN g = DOMAIN h \ {n}
        /\ g[p].next = h[n].next /\ g[p].prev = h[p].prev /\ g[p].used = h[p].used
        /\ \A a \in DOMAIN h \ {p, n} : g[a].next = h[a].next /\ g[a].used = h[a].used

LEMMA JoinAreas ==
  ASSUME MemAssumption, NEW h, Linked(h), NEW p \in DOMAIN h \ {MEM_SIZE},
         h[p].next # MEM_SIZE
  PROVE  MadeOne(Join(h, p), h, p)
  <1> DEFINE g == Join(h, p)
             n == h[p].next
  <1>1. Linked(g)
    BY JoinLinked
  <1>2. n \in DOMAIN h /\ n # p
    <2>1. /\ n \in DOMAIN h /\ p + SIZEOF_STRUCT_MEM + MIN_SIZE <= n
          /\ DOMAIN h \subseteq Addresses
      BY DEF Linked, Headers, Forward
    <2>2. QED
      BY <2>1, Constants
  <1>3. /\ DOMAIN g = DOMAIN h \ {n}
        /\ g[p] = [next |-> h[n].next, prev |-> h[p].prev, used |-> h[p].used]
        /\ \A a \in DOMAIN h \ {p, n} : g[a].next = h[a].next /\ g[a].used = h[a].used
    BY JoinHeaders
  <1> HIDE DEF g
  <1>4. g[p].next = h[n].next /\ g[p].prev = h[p].prev /\ g[p].used = h[p].used
    BY <1>3
  <1>5. QED
    BY <1>1, <1>2, <1>3, <1>4 DEF MadeOne, g

\* An address inside an area, where the area is cut once it has taken in the next.
CutJoined(h, p, q) ==
    /\ ~h[h[p].next].used
    /\ q % MEM_ALIGNMENT = 0
    /\ p + SIZEOF_STRUCT_MEM + MIN_SIZE <= q
    /\ q < h[p].next

\* The headers h with the free area behind a used one moved down.
MovedDown(g, h, p, q) ==
    LET n == h[p].next
    IN  /\ Linked(g) /\ q \notin DOMAIN h /\ n \in DOMAIN h /\ n # p /\ q # n
        /\ DOMAIN g = (DOMAIN h \ {n}) \union {q}
        /\ ~g[q].used /\ g[g[q].next].used
        /\ g[p].next = q /\ g[p].used = h[p].used
        /\ \A a \in DOMAIN h \ {p, n} : g[a].next = h[a].next /\ g[a].used = h[a].used

LEMMA JoinSplitAreas ==
  ASSUME MemAssumption, NEW h, Linked(h), Separated(h),
         NEW p \in DOMAIN h \ {MEM_SIZE}, NEW q \in Addresses, CutJoined(h, p, q)
  PROVE  MovedDown(Split(Join(h, p), p, q), h, p, q)
  <1> DEFINE n == h[p].next
             m == h[n].next
             j == Join(h, p)
             g == Split(j, p, q)
  <1>1. /\ DOMAIN h \subseteq Addresses /\ n \in DOMAIN h \ {MEM_SIZE}
        /\ \A a \in DOMAIN h : a <= p \/ n <= a
    BY DEF CutJoined, Linked, Headers, Forward
  <1>2. /\ m \in DOMAIN h /\ h[m].used /\ n + SIZEOF_STRUCT_MEM + MIN_SIZE <= m
    BY <1>1 DEF CutJoined, Separated, Linked, Forward
  <1>3. /\ p \in Nat /\ q \in Nat /\ n \in Nat /\ m \in Nat
        /\ p < q /\ q < n /\ n < m /\ q \notin DOMAIN h
        /\ q + SIZEOF_STRUCT_MEM + MIN_SIZE <= m
    <2>1. p \in Nat /\ q \in Nat /\ n \in Nat /\ m \in Nat
      BY <1>1, <1>2, Constants
    <2>2. /\ p + SIZEOF_STRUCT_MEM + MIN_SIZE <= q /\ q < n
          /\ n + SIZEOF_STRUCT_MEM + MIN_SIZE <= m
          /\ SIZEOF_STRUCT_MEM \in Nat \ {0} /\ MIN_SIZE \in Nat \ {0}
      BY <1>2, Constants DEF CutJoined
    <2>3. p < q /\ n < m /\ q + SIZEOF_STRUCT_MEM + MIN_SIZE <= m
      BY <2>1, <2>2
    <2>4. q \notin DOMAIN h
      BY <1>1, <2>1, <2>2, <2>3
    <2>5. QED
      BY <2>1, <2>2, <2>3, <2>4
  <1>4. /\ Linked(j) /\ DOMAIN j = DOMAIN h \ {n}
        /\ j[p].next = m /\ j[p].used = h[p].used
        /\ \A a \in DOMAIN h \ {p, n} : j[a].next = h[a].next /\ j[a].used = h[a].used
    <2>1. h[p].next # MEM_SIZE
      BY <1>1
    <2>2. MadeOne(j, h, p)
      BY <2>1, JoinAreas
    <2> HIDE DEF j
    <2>3. QED
      BY <2>2 DEF MadeOne
  <1>5. p \in DOMAIN j \ {MEM_SIZE} /\ m \in DOMAIN j \ {p, q} /\ q \notin DOMAIN j
    BY <1>2, <1>3, <1>4
  <1> HIDE DEF j
  <1>6. Cut(j, p, q)
    BY <1>3, <1>4 DEF Cut, CutJoined
  <1>7. /\ Linked(g) /\ DOMAIN g = DOMAIN j \union {q}
        /\ g[q].next = m /\ ~g[q].used /\ g[p].next = q /\ g[p].used = h[p].used
        /\ \A a \in DOMAIN j \ {p} : g[a].next = j[a].next /\ g[a].used = j[a].used
    <2>1. PICK f : f = j
      OBVIOUS
    <2>2. PICK x \in DOMAIN f \ {MEM_SIZE} : x = p
      BY <2>1, <1>5
    <2>3. Linked(f) /\ Cut(f, x, q)
      BY <2>1, <2>2, <1>4, <1>6
    <2>4. CutInTwo(Split(f, x, q), f, x, q)
      BY <2>3, SplitAreas
    <2>5. CutInTwo(g, j, p, q)
      BY <2>1, <2>2, <2>4
    <2> HIDE DEF g
    <2>6. QED
      BY <2>5, <1>4 DEF CutInTwo
  <1> HIDE DEF g
  <1>8. g[m].used
    BY <1>2, <1>3, <1>4, <1>5, <1>7
  <1>9. \A a \in DOMAIN h \ {p, n} : g[a].next = h[a].next /\ g[a].used = h[a].used
    BY <1>4, <1>7
  <1>10. QED
    BY <1>1, <1>3, <1>4, <1>7, <1>8, <1>9 DEF MovedDown, g, j

\* The sizes that are asked for, rounded up.
LEMMA ExpandedFacts ==
  ASSUME MemAssumption, NEW n \in Sizes
  PROVE  /\ Expanded(n) \in Nat /\ MIN_SIZE <= Expanded(n)
         /\ ~TooLarge(n) => /\ Expanded(n) % MEM_ALIGNMENT = 0
                            /\ n <= Expanded(n) /\ Expanded(n) <= MEM_SIZE
  <1> DEFINE A == MEM_ALIGNMENT
             up == n + A - 1
             r == up - (up % A)
  <1>1. A \in Nat \ {0} /\ n \in Nat /\ up \in Nat /\ n <= SizeMax /\ SizeMax \in Nat
    BY Constants
  <1>2. r \in Nat /\ r > up - A /\ r <= up /\ r % A = 0
    BY <1>1, RoundedDown
  <1>3. LWIP_MEM_ALIGN_SIZE(n) = r % (SizeMax + 1)
    BY DEF LWIP_MEM_ALIGN_SIZE
  <1> HIDE DEF r
  <1>4. CASE r <= SizeMax
    <2>1. LWIP_MEM_ALIGN_SIZE(n) = r
      BY <1>1, <1>2, <1>3, <1>4
    <2>2. QED
      BY <1>1, <1>2, <2>1, Constants DEF Expanded, TooLarge, MemAssumption
  <1>5. CASE r > SizeMax
    <2>1. LWIP_MEM_ALIGN_SIZE(n) \in Nat /\ LWIP_MEM_ALIGN_SIZE(n) < A
      <3>1. SizeMax + 1 <= r /\ r < SizeMax + A
        BY <1>1, <1>2, <1>5
      <3>2. PICK k \in Nat, v \in 0 .. SizeMax :
              r = (SizeMax + 1) * k + v /\ r % (SizeMax + 1) = v
        <4>1. SizeMax + 1 \in Nat \ {0}
          BY <1>1
        <4>2. PICK w \in Nat \ {0} : w = SizeMax + 1
          BY <4>1
        <4>3. /\ (r \div w) \in Nat /\ (r % w) \in 0 .. w - 1
              /\ r = w * (r \div w) + (r % w)
          BY <4>2, <1>2, Division
        <4>4. w - 1 = SizeMax
          BY <4>2, <1>1
        <4>5. QED
          BY <4>2, <4>3, <4>4
      <3>3. k >= 1
        BY <3>1, <3>2, <1>1
      <3>4. (SizeMax + 1) * k >= SizeMax + 1
        BY <3>2, <3>3, <1>1
      <3>5. v < A
        BY <3>1, <3>2, <3>4, <1>1
      <3>6. QED
        BY <3>2, <3>5, <1>3
    <2>2. A <= MIN_SIZE
      <3>1. MIN_SIZE % A = 0 /\ MIN_SIZE \in Nat \ {0}
        BY DEF MemAssumption
      <3>2. QED
        BY <3>1, <1>1
    <2>3. Expanded(n) = MIN_SIZE
      BY <2>1, <2>2, <1>1, Constants DEF Expanded
    <2>4. QED
      BY <2>3, <1>1, Constants DEF TooLarge, MemAssumption
  <1>6. QED
    BY <1>1, <1>2, <1>4, <1>5

(* ---- the invariant ---- *)

\* The block that mem_trim has looked at is still the caller's, and as large as it was.
TrimHolds ==
    trim # None =>
      /\ trim.at \in DOMAIN blocks /\ trim \in [at : DOMAIN blocks, newsize : Sizes,
                                                size : Sizes, asked : Sizes]
      /\ trim.size = Room(trim.at) /\ trim.newsize < trim.size
      /\ MIN_SIZE <= trim.newsize /\ trim.newsize % MEM_ALIGNMENT = 0
      /\ trim.asked <= trim.newsize

\* Callers have what is used, and enough of it.
BlocksHeld ==
    /\ blocks \in [DOMAIN blocks -> Sizes]
    /\ DOMAIN blocks = {p \in DOMAIN ram : ram[p].used} \ {MEM_SIZE}
    /\ \A p \in DOMAIN blocks : blocks[p] <= Room(p)

LfreeLowest == lfree \in DOMAIN ram /\ SearchStarts

IInv == Linked(ram) /\ Separated(ram) /\ LfreeLowest /\ BlocksHeld /\ TrimHolds

\* The invariant holds what is promised.
LEMMA InvSound == ASSUME MemAssumption, IInv PROVE TypeOK /\ HeapSound
  <1>1. AreasLinked
    BY DEF IInv, Linked, Forward, Separated, AreasLinked
  <1>2. ASSUME NEW p \in DOMAIN blocks PROVE mem_link_valid(p)
    <2>1. p \in DOMAIN ram \ {MEM_SIZE}
      BY DEF IInv, BlocksHeld
    <2>2. ram[p].next \in 0 .. MEM_SIZE /\ ram[p].prev \in 0 .. MEM_SIZE
      BY <2>1, Constants DEF IInv, Linked, Headers
    <2>3. ram[p].next <= MEM_SIZE /\ ram[p].prev <= MEM_SIZE
      BY <2>2, Constants
    <2>4. ram[p].next = MEM_SIZE \/ ram[ram[p].next].prev = p
      BY <2>1 DEF IInv, Linked, Forward
    <2>5. ram[p].prev = p \/ ram[ram[p].prev].next = p
      BY <2>1 DEF IInv, Linked, Headers, Back
    <2>6. QED
      BY <2>3, <2>4, <2>5 DEF mem_link_valid
  <1>3. BlocksFit
    BY <1>2 DEF IInv, Linked, Headers, BlocksHeld, BlocksFit
  <1>4. TypeOK
    BY DEF IInv, Linked, Headers, LfreeLowest, BlocksHeld, TrimHolds, TypeOK
  <1>5. QED
    BY <1>1, <1>3, <1>4 DEF IInv, LfreeLowest, HeapSound

\* After mem_init there is one free area.
LEMMA InitIInv == ASSUME MemAssumption, Init PROVE IInv
  <1>1. /\ DOMAIN ram = {0, MEM_SIZE}
        /\ ram[0] = [next |-> MEM_SIZE, prev |-> 0, used |-> FALSE]
        /\ ram[MEM_SIZE] = [next |-> MEM_SIZE, prev |-> MEM_SIZE, used |-> TRUE]
    BY Constants DEF Init
  <1>2. Headers(ram)
    <2>1. ram \in [DOMAIN ram -> [next : Addresses, prev : Addresses, used : BOOLEAN]]
      <3>1. ram = [p \in DOMAIN ram |-> ram[p]]
        BY DEF Init
      <3>2. /\ ram[0] \in [next : Addresses, prev : Addresses, used : BOOLEAN]
            /\ ram[MEM_SIZE] \in [next : Addresses, prev : Addresses, used : BOOLEAN]
        BY <1>1, Constants
      <3>3. QED
        BY <1>1, <3>1, <3>2
    <2>2. 0 % MEM_ALIGNMENT = 0 /\ MEM_SIZE % MEM_ALIGNMENT = 0
      BY DEF MemAssumption
    <2>3. QED
      BY <1>1, <2>1, <2>2, Constants DEF Headers
  <1>3. Forward(ram)
    BY <1>1, Constants DEF Forward
  <1>4. Back(ram)
    BY <1>1 DEF Back
  <1>5. Separated(ram) /\ LfreeLowest
    <2>1. /\ ~ram[0].used /\ ram[0].next = MEM_SIZE /\ ram[MEM_SIZE].used /\ lfree = 0
          /\ MEM_SIZE \in Nat
      BY <1>1, Constants DEF Init
    <2>2. Separated(ram)
      BY <1>1, <2>1 DEF Separated
    <2>3. LfreeLowest
      BY <1>1, <2>1 DEF LfreeLowest, SearchStarts
    <2>4. QED
      BY <2>2, <2>3
  <1>6. BlocksHeld
    <2>1. DOMAIN blocks = {} /\ blocks \in [DOMAIN blocks -> Sizes]
      BY DEF Init
    <2>2. QED
      BY <1>1, <2>1 DEF BlocksHeld
  <1>7. QED
    BY <1>2, <1>3, <1>4, <1>5, <1>6 DEF Init, IInv, Linked, TrimHolds

\* What is known of a header.
LEMMA AnArea ==
  ASSUME MemAssumption, IInv, NEW p \in DOMAIN ram \ {MEM_SIZE}
  PROVE  /\ p \in 0 .. MEM_SIZE /\ p < MEM_SIZE /\ p % MEM_ALIGNMENT = 0
         /\ ram[p].next \in DOMAIN ram /\ ram[p].next \in 0 .. MEM_SIZE
         /\ p + SIZEOF_STRUCT_MEM + MIN_SIZE <= ram[p].next
         /\ Room(p) \in 0 .. MEM_SIZE
         /\ p + SIZEOF_STRUCT_MEM + Room(p) = ram[p].next
  <1>1. /\ p \in Addresses /\ p % MEM_ALIGNMENT = 0
        /\ ram[p].next \in DOMAIN ram /\ ram[p].next \in Addresses
        /\ p + SIZEOF_STRUCT_MEM + MIN_SIZE <= ram[p].next
    BY DEF IInv, Linked, Headers, Forward
  <1>2. QED
    BY <1>1, Constants DEF Room

\* The invariant after a step, from what the step does to the areas: those given out are
\* still used and end where they did, or further.
LEMMA HeldAgain ==
  ASSUME MemAssumption, IInv, NEW g, NEW bs,
         DOMAIN bs = {p \in DOMAIN g : g[p].used} \ {MEM_SIZE},
         bs \in [DOMAIN bs -> Sizes],
         \A p \in DOMAIN bs : bs[p] <= g[p].next - p - SIZEOF_STRUCT_MEM,
         ram' = g, blocks' = bs
  PROVE  BlocksHeld'
  BY DEF BlocksHeld, Room

\* Of a free area and its neighbours at most one is left, the used ones are as they
\* were, and lfree need not move.
LEMMA PlugHoles ==
  ASSUME MemAssumption, NEW h, Linked(h), NEW p \in DOMAIN h \ {MEM_SIZE}, ~h[p].used,
         \A a \in DOMAIN h \ {MEM_SIZE} :
           h[a].used \/ h[h[a].next].used \/ a = p \/ h[a].next = p,
         NEW l \in DOMAIN h, ~h[l].used, \A a \in DOMAIN h : ~h[a].used => l <= a
  PROVE  LET g == plug_holes(h, p)
         IN  /\ Linked(g) /\ Separated(g) /\ DOMAIN g \subseteq DOMAIN h
             /\ \A a \in DOMAIN g : g[a].used = h[a].used
             /\ \A a \in DOMAIN h : h[a].used => a \in DOMAIN g /\ g[a].next = h[a].next
             /\ plug_holes_lfree(h, p, l) = l /\ l \in DOMAIN g
  <1> DEFINE f == IF JoinsNext(h, p) THEN Join(h, p) ELSE h
             n == h[p].next
  <1>1. /\ p \in Nat /\ n \in DOMAIN h /\ n \in Nat /\ p < n /\ l \in Nat /\ l <= p
        /\ h[MEM_SIZE].used
    <2>1. /\ n \in DOMAIN h /\ p + SIZEOF_STRUCT_MEM + MIN_SIZE <= n
          /\ DOMAIN h \subseteq Addresses /\ h[MEM_SIZE].used
      BY DEF Linked, Headers, Forward
    <2>2. QED
      BY <2>1, Constants
  \* After the hole in front.
  <1>2. /\ Linked(f) /\ p \in DOMAIN f /\ l \in DOMAIN f /\ DOMAIN f \subseteq DOMAIN h
        /\ f[p].prev = h[p].prev /\ f[p].used = h[p].used /\ ~f[p].used
        /\ f[f[p].next].used
        /\ \A a \in DOMAIN f \ {p} : f[a].next = h[a].next /\ f[a].used = h[a].used
        /\ \A a \in DOMAIN h \ DOMAIN f : ~h[a].used /\ a = n
    <2>1. CASE JoinsNext(h, p)
      <3>1. f = Join(h, p) /\ ~h[n].used
        BY <2>1 DEF JoinsNext
      <3>2. n # MEM_SIZE
        BY <3>1, <1>1
      <3>3. LET g == Join(h, p)
            IN  /\ Linked(g) /\ DOMAIN g = DOMAIN h \ {n}
                /\ g[p].next = h[n].next /\ g[p].prev = h[p].prev /\ g[p].used = h[p].used
                /\ \A a \in DOMAIN h \ {p, n} :
                     g[a].next = h[a].next /\ g[a].used = h[a].used
        BY <3>2, JoinAreas DEF MadeOne
      <3> DEFINE m == h[n].next
      <3>4. h[n].next = m
        OBVIOUS
      <3> HIDE DEF f, n, m
      <3>5. /\ Linked(f) /\ DOMAIN f = DOMAIN h \ {n}
            /\ f[p].next = m /\ f[p].prev = h[p].prev /\ f[p].used = h[p].used
            /\ \A a \in DOMAIN h \ {p, n} : f[a].next = h[a].next /\ f[a].used = h[a].used
        BY <3>1, <3>3, <3>4
      <3>6. /\ m \in DOMAIN h /\ n + SIZEOF_STRUCT_MEM + MIN_SIZE <= m
            /\ h[m].used
        <4>1. n \in DOMAIN h \ {MEM_SIZE} /\ h[p].next = n
          BY <3>2, <1>1 DEF n
        <4>2. m \in DOMAIN h /\ n + SIZEOF_STRUCT_MEM + MIN_SIZE <= m
          BY <4>1, <3>4 DEF Linked, Forward
        <4>3. n # p
          BY <1>1
        <4>4. m # p
          <5>1. m \in Nat
            BY <4>2, Constants DEF Linked, Headers
          <5>2. QED
            BY <5>1, <4>2, <1>1, Constants
        <4>5. h[n].used \/ h[h[n].next].used \/ n = p \/ h[n].next = p
          BY <4>1
        <4>6. h[m].used
          BY <4>3, <4>4, <4>5, <3>1, <3>4
        <4>7. QED
          BY <4>2, <4>6
      <3>7. f[m].used
        BY <3>1, <3>5, <3>6
      <3>8. l # n
        BY <1>1
      <3>9. QED
        BY <1>1, <3>1, <3>5, <3>7, <3>8
    <2>2. CASE ~JoinsNext(h, p)
      BY <2>2, <1>1 DEF JoinsNext
    <2>3. QED
      BY <2>1, <2>2
  <1> HIDE DEF f
  <1>3. ASSUME NEW a \in DOMAIN f \ {MEM_SIZE}
        PROVE  /\ f[a].next \in DOMAIN f /\ f[a].next # a
               /\ f[a].used \/ f[f[a].next].used \/ f[a].next = p
               /\ f[a].next = p => a = f[p].prev
    <2>1. /\ f[a].next \in DOMAIN f /\ a + SIZEOF_STRUCT_MEM + MIN_SIZE <= f[a].next
          /\ f[a].next # MEM_SIZE => f[f[a].next].prev = a
          /\ DOMAIN f \subseteq Addresses
      BY <1>2 DEF Linked, Headers, Forward
    <2>2. f[a].next # a
      BY <2>1, Constants
    <2>3. f[a].used \/ f[f[a].next].used \/ f[a].next = p
      <3>1. CASE a = p
        BY <3>1, <1>2
      <3>2. CASE a # p
        <4>1. f[a].next = h[a].next /\ f[a].used = h[a].used
          BY <3>2, <1>2
        <4>2. h[a].used \/ h[h[a].next].used \/ h[a].next = p
          BY <3>2, <1>2
        <4>3. QED
          BY <4>1, <4>2, <2>1, <1>2
      <3>3. QED
        BY <3>1, <3>2
    <2>4. QED
      BY <2>1, <2>2, <2>3
  \* lfree is at neither of the headers that may go.
  <1>4. plug_holes_lfree(h, p, l) = l
    <2>1. l # n
      BY <1>1
    <2>2. ASSUME JoinsPrev(h, p) PROVE l # p
      <3>1. p # 0
        BY <2>2 DEF JoinsPrev, Linked, Headers
      <3>2. h[p].prev \in DOMAIN h \ {MEM_SIZE} /\ h[h[p].prev].next = p
        BY <3>1 DEF Linked, Back
      <3>3. h[p].prev + SIZEOF_STRUCT_MEM + MIN_SIZE <= p /\ h[p].prev \in Addresses
        BY <3>2 DEF Linked, Headers, Forward
      <3>4. l <= h[p].prev
        BY <2>2, <3>2 DEF JoinsPrev
      <3>5. QED
        BY <3>3, <3>4, <1>1, Constants
    <2>3. QED
      BY <2>1, <2>2 DEF plug_holes_lfree
  <1>5. CASE JoinsPrev(f, p)
    <2> DEFINE r == f[p].prev
               g == Join(f, r)
    <2>1. plug_holes(h, p) = g
      BY <1>5 DEF plug_holes, f
    <2>2. r # p /\ ~f[r].used /\ r \in DOMAIN f \ {MEM_SIZE} /\ f[r].next = p
      <3>1. p # 0
        BY <1>2, <1>5 DEF JoinsPrev, Linked, Headers
      <3>2. QED
        BY <3>1, <1>2, <1>5 DEF JoinsPrev, Linked, Back
    <2>3. /\ Linked(g) /\ DOMAIN g = DOMAIN f \ {p}
          /\ g[r].next = f[p].next /\ g[r].used = f[r].used
          /\ \A a \in DOMAIN f \ {r, p} : g[a].next = f[a].next /\ g[a].used = f[a].used
      <3>1. f[r].next # MEM_SIZE /\ Linked(f) /\ r \in DOMAIN f \ {MEM_SIZE}
        BY <1>2, <2>2
      <3>2. LET j == Join(f, r)
                k == f[r].next
            IN  /\ Linked(j) /\ DOMAIN j = DOMAIN f \ {k}
                /\ j[r].next = f[k].next /\ j[r].used = f[r].used
                /\ \A a \in DOMAIN f \ {r, k} :
                     j[a].next = f[a].next /\ j[a].used = f[a].used
        <4>1. PICK e, x : e = f /\ x = r
          OBVIOUS
        <4>2. x \in DOMAIN e \ {MEM_SIZE} /\ Linked(e) /\ e[x].next # MEM_SIZE
          BY <3>1, <4>1
        <4>3. LET j == Join(e, x)
                  k == e[x].next
              IN  /\ Linked(j) /\ DOMAIN j = DOMAIN e \ {k}
                  /\ j[x].next = e[k].next /\ j[x].used = e[x].used
                  /\ \A a \in DOMAIN e \ {x, k} :
                       j[a].next = e[a].next /\ j[a].used = e[a].used
          BY <4>2, JoinAreas DEF MadeOne
        <4>4. QED
          BY <4>1, <4>3
      <3>3. QED
        BY <2>2, <3>2
    <2>4. f[p].prev = r
      OBVIOUS
    <2> HIDE DEF g, r
    <2>5. Separated(g)
      <3>1. ASSUME NEW a \in DOMAIN g \ {MEM_SIZE} PROVE g[a].used \/ g[g[a].next].used
        <4>1. CASE a = r
          <5>1. f[p].next \in DOMAIN f \ {r, p}
            BY <1>2, <1>3, <2>2
          <5>2. g[f[p].next].used
            BY <5>1, <1>2, <2>3
          <5>3. QED
            BY <4>1, <5>2, <2>3
        <4>2. CASE a # r
          <5>1. /\ a \in DOMAIN f \ {r, p, MEM_SIZE}
                /\ f[a].next \in DOMAIN f /\ f[a].next # p
                /\ f[a].used \/ f[f[a].next].used
            BY <4>2, <3>1, <2>3, <2>4, <1>3
          <5>2. QED
            BY <5>1, <2>2, <2>3
        <4>3. QED
          BY <4>1, <4>2
      <3>2. QED
        BY <3>1 DEF Separated
    <2>6. l \in DOMAIN g
      <3>1. ~h[r].used /\ r \in DOMAIN h
        BY <2>2, <1>2
      <3>2. l <= r /\ r + SIZEOF_STRUCT_MEM + MIN_SIZE <= p /\ r \in Addresses
        BY <3>1, <2>2, <1>2 DEF Linked, Headers, Forward
      <3>3. l # p
        BY <3>2, <1>1, Constants
      <3>4. QED
        BY <3>3, <1>2, <2>3
    <2>7. DOMAIN g \subseteq DOMAIN h /\ \A a \in DOMAIN g : g[a].used = h[a].used
      BY <1>2, <2>2, <2>3
    <2>8. ASSUME NEW a \in DOMAIN h, h[a].used
          PROVE  a \in DOMAIN g /\ g[a].next = h[a].next
      <3>1. a \in DOMAIN f /\ a # p
        BY <2>8, <1>2
      <3>2. a # r
        BY <2>2, <2>8, <3>1, <1>2
      <3>3. QED
        BY <3>1, <3>2, <1>2, <2>3
    <2>9. QED
      BY <1>4, <2>1, <2>3, <2>5, <2>6, <2>7, <2>8
  <1>6. CASE ~JoinsPrev(f, p)
    <2>1. plug_holes(h, p) = f
      BY <1>6 DEF plug_holes, f
    <2>2. Separated(f)
      <3>1. ASSUME NEW a \in DOMAIN f \ {MEM_SIZE}, f[a].next = p PROVE f[a].used
        BY <3>1, <1>3, <1>6 DEF JoinsPrev
      <3>2. QED
        BY <3>1, <1>3 DEF Separated
    <2>3. ASSUME NEW a \in DOMAIN h, h[a].used
          PROVE  a \in DOMAIN f /\ f[a].next = h[a].next
      BY <2>3, <1>2
    <2>4. \A a \in DOMAIN f : f[a].used = h[a].used
      BY <1>2
    <2>5. QED
      BY <1>2, <1>4, <2>1, <2>2, <2>3, <2>4
  <1>7. QED
    BY <1>5, <1>6

(* ---- the steps ---- *)

\* A free area is given out, whole or cut.
LEMMA MallocIInv ==
  ASSUME MemAssumption, IInv, NEW n \in Sizes, mem_malloc(n), ~Refused(n)
  PROVE  IInv'
  <1> DEFINE size == Expanded(n)
  <1>1. PICK p \in First(Fits(size)) :
          /\ ram' = Taken(p, size)
          /\ lfree' \in IF p = lfree THEN First(FreeFrom(ram', p)) ELSE {lfree}
          /\ blocks' = [b \in DOMAIN blocks \union {p} |-> IF b = p THEN n ELSE blocks[b]]
    BY DEF mem_malloc
  <1>2. /\ size \in Nat /\ size % MEM_ALIGNMENT = 0 /\ n <= size /\ size <= MEM_SIZE
        /\ MIN_SIZE <= size
    BY ExpandedFacts DEF Refused
  <1> HIDE DEF size
  <1>3. /\ p \in DOMAIN ram /\ lfree <= p /\ ~ram[p].used /\ Room(p) >= size
    BY <1>1 DEF First, Fits
  <1>4. p \in DOMAIN ram \ {MEM_SIZE} /\ ram[MEM_SIZE].used /\ MEM_SIZE \in DOMAIN ram
    BY <1>3 DEF IInv, Linked, Headers
  <1> DEFINE q == p + SIZEOF_STRUCT_MEM + size
             h == IF Room(p) >= size + SIZEOF_STRUCT_MEM + MIN_SIZE
                    THEN Split(ram, p, q) ELSE ram
  <1>5. /\ p \in 0 .. MEM_SIZE /\ p < MEM_SIZE /\ p % MEM_ALIGNMENT = 0
        /\ ram[p].next \in DOMAIN ram /\ ram[p].next \in 0 .. MEM_SIZE
        /\ Room(p) \in 0 .. MEM_SIZE /\ p + SIZEOF_STRUCT_MEM + Room(p) = ram[p].next
        /\ ram[ram[p].next].used
    BY <1>3, <1>4, AnArea DEF IInv, Separated
  \* The headers after the cut, if there was one.
  <1>6. /\ Linked(h) /\ DOMAIN ram \subseteq DOMAIN h /\ ~h[p].used
        /\ p < h[p].next /\ size <= h[p].next - p - SIZEOF_STRUCT_MEM
        /\ \A a \in DOMAIN ram \ {p} : h[a].next = ram[a].next /\ h[a].used = ram[a].used
        /\ \A a \in DOMAIN h \ DOMAIN ram : ~h[a].used /\ p < a /\ h[h[a].next].used
    <2>1. CASE Room(p) >= size + SIZEOF_STRUCT_MEM + MIN_SIZE
      <3>1. /\ q \in 0 .. MEM_SIZE /\ p + SIZEOF_STRUCT_MEM + MIN_SIZE <= q
            /\ q + SIZEOF_STRUCT_MEM + MIN_SIZE <= ram[p].next
        <4>1. /\ p \in Nat /\ SIZEOF_STRUCT_MEM \in Nat /\ MIN_SIZE \in Nat /\ size \in Nat
              /\ Room(p) \in Nat /\ ram[p].next \in Nat /\ MEM_SIZE \in Nat
              /\ ram[p].next <= MEM_SIZE /\ p + SIZEOF_STRUCT_MEM + Room(p) = ram[p].next
          BY <1>2, <1>5, Constants
        <4>2. q = p + SIZEOF_STRUCT_MEM + size
          OBVIOUS
        <4> HIDE DEF q, h
        <4>3. q \in 0 .. MEM_SIZE
          BY <4>1, <4>2, <2>1
        <4>4. p + SIZEOF_STRUCT_MEM + MIN_SIZE <= q
          BY <4>1, <4>2, <1>2
        <4>5. q + SIZEOF_STRUCT_MEM + MIN_SIZE <= ram[p].next
          BY <4>1, <4>2, <2>1
        <4>6. QED
          BY <4>3, <4>4, <4>5
      <3>2. q % MEM_ALIGNMENT = 0
        <4>1. /\ p \in Nat /\ SIZEOF_STRUCT_MEM \in Nat /\ size \in Nat
              /\ p % MEM_ALIGNMENT = 0 /\ SIZEOF_STRUCT_MEM % MEM_ALIGNMENT = 0
              /\ size % MEM_ALIGNMENT = 0 /\ MEM_ALIGNMENT \in Nat \ {0}
          BY <1>2, <1>5, Constants DEF MemAssumption
        <4> HIDE DEF h
        <4>2. (p + SIZEOF_STRUCT_MEM) % MEM_ALIGNMENT = 0
          BY <4>1, SumOfMultiples
        <4>3. PICK b \in Nat : b = p + SIZEOF_STRUCT_MEM
          BY <4>1
        <4>4. (b + size) % MEM_ALIGNMENT = 0
          BY <4>1, <4>2, <4>3, SumOfMultiples
        <4>5. QED
          BY <4>3, <4>4
      <3>3. h = Split(ram, p, q)
        BY <2>1
      <3> HIDE DEF q, h
      <3>4. /\ Linked(h) /\ q \notin DOMAIN ram /\ DOMAIN h = DOMAIN ram \union {q}
            /\ h[q].next = ram[p].next /\ ~h[q].used
            /\ h[p].next = q /\ h[p].used = ram[p].used
            /\ \A a \in DOMAIN ram \ {p} : h[a].next = ram[a].next /\ h[a].used = ram[a].used
        <4>1. q \in Addresses /\ Linked(ram)
          BY <3>1, Constants DEF IInv
        <4>2. LET f == Split(ram, p, q)
              IN  /\ Linked(f) /\ q \notin DOMAIN ram /\ DOMAIN f = DOMAIN ram \union {q}
                  /\ f[q].next = ram[p].next /\ ~f[q].used
                  /\ f[p].next = q /\ f[p].used = ram[p].used
                  /\ \A a \in DOMAIN ram \ {p} :
                       f[a].next = ram[a].next /\ f[a].used = ram[a].used
          BY <1>4, <3>1, <3>2, <4>1, SplitAreas DEF Cut, CutInTwo
        <4>3. QED
          BY <3>3, <4>2
      <3>5. q = p + SIZEOF_STRUCT_MEM + size
        BY DEF q
      <3>6. h[h[q].next].used
        <4>1. ram[p].next # p
          <5>1. /\ p \in Nat /\ SIZEOF_STRUCT_MEM \in Nat \ {0} /\ Room(p) \in Nat
                /\ p + SIZEOF_STRUCT_MEM + Room(p) = ram[p].next
            BY <1>5, Constants
          <5>2. p + SIZEOF_STRUCT_MEM + Room(p) # p
            BY <5>1
          <5>3. QED
            BY <5>1, <5>2
        <4>2. QED
          BY <4>1, <1>5, <3>4
      <3>7. p < q
        BY <3>1, <1>5, Constants
      <3>8. size <= h[p].next - p - SIZEOF_STRUCT_MEM
        <4>1. p \in Nat /\ SIZEOF_STRUCT_MEM \in Nat /\ size \in Nat
          BY <1>2, <1>5, Constants
        <4>2. size <= q - p - SIZEOF_STRUCT_MEM
          BY <3>5, <4>1
        <4>3. QED
          BY <3>4, <4>2
      <3>9. QED
        BY <3>4, <3>6, <3>7, <3>8, <1>3
    <2>2. CASE ~(Room(p) >= size + SIZEOF_STRUCT_MEM + MIN_SIZE)
      <3>1. h = ram
        BY <2>2
      <3> HIDE DEF q, h
      <3>2. p < ram[p].next /\ size <= ram[p].next - p - SIZEOF_STRUCT_MEM
        BY <1>2, <1>3, <1>5, Constants
      <3>3. QED
        BY <3>1, <3>2, <1>3 DEF IInv
    <2>3. QED
      BY <2>1, <2>2
  <1>7. ram' = [h EXCEPT ![p].used = TRUE]
    BY <1>1 DEF Taken
  <1> HIDE DEF q, h
  <1> DEFINE g == [h EXCEPT ![p].used = TRUE]
  <1>8. /\ Linked(g) /\ DOMAIN g = DOMAIN h
        /\ \A a \in DOMAIN h : g[a].next = h[a].next
        /\ g[p].used /\ \A a \in DOMAIN h \ {p} : g[a].used = h[a].used
    <2>1. p \in DOMAIN h \ {MEM_SIZE} /\ Linked(h) /\ TRUE \in BOOLEAN
      BY <1>4, <1>6
    <2>2. Marked(g, h, p, TRUE)
      BY <2>1, MarkLinked
    <2> HIDE DEF g
    <2>3. QED
      BY <2>1, <2>2 DEF Marked
  <1>9. ram' = g
    BY <1>7
  <1> HIDE DEF g
  <1>10. Separated(g)
    <2>1. ASSUME NEW a \in DOMAIN g \ {MEM_SIZE} PROVE g[a].used \/ g[g[a].next].used
      <3>1. CASE a = p
        BY <3>1, <1>8
      <3>2. CASE a \in DOMAIN ram \ {p, MEM_SIZE}
        <4>1. ram[a].next \in DOMAIN ram /\ (ram[a].used \/ ram[ram[a].next].used)
          BY <3>2 DEF IInv, Linked, Forward, Separated
        <4>2. g[a].next = ram[a].next /\ g[a].used = ram[a].used
          BY <3>2, <1>6, <1>8
        <4>3. ram[ram[a].next].used => g[ram[a].next].used
          BY <4>1, <1>6, <1>8
        <4>4. QED
          BY <4>1, <4>2, <4>3
      <3>3. CASE a \in DOMAIN h \ DOMAIN ram
        <4>1. h[h[a].next].used /\ h[a].next \in DOMAIN h
          BY <3>3, <1>4, <1>6 DEF Linked, Forward
        <4>2. g[h[a].next].used
          BY <4>1, <1>8
        <4>3. QED
          BY <3>3, <4>2, <1>8
      <3>4. QED
        BY <3>1, <3>2, <3>3, <1>8
    <2>2. QED
      BY <2>1 DEF Separated
  <1>11. ASSUME NEW a \in DOMAIN g, ~g[a].used
         PROVE  /\ a # p /\ a \in DOMAIN h /\ lfree <= a
                /\ lfree = p => p <= a
    <2>1. a # p /\ a \in DOMAIN h /\ ~h[a].used
      BY <1>8, <1>11
    <2>2. lfree \in Nat /\ a \in Nat /\ p \in Nat
      <3>1. /\ lfree \in Addresses /\ a \in Addresses
        BY <2>1, <1>6 DEF IInv, LfreeLowest, Linked, Headers
      <3>2. QED
        BY <3>1, <1>5, Constants
    <2>3. CASE a \in DOMAIN ram
      <3>1. lfree <= a
        BY <2>1, <2>3, <1>6 DEF IInv, LfreeLowest, SearchStarts
      <3>2. QED
        BY <3>1, <2>1, <2>2
    <2>4. CASE a \notin DOMAIN ram
      BY <2>1, <2>2, <2>4, <1>3, <1>6
    <2>5. QED
      BY <2>3, <2>4
  <1>12. LfreeLowest'
    <2>1. CASE p = lfree
      <3>1. /\ lfree' \in DOMAIN g /\ (~g[lfree'].used \/ lfree' = MEM_SIZE)
            /\ \A a \in DOMAIN g : p <= a /\ ~g[a].used => lfree' <= a
        BY <2>1, <1>1, <1>9 DEF First, FreeFrom
      <3>2. QED
        BY <2>1, <3>1, <1>9, <1>11 DEF LfreeLowest, SearchStarts
    <2>2. CASE p # lfree
      <3>1. lfree' = lfree /\ lfree \in DOMAIN ram /\ lfree \in DOMAIN g
        BY <2>2, <1>1, <1>6, <1>8 DEF IInv, LfreeLowest
      <3>2. ~ram[lfree].used \/ lfree = MEM_SIZE
        BY DEF IInv, LfreeLowest, SearchStarts
      <3>3. ~g[lfree].used \/ lfree = MEM_SIZE
        BY <2>2, <3>1, <3>2, <1>6, <1>8
      <3>4. QED
        BY <3>1, <3>3, <1>9, <1>11 DEF LfreeLowest, SearchStarts
    <2>3. QED
      BY <2>1, <2>2
  <1>13. BlocksHeld'
    <2>1. DOMAIN blocks' = DOMAIN blocks \union {p} /\ p \notin DOMAIN blocks
      BY <1>1, <1>3 DEF IInv, BlocksHeld
    <2>2. blocks'[p] = n /\ \A b \in DOMAIN blocks : blocks'[b] = blocks[b]
      BY <1>1, <2>1
    <2>3. blocks' \in [DOMAIN blocks' -> Sizes]
      BY <1>1, <2>1, <2>2 DEF IInv, BlocksHeld
    <2>4. DOMAIN blocks = {a \in DOMAIN ram : ram[a].used} \ {MEM_SIZE}
      BY DEF IInv, BlocksHeld
    <2>5. ASSUME NEW a
          PROVE  a \in DOMAIN blocks' <=> a \in DOMAIN g /\ g[a].used /\ a # MEM_SIZE
      <3>1. CASE a = p
        BY <3>1, <2>1, <1>4, <1>6, <1>8
      <3>2. CASE a # p
        BY <3>2, <2>1, <2>4, <1>6, <1>8
      <3>3. QED
        BY <3>1, <3>2
    <2>6. DOMAIN blocks' = {a \in DOMAIN g : g[a].used} \ {MEM_SIZE}
      BY <2>5
    <2>7. ASSUME NEW b \in DOMAIN blocks'
          PROVE  blocks'[b] <= g[b].next - b - SIZEOF_STRUCT_MEM
      <3>1. CASE b = p
        <4>1. g[p].next = h[p].next /\ h[p].next \in Nat
          BY <1>4, <1>6, <1>8, Constants DEF Linked, Headers
        <4>2. n \in Nat
          BY Constants
        <4>3. QED
          BY <3>1, <4>1, <4>2, <2>2, <1>2, <1>5, <1>6, Constants
      <3>2. CASE b \in DOMAIN blocks
        <4>1. b \in DOMAIN ram \ {p} /\ blocks[b] <= Room(b)
          BY <3>2, <2>1, <2>4 DEF IInv, BlocksHeld
        <4>2. g[b].next = ram[b].next
          BY <4>1, <1>6, <1>8
        <4>3. QED
          BY <3>2, <4>1, <4>2, <2>2 DEF Room
      <3>3. QED
        BY <3>1, <3>2, <2>1
    <2>8. QED
      BY <2>3, <2>6, <2>7, <1>9, HeldAgain
  <1>14. TrimHolds'
    <2>1. trim' = trim /\ DOMAIN blocks \subseteq DOMAIN blocks'
      BY <1>1 DEF mem_malloc
    <2>2. ASSUME trim # None PROVE Room(trim.at)' = Room(trim.at)
      <3>1. trim.at \in DOMAIN ram \ {p}
        BY <2>2, <1>3 DEF IInv, TrimHolds, BlocksHeld
      <3>2. g[trim.at].next = ram[trim.at].next
        BY <3>1, <1>6, <1>8
      <3>3. QED
        BY <2>1, <3>2, <1>9 DEF Room
    <2>3. QED
      BY <2>1, <2>2 DEF IInv, TrimHolds
  <1>15. QED
    BY <1>8, <1>9, <1>10, <1>12, <1>13, <1>14 DEF IInv

\* An area is given back, and is one with its free neighbours.
LEMMA FreeIInv ==
  ASSUME MemAssumption, IInv, NEW p \in DOMAIN blocks, mem_free(p)
  PROVE  IInv'
  <1> DEFINE h == [ram EXCEPT ![p].used = FALSE]
             l == Lower(p, lfree)
             g == plug_holes(h, p)
  <1>1. /\ ram' = g /\ lfree' = plug_holes_lfree(h, p, l)
        /\ blocks' = [b \in DOMAIN blocks \ {p} |-> blocks[b]]
        /\ trim' = trim /\ p # trim.at
    BY DEF mem_free
  <1>2. p \in DOMAIN ram \ {MEM_SIZE} /\ ram[p].used
    BY DEF IInv, BlocksHeld
  <1>3. /\ Linked(h) /\ DOMAIN h = DOMAIN ram
        /\ \A a \in DOMAIN ram : h[a].next = ram[a].next
        /\ ~h[p].used /\ \A a \in DOMAIN ram \ {p} : h[a].used = ram[a].used
    <2>1. Linked(ram) /\ FALSE \in BOOLEAN
      BY DEF IInv
    <2>2. Marked(h, ram, p, FALSE)
      BY <1>2, <2>1, MarkLinked
    <2> HIDE DEF h
    <2>3. QED
      BY <1>2, <2>2 DEF Marked
  <1> HIDE DEF h, l, g
  <1>4. ASSUME NEW a \in DOMAIN h \ {MEM_SIZE}
        PROVE  h[a].used \/ h[h[a].next].used \/ a = p \/ h[a].next = p
    <2>1. ram[a].used \/ ram[ram[a].next].used
      BY <1>3 DEF IInv, Separated
    <2>2. ram[a].next \in DOMAIN ram
      BY <1>3 DEF IInv, Linked, Forward
    <2>3. QED
      BY <2>1, <2>2, <1>3
  <1>5. /\ l \in DOMAIN h /\ ~h[l].used /\ \A a \in DOMAIN h : ~h[a].used => l <= a
    <2>1. /\ lfree \in DOMAIN ram /\ DOMAIN ram \subseteq Addresses
          /\ ~ram[lfree].used \/ lfree = MEM_SIZE
          /\ \A a \in DOMAIN ram : ~ram[a].used => lfree <= a
      BY DEF IInv, LfreeLowest, SearchStarts, Linked, Headers
    <2>2. p \in Nat /\ lfree \in Nat /\ p < MEM_SIZE /\ MEM_SIZE \in Nat
      BY <1>2, <2>1, Constants
    <2>3. \/ l = p /\ p <= lfree
          \/ l = lfree /\ lfree < p
      BY <2>2 DEF l, Lower
    <2>4. l \in DOMAIN h /\ ~h[l].used
      BY <2>1, <2>2, <2>3, <1>2, <1>3
    <2>5. ASSUME NEW a \in DOMAIN h, ~h[a].used PROVE l <= a
      <3>1. CASE a = p
        BY <3>1, <2>2, <2>3
      <3>2. CASE a # p
        <4>1. lfree <= a /\ a \in Nat
          BY <3>2, <2>1, <2>5, <1>3, Constants
        <4>2. QED
          BY <4>1, <2>2, <2>3
      <3>3. QED
        BY <3>1, <3>2
    <2>6. QED
      BY <2>4, <2>5
  <1>6. /\ Linked(g) /\ Separated(g) /\ DOMAIN g \subseteq DOMAIN h
        /\ \A a \in DOMAIN g : g[a].used = h[a].used
        /\ \A a \in DOMAIN h : h[a].used => a \in DOMAIN g /\ g[a].next = h[a].next
        /\ plug_holes_lfree(h, p, l) = l /\ l \in DOMAIN g
    <2>1. PICK e, m : e = h /\ m = l
      OBVIOUS
    <2>2. /\ Linked(e) /\ p \in DOMAIN e \ {MEM_SIZE} /\ ~e[p].used
          /\ \A a \in DOMAIN e \ {MEM_SIZE} :
               e[a].used \/ e[e[a].next].used \/ a = p \/ e[a].next = p
          /\ m \in DOMAIN e /\ ~e[m].used /\ \A a \in DOMAIN e : ~e[a].used => m <= a
      BY <2>1, <1>2, <1>3, <1>4, <1>5
    <2>3. LET f == plug_holes(e, p)
          IN  /\ Linked(f) /\ Separated(f) /\ DOMAIN f \subseteq DOMAIN e
              /\ \A a \in DOMAIN f : f[a].used = e[a].used
              /\ \A a \in DOMAIN e : e[a].used => a \in DOMAIN f /\ f[a].next = e[a].next
              /\ plug_holes_lfree(e, p, m) = m /\ m \in DOMAIN f
      BY <2>2, PlugHoles
    <2>4. QED
      BY <2>1, <2>3 DEF g
  <1>7. LfreeLowest'
    <2>1. lfree' = l /\ l \in DOMAIN g /\ ~g[l].used
      BY <1>1, <1>5, <1>6
    <2>2. \A a \in DOMAIN g : ~g[a].used => l <= a
      BY <1>5, <1>6
    <2>3. QED
      BY <2>1, <2>2, <1>1 DEF LfreeLowest, SearchStarts
  <1>8. DOMAIN blocks' = DOMAIN blocks \ {p}
        /\ \A b \in DOMAIN blocks' : blocks'[b] = blocks[b]
    BY <1>1
  <1>9. ASSUME NEW b \in DOMAIN blocks'
        PROVE  b \in DOMAIN ram \ {p} /\ b \in DOMAIN g /\ g[b].next = ram[b].next
    <2>1. b \in DOMAIN ram /\ ram[b].used /\ b # p
      BY <1>8 DEF IInv, BlocksHeld
    <2>2. QED
      BY <2>1, <1>3, <1>6
  <1>10. BlocksHeld'
    <2>1. blocks' \in [DOMAIN blocks' -> Sizes]
      BY <1>1, <1>8 DEF IInv, BlocksHeld
    <2>2. DOMAIN blocks = {a \in DOMAIN ram : ram[a].used} \ {MEM_SIZE}
      BY DEF IInv, BlocksHeld
    <2>3. ASSUME NEW a
          PROVE  a \in DOMAIN blocks' <=> a \in DOMAIN g /\ g[a].used /\ a # MEM_SIZE
      <3>1. CASE a = p
        BY <3>1, <1>3, <1>6, <1>8
      <3>2. CASE a # p
        BY <3>2, <1>3, <1>6, <1>8, <2>2
      <3>3. QED
        BY <3>1, <3>2
    <2>4. DOMAIN blocks' = {a \in DOMAIN g : g[a].used} \ {MEM_SIZE}
      BY <2>3
    <2>5. ASSUME NEW b \in DOMAIN blocks'
          PROVE  blocks'[b] <= g[b].next - b - SIZEOF_STRUCT_MEM
      <3>1. blocks[b] <= Room(b) /\ blocks'[b] = blocks[b]
        BY <1>8 DEF IInv, BlocksHeld
      <3>2. QED
        BY <3>1, <1>9 DEF Room
    <2>6. QED
      BY <2>1, <2>4, <2>5, <1>1, HeldAgain
  <1>11. TrimHolds'
    <2>1. ASSUME trim # None
          PROVE  trim.at \in DOMAIN blocks' /\ Room(trim.at)' = Room(trim.at)
      <3>1. trim.at \in DOMAIN blocks'
        BY <2>1, <1>1, <1>8 DEF IInv, TrimHolds
      <3>2. g[trim.at].next = ram[trim.at].next
        BY <3>1, <1>9
      <3>3. QED
        BY <3>1, <3>2, <1>1 DEF Room
    <2>2. QED
      BY <2>1, <1>1 DEF IInv, TrimHolds
  <1>12. QED
    BY <1>1, <1>6, <1>7, <1>10, <1>11 DEF IInv

\* The size of a block is remembered; nothing else changes it until mem_trim does.
LEMMA BeginTrimIInv ==
  ASSUME MemAssumption, IInv, NEW p \in DOMAIN blocks, NEW n \in Sizes, BeginTrim(p, n)
  PROVE  IInv'
  <1>1. /\ ~TooLarge(n) /\ Expanded(n) < Room(p)
        /\ trim' = [at |-> p, newsize |-> Expanded(n), size |-> Room(p), asked |-> n]
        /\ UNCHANGED <<ram, lfree, blocks>>
    BY DEF BeginTrim
  <1>2. /\ Expanded(n) \in Nat /\ MIN_SIZE <= Expanded(n)
        /\ Expanded(n) % MEM_ALIGNMENT = 0 /\ n <= Expanded(n) /\ Expanded(n) <= MEM_SIZE
    BY <1>1, ExpandedFacts
  <1>3. Room(p) \in 0 .. MEM_SIZE
    BY AnArea DEF IInv, BlocksHeld
  <1>4. Expanded(n) \in Sizes /\ Room(p) \in Sizes
    BY <1>2, <1>3, Constants
  <1>5. Room(p)' = Room(p)
    BY <1>1 DEF Room
  <1>6. TrimHolds'
    BY <1>1, <1>2, <1>4, <1>5 DEF TrimHolds
  <1>7. LfreeLowest' /\ BlocksHeld' /\ Linked(ram') /\ Separated(ram')
    BY <1>1 DEF IInv, LfreeLowest, SearchStarts, BlocksHeld, Room
  <1>8. QED
    BY <1>6, <1>7 DEF IInv

\* What the block of mem_trim loses becomes free, if it becomes anything.
LEMMA TrimIInv == ASSUME MemAssumption, IInv, mem_trim PROVE IInv'
  <1> DEFINE p == trim.at
             s == trim.newsize
             n == ram[p].next
             q == p + SIZEOF_STRUCT_MEM + s
  <1>1. /\ trim # None /\ trim' = None /\ blocks' = [blocks EXCEPT ![p] = trim.asked]
        /\ \/ /\ ~ram[n].used
              /\ ram' = Split(Join(ram, p), p, q)
              /\ lfree' = IF lfree = n THEN q ELSE lfree
           \/ /\ ram[n].used
              /\ s + SIZEOF_STRUCT_MEM + MIN_SIZE <= trim.size
              /\ ram' = Split(ram, p, q) /\ lfree' = Lower(q, lfree)
           \/ /\ ram[n].used /\ UNCHANGED <<ram, lfree>>
    BY DEF mem_trim
  <1>2. /\ p \in DOMAIN blocks /\ trim.size = Room(p) /\ s < trim.size
        /\ MIN_SIZE <= s /\ s % MEM_ALIGNMENT = 0 /\ s \in Nat
        /\ trim.asked <= s /\ trim.asked \in Sizes
    BY <1>1, Constants DEF IInv, TrimHolds
  <1>3. p \in DOMAIN ram \ {MEM_SIZE} /\ ram[p].used /\ ram[MEM_SIZE].used
    BY <1>2 DEF IInv, BlocksHeld, Linked, Headers
  <1>4. /\ p \in Nat /\ p < MEM_SIZE /\ p % MEM_ALIGNMENT = 0
        /\ n \in DOMAIN ram /\ n \in Nat /\ n <= MEM_SIZE /\ MEM_SIZE \in Nat
        /\ p + SIZEOF_STRUCT_MEM + Room(p) = n /\ Room(p) \in Nat
    BY <1>3, AnArea, Constants
  <1>5. n = ram[p].next /\ q = p + SIZEOF_STRUCT_MEM + s
    OBVIOUS
  <1> HIDE DEF p, s, n, q
  <1>6. /\ q \in Nat /\ p + SIZEOF_STRUCT_MEM + MIN_SIZE <= q /\ q < n
        /\ q \in Addresses /\ p < q /\ q # MEM_SIZE
    <2>1. PICK r \in Nat : r = Room(p)
      BY <1>4
    <2>2. /\ s < r /\ MIN_SIZE <= s /\ p + SIZEOF_STRUCT_MEM + r = n
          /\ q = p + SIZEOF_STRUCT_MEM + s /\ p \in Nat /\ s \in Nat /\ n \in Nat
          /\ n <= MEM_SIZE
      BY <2>1, <1>2, <1>4, <1>5
    <2>3. /\ SIZEOF_STRUCT_MEM \in Nat \ {0} /\ MIN_SIZE \in Nat \ {0} /\ MEM_SIZE \in Nat
          /\ Addresses = 0 .. MEM_SIZE
      BY Constants
    <2>4. QED
      BY <2>1, <2>2, <2>3
  <1>7. q % MEM_ALIGNMENT = 0
    <2>1. /\ SIZEOF_STRUCT_MEM \in Nat /\ SIZEOF_STRUCT_MEM % MEM_ALIGNMENT = 0
          /\ MEM_ALIGNMENT \in Nat \ {0}
      BY Constants DEF MemAssumption
    <2>2. PICK b \in Nat : b = p + SIZEOF_STRUCT_MEM
      BY <1>4, <2>1
    <2>3. b % MEM_ALIGNMENT = 0
      BY <1>4, <2>1, <2>2, SumOfMultiples
    <2>4. (b + s) % MEM_ALIGNMENT = 0
      BY <1>2, <2>1, <2>2, <2>3, SumOfMultiples
    <2>5. QED
      BY <1>2, <1>4, <1>5, <2>1, <2>2, <2>4
  <1>8. /\ DOMAIN blocks' = DOMAIN blocks /\ blocks'[p] = trim.asked
        /\ blocks' \in [DOMAIN blocks' -> Sizes]
        /\ \A b \in DOMAIN blocks \ {p} : blocks'[b] = blocks[b]
    BY <1>1, <1>2 DEF IInv, BlocksHeld
  <1>9. DOMAIN blocks = {a \in DOMAIN ram : ram[a].used} \ {MEM_SIZE}
    BY DEF IInv, BlocksHeld
  <1>10. /\ lfree \in DOMAIN ram /\ lfree \in Nat
         /\ ~ram[lfree].used \/ lfree = MEM_SIZE
         /\ \A a \in DOMAIN ram : a \in Nat
         /\ \A a \in DOMAIN ram : ~ram[a].used => lfree <= a
    BY Constants DEF IInv, LfreeLowest, SearchStarts, Linked, Headers
  \* Enough for the invariant: the area at q is free, and a used one follows it; the
  \* other headers are as they were, save that one behind p may be gone.
  <1>11. ASSUME NEW g, ram' = g, Linked(g), q \notin DOMAIN ram, q \in DOMAIN g,
                DOMAIN g \subseteq DOMAIN ram \union {q},
                \A a \in DOMAIN ram : ram[a].used => a \in DOMAIN g,
                ~g[q].used, g[g[q].next].used, g[p].next = q, g[p].used,
                \A a \in DOMAIN g \ {p, q} :
                  g[a].next = ram[a].next /\ g[a].used = ram[a].used,
                lfree' \in DOMAIN g, ~g[lfree'].used \/ lfree' = MEM_SIZE,
                lfree' \in Nat, lfree' <= q,
                \A a \in DOMAIN g \ {p, q} : ~ram[a].used => lfree' <= a
         PROVE  IInv'
    <2>1. Separated(g)
      <3>1. ASSUME NEW a \in DOMAIN g \ {MEM_SIZE} PROVE g[a].used \/ g[g[a].next].used
        <4>1. CASE a \in {p, q}
          BY <4>1, <1>11
        <4>2. CASE a \notin {p, q}
          <5>1. /\ a \in DOMAIN ram \ {MEM_SIZE}
                /\ g[a].next = ram[a].next /\ g[a].used = ram[a].used
            BY <4>2, <1>11
          <5>2. /\ ram[a].used \/ ram[ram[a].next].used
                /\ ram[a].next \in DOMAIN ram
            BY <5>1 DEF IInv, Separated, Linked, Forward
          <5>3. CASE ram[a].used
            BY <5>1, <5>3
          <5>4. CASE ram[ram[a].next].used
            <6>1. ram[a].next \in DOMAIN g /\ ram[a].next # q
              BY <5>2, <5>4, <1>11
            <6>2. g[ram[a].next].used
              BY <5>4, <6>1, <1>11
            <6>3. QED
              BY <5>1, <6>2
          <5>5. QED
            BY <5>2, <5>3, <5>4
        <4>3. QED
          BY <4>1, <4>2
      <3>2. QED
        BY <3>1 DEF Separated
    <2>2. LfreeLowest'
      <3>1. ASSUME NEW a \in DOMAIN g, ~g[a].used PROVE lfree' <= a
        <4>1. CASE a = q
          BY <4>1, <1>11
        <4>2. CASE a # q
          BY <3>1, <4>2, <1>11
        <4>3. QED
          BY <4>1, <4>2
      <3>2. QED
        BY <3>1, <1>11 DEF LfreeLowest, SearchStarts
    <2>3. BlocksHeld'
      <3>1. ASSUME NEW a
            PROVE  a \in DOMAIN blocks' <=> a \in DOMAIN g /\ g[a].used /\ a # MEM_SIZE
        <4>1. CASE a = p
          BY <4>1, <1>2, <1>3, <1>8, <1>11
        <4>2. CASE a = q
          BY <4>2, <1>8, <1>9, <1>11
        <4>3. CASE a # p /\ a # q
          BY <4>3, <1>8, <1>9, <1>11
        <4>4. QED
          BY <4>1, <4>2, <4>3
      <3>2. DOMAIN blocks' = {a \in DOMAIN g : g[a].used} \ {MEM_SIZE}
        BY <3>1
      <3>3. ASSUME NEW b \in DOMAIN blocks'
            PROVE  blocks'[b] <= g[b].next - b - SIZEOF_STRUCT_MEM
        <4>1. CASE b = p
          <5>1. q - p - SIZEOF_STRUCT_MEM = s
            BY <1>2, <1>4, <1>5, Constants
          <5>2. QED
            BY <4>1, <5>1, <1>2, <1>8, <1>11
        <4>2. CASE b # p
          <5>1. blocks'[b] = blocks[b] /\ blocks[b] <= Room(b) /\ b # q /\ b \in DOMAIN g
            BY <4>2, <1>8, <1>9, <1>11 DEF IInv, BlocksHeld
          <5>2. g[b].next = ram[b].next
            BY <4>2, <5>1, <1>11
          <5>3. QED
            BY <5>1, <5>2 DEF Room
        <4>3. QED
          BY <4>1, <4>2
      <3>4. QED
        BY <3>2, <3>3, <1>8, <1>11, HeldAgain
    <2>4. TrimHolds'
      BY <1>1 DEF TrimHolds
    <2>5. QED
      BY <2>1, <2>2, <2>3, <2>4, <1>11 DEF IInv
  <1>12. CASE /\ ~ram[n].used
              /\ ram' = Split(Join(ram, p), p, q)
              /\ lfree' = IF lfree = n THEN q ELSE lfree
    <2>1. MovedDown(Split(Join(ram, p), p, q), ram, p, q)
      <3>1. PICK e : e = ram
        OBVIOUS
      <3>2. PICK x \in DOMAIN e \ {MEM_SIZE} : x = p
        BY <3>1, <1>3
      <3>3. PICK y \in Addresses : y = q
        BY <1>6
      <3>4. Linked(e) /\ Separated(e)
        BY <3>1 DEF IInv
      <3>5. CutJoined(e, x, y)
        BY <3>1, <3>2, <3>3, <1>5, <1>6, <1>7, <1>12 DEF CutJoined
      <3>6. MovedDown(Split(Join(e, x), x, y), e, x, y)
        BY <3>4, <3>5, JoinSplitAreas
      <3>7. QED
        BY <3>1, <3>2, <3>3, <3>6
    <2>2. PICK g : g = Split(Join(ram, p), p, q)
      OBVIOUS
    <2>3. /\ ram' = g /\ Linked(g) /\ q \notin DOMAIN ram /\ n # p /\ q # n
          /\ DOMAIN g = (DOMAIN ram \ {n}) \union {q}
          /\ ~g[q].used /\ g[g[q].next].used /\ g[p].next = q /\ g[p].used
          /\ \A a \in DOMAIN ram \ {p, n} : g[a].next = ram[a].next /\ g[a].used = ram[a].used
      <3>1. MovedDown(g, ram, p, q) /\ ram' = g
        BY <2>1, <2>2, <1>12
      <3>2. QED
        BY <3>1, <1>3, <1>5 DEF MovedDown
    \* The area behind p is free, so that the lowest one is this or before p.
    <2>4. lfree <= n /\ (lfree <= p \/ n <= lfree) /\ lfree # p
      BY <1>3, <1>4, <1>5, <1>10, <1>12 DEF IInv, Linked, Forward
    <2>5. \/ lfree = n /\ lfree' = q
          \/ lfree # n /\ lfree' = lfree /\ lfree < p
      BY <2>4, <1>4, <1>10, <1>12
    <2>6. lfree' \in DOMAIN g /\ lfree' \in Nat /\ lfree' <= q
      BY <2>3, <2>5, <1>4, <1>6, <1>10
    <2>7. ~g[lfree'].used \/ lfree' = MEM_SIZE
      BY <2>3, <2>5, <1>4, <1>10
    <2>8. ASSUME NEW a \in DOMAIN g \ {p, q}, ~ram[a].used PROVE lfree' <= a
      <3>1. a \in DOMAIN ram /\ a \in Nat /\ lfree <= a
        BY <2>3, <2>8, <1>10
      <3>2. QED
        BY <3>1, <2>5, <1>4, <1>6
    <2>9. \A a \in DOMAIN ram : ram[a].used => a \in DOMAIN g
      BY <2>3, <1>12
    <2>10. \A a \in DOMAIN g \ {p, q} : g[a].next = ram[a].next /\ g[a].used = ram[a].used
      BY <2>3
    <2>11. QED
      BY <2>3, <2>6, <2>7, <2>8, <2>9, <2>10, <1>11
  <1>13. CASE /\ ram[n].used
              /\ s + SIZEOF_STRUCT_MEM + MIN_SIZE <= trim.size
              /\ ram' = Split(ram, p, q) /\ lfree' = Lower(q, lfree)
    <2>1. q + SIZEOF_STRUCT_MEM + MIN_SIZE <= ram[p].next
      <3>1. PICK r \in Nat : r = Room(p)
        BY <1>4
      <3>2. /\ s + SIZEOF_STRUCT_MEM + MIN_SIZE <= r /\ p + SIZEOF_STRUCT_MEM + r = n
            /\ q = p + SIZEOF_STRUCT_MEM + s /\ p \in Nat /\ s \in Nat
            /\ n = ram[p].next /\ n \in Nat
        BY <3>1, <1>2, <1>4, <1>5, <1>13
      <3>3. SIZEOF_STRUCT_MEM \in Nat /\ MIN_SIZE \in Nat
        BY Constants
      <3>4. QED
        BY <3>1, <3>2, <3>3
    <2>2. CutInTwo(Split(ram, p, q), ram, p, q)
      <3>1. PICK e : e = ram
        OBVIOUS
      <3>2. PICK x \in DOMAIN e \ {MEM_SIZE} : x = p
        BY <3>1, <1>3
      <3>3. PICK y \in Addresses : y = q
        BY <1>6
      <3>4. Linked(e)
        BY <3>1 DEF IInv
      <3>5. Cut(e, x, y)
        BY <3>1, <3>2, <3>3, <2>1, <1>6, <1>7 DEF Cut
      <3>6. CutInTwo(Split(e, x, y), e, x, y)
        BY <3>4, <3>5, SplitAreas
      <3>7. QED
        BY <3>1, <3>2, <3>3, <3>6
    <2>3. PICK g : g = Split(ram, p, q)
      OBVIOUS
    <2>4. /\ ram' = g /\ Linked(g) /\ q \notin DOMAIN ram /\ DOMAIN g = DOMAIN ram \union {q}
          /\ g[q].next = n /\ ~g[q].used /\ g[p].next = q /\ g[p].used
          /\ \A a \in DOMAIN ram \ {p} : g[a].next = ram[a].next /\ g[a].used = ram[a].used
      <3>1. CutInTwo(g, ram, p, q) /\ ram' = g
        BY <2>2, <2>3, <1>13
      <3>2. QED
        BY <3>1, <1>3, <1>5 DEF CutInTwo
    <2>5. g[n].used
      BY <2>4, <1>4, <1>6, <1>13
    <2>6. \/ lfree' = q /\ q < lfree
          \/ lfree' = lfree /\ lfree <= q
      BY <1>6, <1>10, <1>13 DEF Lower
    <2>7. lfree' \in Nat /\ lfree' <= q
      BY <2>4, <2>6, <1>3, <1>6, <1>10
    <2>8. \A a \in DOMAIN g \ {p, q} : ~ram[a].used => lfree' <= a
      BY <2>4, <2>6, <1>6, <1>10
    <2>9. lfree' \in DOMAIN g
      BY <2>4, <2>6, <1>10
    <2>10. ~g[lfree'].used \/ lfree' = MEM_SIZE
      BY <2>4, <2>6, <1>3, <1>10
    <2>11. QED
      BY <2>4, <2>5, <2>7, <2>8, <2>9, <2>10, <1>11
  <1>14. CASE ram[n].used /\ UNCHANGED <<ram, lfree>>
    <2>1. ASSUME NEW b \in DOMAIN blocks' PROVE blocks'[b] <= Room(b)
      <3>1. CASE b = p
        <4>1. trim.asked \in Nat
          BY <1>2, Constants
        <4>2. QED
          BY <3>1, <4>1, <1>2, <1>4, <1>8
      <3>2. CASE b # p
        BY <3>2, <1>8 DEF IInv, BlocksHeld
      <3>3. QED
        BY <3>1, <3>2
    <2>2. BlocksHeld'
      BY <2>1, <1>8, <1>9, <1>14 DEF BlocksHeld, Room
    <2>3. LfreeLowest' /\ TrimHolds'
      BY <1>1, <1>14 DEF IInv, LfreeLowest, SearchStarts, TrimHolds
    <2>4. QED
      BY <2>2, <2>3, <1>14 DEF IInv
  <1>15. QED
    BY <1>1, <1>12, <1>13, <1>14 DEF p, s, n, q

\* Every call preserves the invariant.
LEMMA NextIInv == ASSUME MemAssumption, IInv, [Next]_vars PROVE IInv'
  <1>1. CASE UNCHANGED vars
    BY <1>1 DEF IInv, LfreeLowest, SearchStarts, BlocksHeld, TrimHolds, Room, vars
  <1>2. ASSUME NEW n \in Sizes, mem_malloc(n) PROVE IInv'
    <2>1. CASE ~Refused(n)
      BY <1>2, <2>1, MallocIInv
    <2>2. CASE Refused(n)
      BY <1>1, <1>2, <2>2 DEF mem_malloc
    <2>3. QED
      BY <2>1, <2>2
  <1>3. ASSUME NEW p \in DOMAIN blocks, mem_free(p) PROVE IInv'
    BY <1>3, FreeIInv
  <1>4. ASSUME NEW p \in DOMAIN blocks, NEW n \in Sizes, BeginTrim(p, n) PROVE IInv'
    BY <1>4, BeginTrimIInv
  <1>5. CASE mem_trim
    BY <1>5, TrimIInv
  <1>6. QED
    BY <1>1, <1>2, <1>3, <1>4, <1>5 DEF Next

\* Headers, lfree and what callers have are of their types, in every state.
THEOREM Typed == ASSUME MemAssumption PROVE Spec => []TypeOK
  <1>1. Spec => []IInv
    BY InitIInv, NextIInv, PTL DEF Spec
  <1>2. IInv => TypeOK
    BY InvSound
  <1>3. QED
    BY <1>1, <1>2, PTL

\* mem_malloc, mem_free and mem_trim keep the areas of the heap together: linked both
\* ways without a gap, free ones joined, none before lfree; and no block is smaller
\* than its caller asked for, whichever calls come between the halves of mem_trim.
THEOREM Sound == ASSUME MemAssumption PROVE Spec => []HeapSound
  <1>1. Spec => []IInv
    BY InitIInv, NextIInv, PTL DEF Spec
  <1>2. IInv => HeapSound
    BY InvSound
  <1>3. QED
    BY <1>1, <1>2, PTL

=============================================================================
