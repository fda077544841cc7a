------------------------------ MODULE Lemmas ------------------------------
(***************************************************************************)
(* Lemmas that several proofs need: on quotients and remainders, for       *)
(* memory handed out in multiples of an alignment and for rings; on the    *)
(* least of some numbers; on lists that gain and lose elements, and how    *)
(* many are on them.                                                       *)
(***************************************************************************)
EXTENDS SequencesExt, SequenceTheorems, FiniteSetTheorems, Integers, TLAPS

\* Quotient and remainder.
LEMMA Division ==
  ASSUME NEW n \in Nat \ {0}, NEW a \in Nat
  PROVE  /\ (a \div n) \in Nat /\ (a % n) \in 0 .. n - 1
         /\ a = n * (a \div n) + (a % n)
  OBVIOUS

\* What is n times something leaves nothing.
LEMMA Multiple ==
  ASSUME NEW n \in Nat \ {0}, NEW a \in Nat, NEW k \in Int, a = n * k
  PROVE  a % n = 0
  OBVIOUS

\* Sums of multiples are multiples.
LEMMA SumOfMultiples ==
  ASSUME NEW n \in Nat \ {0}, NEW a \in Nat, NEW b \in Nat, a % n = 0, b % n = 0
  PROVE  (a + b) % n = 0
  <1>1. PICK i \in Nat, j \in Nat : a = n * i /\ b = n * j
    <2>1. a = n * (a \div n) /\ b = n * (b \div n)
      BY Division
    <2>2. (a \div n) \in Nat /\ (b \div n) \in Nat
      BY Division
    <2>3. QED
      BY <2>1, <2>2
  <1>2. a + b = n * (i + j) /\ i + j \in Int /\ a + b \in Nat
    BY <1>1
  <1>3. QED
    BY <1>2, Multiple

\* Without its remainder a number is a multiple, and not larger.
LEMMA RoundedDown ==
  ASSUME NEW n \in Nat \ {0}, NEW a \in Nat
  PROVE  /\ a - (a % n) \in Nat /\ a - (a % n) > a - n /\ a - (a % n) <= a
         /\ (a - (a % n)) % n = 0
  <1>1. PICK q \in Nat, r \in 0 .. n - 1 : a = n * q + r /\ a % n = r
    BY Division
  <1>2. PICK m \in Nat : m = n * q
    BY <1>1
  <1>3. a = m + r /\ a % n = r
    BY <1>1, <1>2
  <1>4. a - (a % n) = m /\ m > a - n /\ m <= a
    BY <1>3
  <1>5. m % n = 0
    <2>1. q \in Int
      BY <1>1
    <2>2. QED
      BY <1>2, <2>1, Multiple
  <1>6. QED
    BY <1>4, <1>5

\* Once round the ring, and up to the second time its end is reached.
LEMMA Around ==
    ASSUME NEW n \in Nat \ {0}, NEW a \in 0 .. 2 * n
    PROVE  a % n = IF a < n THEN a ELSE IF a < 2 * n THEN a - n ELSE 0
<1>1. PICK q \in Nat, r \in 0 .. n - 1 : a = n * q + r /\ r = a % n
  OBVIOUS
<1>2. CASE q = 0
  BY <1>1, <1>2
<1>3. CASE q = 1
  BY <1>1, <1>3
<1>4. CASE q = 2
  BY <1>1, <1>4
<1>5. CASE q >= 3
  <2>1. n * q >= n * 3
    BY <1>5
  <2>2. QED
    BY <1>1, <2>1
<1>6. QED
  BY <1>1, <1>2, <1>3, <1>4, <1>5

\* A number is a multiple and its remainder.
LEMMA Quotient ==
  ASSUME NEW n \in Nat \ {0}, NEW a \in Int
  PROVE  \E q \in Int : \E m \in Int : m = n * q /\ a = m + (a % n) /\ a % n \in 0 .. n - 1
  <1>1. PICK q \in Int, r \in 0 .. n - 1 : a = n * q + r /\ r = a % n
    OBVIOUS
  <1>2. n * q \in Int
    OBVIOUS
  <1>3. QED
    BY <1>1, <1>2

\* Different multiples are at least n apart.
LEMMA Apart ==
  ASSUME NEW n \in Nat \ {0}, NEW p \in Int, NEW q \in Int, NEW m \in Int,
         m = n * q - n * p, m < n, m > -n
  PROVE  m = 0
  <1>1. m = n * (q - p)
    OBVIOUS
  <1>2. PICK k \in Int : k = q - p
    OBVIOUS
  <1>3. m = n * k
    BY <1>1, <1>2
  <1>4. CASE k >= 1
    <2>1. n * k >= n
      BY <1>4
    <2>2. QED
      BY <1>3, <2>1
  <1>5. CASE k <= -1
    <2>1. n * k <= -n
      BY <1>5
    <2>2. QED
      BY <1>3, <2>1
  <1>6. CASE k = 0
    BY <1>3, <1>6
  <1>7. QED
    BY <1>4, <1>5, <1>6

\* Numbers a multiple apart have the same remainder.
LEMMA Congruent ==
  ASSUME NEW n \in Nat \ {0}, NEW a \in Int, NEW b \in Int, NEW k \in Int, a - b = n * k
  PROVE  a % n = b % n
  <1>1. PICK q \in Int : \E u \in Int : u = n * q /\ a = u + (a % n) /\ a % n \in 0 .. n - 1
    BY Quotient
  <1>2. PICK u \in Int : u = n * q /\ a = u + (a % n) /\ a % n \in 0 .. n - 1
    BY <1>1
  <1>3. PICK p \in Int : \E v \in Int : v = n * p /\ b = v + (b % n) /\ b % n \in 0 .. n - 1
    BY Quotient
  <1>4. PICK v \in Int : v = n * p /\ b = v + (b % n) /\ b % n \in 0 .. n - 1
    BY <1>3
  <1> DEFINE x == a % n
             y == b % n
  <1>5. x \in 0 .. n - 1 /\ y \in 0 .. n - 1 /\ a = u + x /\ b = v + y
    BY <1>2, <1>4
  <1> HIDE DEF x, y
  <1>6. n * (p + k) = v + (a - b)
    <2>1. n * (p + k) = n * p + n * k
      OBVIOUS
    <2>2. QED
      BY <1>4, <2>1
  <1>7. PICK s \in Int : s = p + k /\ n * s = v + (a - b)
    BY <1>6
  <1>8. PICK m \in Int : m = u - (v + (a - b))
    BY <1>2, <1>4
  <1>9. m = y - x
    BY <1>5, <1>8
  <1>10. m < n /\ m > -n
    BY <1>5, <1>9
  <1>11. m = n * q - n * s
    BY <1>2, <1>7, <1>8
  <1>12. m = 0
    BY <1>10, <1>11, Apart
  <1>13. QED
    BY <1>5, <1>9, <1>12 DEF x, y

\* Remainders can be taken before or after sums and differences.
LEMMA RemainderOfSum ==
  ASSUME NEW n \in Nat \ {0}, NEW a \in Int, NEW b \in Int
  PROVE  ((a % n) + b) % n = (a + b) % n /\ ((a % n) - (b % n)) % n = (a - b) % n
  <1>1. PICK q \in Int : \E u \in Int : u = n * q /\ a = u + (a % n) /\ a % n \in 0 .. n - 1
    BY Quotient
  <1>2. PICK u \in Int : u = n * q /\ a = u + (a % n) /\ a % n \in 0 .. n - 1
    BY <1>1
  <1>3. PICK p \in Int : \E v \in Int : v = n * p /\ b = v + (b % n) /\ b % n \in 0 .. n - 1
    BY Quotient
  <1>4. PICK v \in Int : v = n * p /\ b = v + (b % n) /\ b % n \in 0 .. n - 1
    BY <1>3
  <1> DEFINE x == a % n
             y == b % n
  <1>5. x \in Int /\ y \in Int /\ a = u + x /\ b = v + y
    BY <1>2, <1>4
  <1> HIDE DEF x, y
  <1>6. n * (q - p) = u - v
    <2>1. n * (q - p) = n * q - n * p
      OBVIOUS
    <2>2. QED
      BY <1>2, <1>4, <2>1
  <1>7. PICK k \in Int : k = q - p /\ n * k = u - v
    BY <1>6
  <1>8. (a + b) - (x + b) = n * q /\ (a - b) - (x - y) = n * k
    BY <1>2, <1>5, <1>7
  <1>9. /\ x + b \in Int /\ a + b \in Int /\ x - y \in Int /\ a - b \in Int
    BY <1>5
  <1>10. (a + b) % n = (x + b) % n
    BY <1>8, <1>9, Congruent
  <1>11. (a - b) % n = (x - y) % n
    BY <1>8, <1>9, Congruent
  <1>12. QED
    BY <1>10, <1>11 DEF x, y

\* A number smaller than n is its own remainder, and one too small by n wraps.
LEMMA SmallRemainder ==
  ASSUME NEW n \in Nat \ {0}, NEW d \in Int, d < n, d >= -n
  PROVE  d % n = IF d >= 0 THEN d ELSE d + n
  <1>1. PICK q \in Int : \E u \in Int : u = n * q /\ d = u + (d % n) /\ d % n \in 0 .. n - 1
    BY Quotient
  <1>2. PICK u \in Int : u = n * q /\ d = u + (d % n) /\ d % n \in 0 .. n - 1
    BY <1>1
  <1> DEFINE r == d % n
  <1>3. r \in 0 .. n - 1 /\ d = u + r
    BY <1>2
  <1> HIDE DEF r
  <1>4. CASE q = 0
    <2>1. u = 0
      BY <1>2, <1>4
    <2>2. QED
      BY <1>3, <2>1 DEF r
  <1>5. CASE q = -1
    <2>1. u = -n
      BY <1>2, <1>5
    <2>2. QED
      BY <1>3, <2>1 DEF r
  <1>6. CASE q >= 1
    <2>1. n * q >= n
      BY <1>6
    <2>2. QED
      BY <1>2, <1>3, <2>1
  <1>7. CASE q <= -2
    <2>1. n * q <= n * (-2)
      BY <1>7
    <2>2. n * (-2) = -n - n
      OBVIOUS
    <2>3. QED
      BY <1>2, <1>3, <2>1, <2>2
  <1>8. QED
    BY <1>4, <1>5, <1>6, <1>7

\* The least of some numbers.
LEMMA Least ==
    ASSUME NEW T \in SUBSET Nat, T # {}
    PROVE  \E x \in T : \A y \in T : x <= y
<1> DEFINE R == {p \in Nat \X Nat : p[1] < p[2]}
<1>1. IsWellFoundedOn(R, Nat)
  BY NatLessThanWellFounded, Zenon DEF OpToRel
<1>2. \A x, y \in Nat : y < x => <<y, x>> \in R
  OBVIOUS
<1> HIDE DEF R
<1>3. PICK x \in T : \A y \in T : ~(<<y, x>> \in R)
  BY <1>1, WFMin, Zenon
<1>4. \A y \in T : ~(y < x)
  BY <1>2, <1>3
<1>5. QED
  BY <1>3, <1>4

-----------------------------------------------------------------------------
(* Lists. *)

\* What ToSet and IsInjective say of a sequence, by its indices.
LEMMA Indices ==
    ASSUME NEW S, NEW s \in Seq(S)
    PROVE  /\ Len(s) \in Nat
           /\ \A i \in 1 .. Len(s) : s[i] \in S /\ s[i] \in ToSet(s)
           /\ \A x \in ToSet(s) : \E i \in 1 .. Len(s) : x = s[i]
           /\ IsInjective(s) <=>
                \A i \in 1 .. Len(s), j \in 1 .. Len(s) : s[i] = s[j] => i = j
<1>1. Len(s) \in Nat /\ DOMAIN s = 1 .. Len(s) /\ \A i \in 1 .. Len(s) : s[i] \in S
  BY LenProperties, ElementOfSeq
<1>2. QED
  BY <1>1 DEF ToSet, IsInjective

\* The list new is list with e at p.
Gains(S, new, list, e, p) ==
    /\ new \in Seq(S) /\ Len(new) = Len(list) + 1
    /\ \A i \in 1 .. Len(list) + 1 :
         new[i] = IF i < p THEN list[i] ELSE IF i = p THEN e ELSE list[i - 1]

LEMMA ListWith ==
    ASSUME NEW S, NEW list \in Seq(S), NEW new, NEW e \in S,
           NEW p \in 1 .. Len(list) + 1, Gains(S, new, list, e, p)
    PROVE  /\ ToSet(new) = ToSet(list) \union {e}
           /\ IsInjective(list) /\ e \notin ToSet(list) => IsInjective(new)
<1>0. /\ new \in Seq(S) /\ Len(new) = Len(list) + 1
      /\ \A i \in 1 .. Len(list) + 1 :
           new[i] = IF i < p THEN list[i] ELSE IF i = p THEN e ELSE list[i - 1]
  BY DEF Gains
<1>1. Len(list) \in Nat
  BY LenProperties
<1>2. ASSUME NEW x \in ToSet(new)
      PROVE  x \in ToSet(list) \union {e}
  <2>1. PICK i \in 1 .. Len(list) + 1 : x = new[i]
    BY <1>0, Indices
  <2>2. \/ i \in 1 .. Len(list) /\ new[i] = list[i]
        \/ new[i] = e
        \/ i - 1 \in 1 .. Len(list) /\ new[i] = list[i - 1]
    BY <1>0, <1>1
  <2>3. QED
    BY <1>0, <2>1, <2>2, Indices
<1>3. ASSUME NEW x \in ToSet(list)
      PROVE  x \in ToSet(new)
  <2>1. PICK i \in 1 .. Len(list) : x = list[i]
    BY Indices
  <2>2. \/ i \in 1 .. Len(new) /\ new[i] = list[i]
        \/ i + 1 \in 1 .. Len(new) /\ new[i + 1] = list[i]
    BY <1>0, <1>1
  <2>3. QED
    BY <1>0, <2>1, <2>2, Indices
<1>4. e \in ToSet(new)
  <2>1. p \in 1 .. Len(new) /\ new[p] = e
    BY <1>0, <1>1
  <2>2. QED
    BY <1>0, <2>1, Indices
<1>5. ASSUME IsInjective(list), e \notin ToSet(list)
      PROVE  IsInjective(new)
  <2>1. \A i \in 1 .. Len(list) : list[i] # e
    BY <1>5, Indices
  <2>2. \A i \in 1 .. Len(list), j \in 1 .. Len(list) : list[i] = list[j] => i = j
    BY <1>5, Indices
  <2>3. ASSUME NEW i \in 1 .. Len(new), NEW j \in 1 .. Len(new), new[i] = new[j]
        PROVE  i = j
    <3>1. i \in 1 .. Len(list) + 1 /\ j \in 1 .. Len(list) + 1
      BY <1>0, <2>3
    <3>2. CASE i = p \/ j = p
      <4>1. ASSUME NEW k \in 1 .. Len(list) + 1, k # p
            PROVE  new[k] # e
        <5>1. \/ k \in 1 .. Len(list) /\ new[k] = list[k]
              \/ k - 1 \in 1 .. Len(list) /\ new[k] = list[k - 1]
          BY <1>0, <1>1, <4>1
        <5>2. QED
          BY <2>1, <5>1
      <4>2. new[p] = e
        BY <1>0, <1>1
      <4>3. CASE i = p
        BY <2>3, <3>1, <4>1, <4>2, <4>3
      <4>4. CASE j = p
        BY <2>3, <3>1, <4>1, <4>2, <4>4
      <4>5. QED
        BY <3>2, <4>3, <4>4
    <3>3. CASE i # p /\ j # p
      <4> DEFINE at(k) == IF k < p THEN k ELSE k - 1
      <4>1. /\ at(i) \in 1 .. Len(list) /\ at(j) \in 1 .. Len(list)
            /\ new[i] = list[at(i)] /\ new[j] = list[at(j)]
        BY <1>0, <1>1, <3>1, <3>3
      <4>2. at(i) = at(j)
        BY <2>2, <2>3, <4>1
      <4>3. QED
        BY <1>0, <1>1, <3>1, <3>3, <4>2
    <3>4. QED
      BY <3>2, <3>3
  <2>4. QED
    BY <1>0, <2>3, Indices
<1>6. QED
  BY <1>2, <1>3, <1>4, <1>5

\* InsertAt adds one element to a list.
LEMMA Inserted ==
    ASSUME NEW S, NEW list \in Seq(S), NEW e \in S, NEW p \in 1 .. Len(list) + 1
    PROVE  Gains(S, InsertAt(list, p, e), list, e, p)
<1> DEFINE front == SubSeq(list, 1, p - 1)
           back  == SubSeq(list, p, Len(list))
<1>1. Len(list) \in Nat /\ \A i \in 1 .. Len(list) : list[i] \in S
  BY LenProperties, ElementOfSeq
<1>2. /\ front \in Seq(S) /\ Len(front) = p - 1
      /\ \A i \in 1 .. p - 1 : front[i] = list[i]
  BY <1>1, SubSeqProperties
<1>3. /\ back \in Seq(S) /\ Len(back) = Len(list) - p + 1
      /\ \A i \in 1 .. Len(list) - p + 1 : back[i] = list[p + i - 1]
  <2>1. p \in Int /\ Len(list) \in Int /\ \A i \in p .. Len(list) : list[i] \in S
    BY <1>1
  <2>2. /\ back \in Seq(S)
        /\ Len(back) = IF p <= Len(list) THEN Len(list) - p + 1 ELSE 0
        /\ \A i \in 1 .. Len(list) - p + 1 : back[i] = list[p + i - 1]
    BY <2>1, SubSeqProperties
  <2>3. QED
    BY <1>1, <2>2
<1>4. <<e>> \in Seq(S) /\ Len(<<e>>) = 1 /\ <<e>>[1] = e
  OBVIOUS
<1> HIDE DEF front, back
<1>5. /\ front \o <<e>> \in Seq(S) /\ Len(front \o <<e>>) = p
      /\ \A i \in 1 .. p : (front \o <<e>>)[i] = IF i < p THEN list[i] ELSE e
  <2>1. /\ front \o <<e>> \in Seq(S) /\ Len(front \o <<e>>) = Len(front) + Len(<<e>>)
        /\ \A i \in 1 .. Len(front) + Len(<<e>>) :
             (front \o <<e>>)[i] = IF i <= Len(front) THEN front[i]
                                   ELSE <<e>>[i - Len(front)]
    BY <1>2, <1>4, ConcatProperties
  <2>2. QED
    BY <1>2, <1>4, <2>1
<1>6. /\ (front \o <<e>>) \o back \in Seq(S)
      /\ Len((front \o <<e>>) \o back) = Len(list) + 1
      /\ \A i \in 1 .. Len(list) + 1 :
           ((front \o <<e>>) \o back)[i]
             = IF i <= p THEN (front \o <<e>>)[i] ELSE back[i - p]
  <2> DEFINE start == front \o <<e>>
  <2>1. start \in Seq(S) /\ Len(start) = p
    BY <1>5
  <2> HIDE DEF start
  <2>2. /\ start \o back \in Seq(S) /\ Len(start \o back) = p + Len(back)
        /\ \A i \in 1 .. p + Len(back) :
             (start \o back)[i] = IF i <= p THEN start[i] ELSE back[i - p]
    BY <1>3, <2>1, ConcatProperties
  <2>3. p + Len(back) = Len(list) + 1
    BY <1>1, <1>3
  <2>4. QED
    BY <2>2, <2>3 DEF start
<1>7. InsertAt(list, p, e) = (front \o <<e>>) \o back
  BY DEF InsertAt, front, back
<1>8. ASSUME NEW i \in 1 .. Len(list) + 1
      PROVE  InsertAt(list, p, e)[i]
               = IF i < p THEN list[i] ELSE IF i = p THEN e ELSE list[i - 1]
  <2>1. CASE i <= p
    BY <1>1, <1>5, <1>6, <1>7, <2>1
  <2>2. CASE i > p
    <3>1. i - p \in 1 .. Len(list) - p + 1 /\ p + (i - p) - 1 = i - 1
      BY <1>1, <2>2
    <3>2. back[i - p] = list[i - 1]
      BY <1>3, <3>1
    <3>3. QED
      BY <1>6, <1>7, <2>2, <3>2
  <2>3. QED
    BY <1>1, <2>1, <2>2
<1>9. QED
  BY <1>6, <1>7, <1>8 DEF Gains

\* Append adds it at the end.
LEMMA GainsAtTheEnd ==
    ASSUME NEW S, NEW list \in Seq(S), NEW e \in S
    PROVE  /\ Len(list) + 1 \in 1 .. Len(list) + 1
           /\ Gains(S, Append(list, e), list, e, Len(list) + 1)
<1>1. Len(list) \in Nat
  BY LenProperties
<1>2. /\ Append(list, e) \in Seq(S) /\ Len(Append(list, e)) = Len(list) + 1
      /\ \A i \in 1 .. Len(list) : Append(list, e)[i] = list[i]
      /\ Append(list, e)[Len(list) + 1] = e
  BY AppendProperties
<1>3. \A i \in 1 .. Len(list) + 1 :
        \/ i \in 1 .. Len(list) /\ i < Len(list) + 1
        \/ i = Len(list) + 1 /\ ~(i < Len(list) + 1)
  BY <1>1
<1>4. QED
  BY <1>1, <1>2, <1>3 DEF Gains

\* RemoveAt closes the gap that the element leaves.
LEMMA Removed ==
    ASSUME NEW S, NEW list \in Seq(S), NEW p \in 1 .. Len(list)
    PROVE  /\ RemoveAt(list, p) \in Seq(S) /\ Len(RemoveAt(list, p)) = Len(list) - 1
           /\ \A i \in 1 .. Len(list) - 1 :
                RemoveAt(list, p)[i] = IF i < p THEN list[i] ELSE list[i + 1]
<1>1. Len(list) \in Nat /\ \A i \in 1 .. Len(list) : list[i] \in S
  BY LenProperties, ElementOfSeq
<1> DEFINE front == SubSeq(list, 1, p - 1)
           back  == SubSeq(list, p + 1, Len(list))
           new   == front \o back
<1>2. /\ front \in Seq(S) /\ Len(front) = p - 1
      /\ \A i \in 1 .. p - 1 : front[i] = list[i]
  BY <1>1, SubSeqProperties
<1>3. /\ back \in Seq(S) /\ Len(back) = Len(list) - p
      /\ \A i \in 1 .. Len(list) - p : back[i] = list[p + i]
  <2>1. p + 1 \in Int /\ Len(list) \in Int /\ \A i \in p + 1 .. Len(list) : list[i] \in S
    BY <1>1
  <2>2. /\ back \in Seq(S)
        /\ Len(back) = IF p + 1 <= Len(list) THEN Len(list) - (p + 1) + 1 ELSE 0
        /\ \A i \in 1 .. Len(list) - (p + 1) + 1 : back[i] = list[p + 1 + i - 1]
    BY <2>1, SubSeqProperties
  <2>3. QED
    BY <1>1, <2>2
<1> HIDE DEF front, back
<1>4. /\ new \in Seq(S) /\ Len(new) = Len(list) - 1
      /\ \A i \in 1 .. Len(list) - 1 : new[i] = IF i < p THEN list[i] ELSE list[i + 1]
  <2>1. /\ new \in Seq(S) /\ Len(new) = Len(front) + Len(back)
        /\ \A i \in 1 .. Len(front) + Len(back) :
             new[i] = IF i <= Len(front) THEN front[i] ELSE back[i - Len(front)]
    BY <1>2, <1>3, ConcatProperties
  <2>2. ASSUME NEW i \in 1 .. Len(list) - 1, i >= p
        PROVE  new[i] = list[i + 1]
    <3>1. i - (p - 1) \in 1 .. Len(list) - p /\ p + (i - (p - 1)) = i + 1
      BY <1>1, <2>2
    <3>2. back[i - (p - 1)] = list[i + 1]
      BY <1>3, <3>1
    <3>3. i \in 1 .. Len(front) + Len(back) /\ ~(i <= Len(front))
      BY <1>1, <1>2, <1>3, <2>2
    <3>4. new[i] = back[i - Len(front)]
      BY <2>1, <3>3
    <3>5. QED
      BY <1>2, <3>2, <3>4
  <2>3. QED
    BY <1>1, <1>2, <1>3, <2>1, <2>2
<1>5. QED
  BY <1>4 DEF RemoveAt, new, front, back

\* uxListRemove takes one element off a list, if it is there.
LEMMA RemoveSound ==
    ASSUME NEW S, NEW list \in Seq(S), NEW e, IsInjective(list)
    PROVE  /\ RemoveFirst(list, e) \in Seq(S)
           /\ ToSet(RemoveFirst(list, e)) = ToSet(list) \ {e}
           /\ IsInjective(RemoveFirst(list, e))
<1>1. /\ Len(list) \in Nat
      /\ \A i \in 1 .. Len(list) : list[i] \in S /\ list[i] \in ToSet(list)
      /\ \A i \in 1 .. Len(list), j \in 1 .. Len(list) : list[i] = list[j] => i = j
  BY Indices
<1>2. CASE ~ \E i \in 1 .. Len(list) : list[i] = e
  <2>1. RemoveFirst(list, e) = list
    BY <1>2 DEF RemoveFirst
  <2>2. e \notin ToSet(list)
    BY <1>2, Indices
  <2>3. QED
    BY <2>1, <2>2
<1>3. CASE \E i \in 1 .. Len(list) : list[i] = e
  <2> DEFINE I == {i \in 1 .. Len(list) : list[i] = e}
             p == Min(I)
  <2>1. I \in SUBSET Nat /\ I # {}
    BY <1>1, <1>3
  <2>2. p \in I
    BY <2>1, Least DEF Min
  <2>3. RemoveFirst(list, e) = RemoveAt(list, p)
    BY <1>3, <2>1 DEF RemoveFirst, SelectInSeq
  <2>4. p \in 1 .. Len(list) /\ list[p] = e
    BY <2>2
  <2> HIDE DEF I, p
  <2> DEFINE new == RemoveAt(list, p)
  <2>7. /\ new \in Seq(S) /\ Len(new) = Len(list) - 1
        /\ \A i \in 1 .. Len(list) - 1 : new[i] = IF i < p THEN list[i] ELSE list[i + 1]
    BY <2>4, Removed
  <2> HIDE DEF new
  <2>8. ASSUME NEW x \in ToSet(new)
        PROVE  x \in ToSet(list) \ {e}
    <3>1. PICK i \in 1 .. Len(list) - 1 : x = new[i]
      BY <2>7, Indices
    <3>2. \E j \in 1 .. Len(list) : x = list[j] /\ j # p
      BY <1>1, <2>4, <2>7, <3>1
    <3>3. QED
      BY <1>1, <2>4, <3>2
  <2>9. ASSUME NEW x \in ToSet(list), x # e
        PROVE  x \in ToSet(new)
    <3>1. PICK i \in 1 .. Len(list) : x = list[i]
      BY Indices
    <3>2. CASE i < p
      <4>1. i \in 1 .. Len(new) /\ new[i] = x
        BY <1>1, <2>4, <2>7, <3>1, <3>2
      <4>2. QED
        BY <2>7, <4>1, Indices
    <3>3. CASE i > p
      <4>1. i - 1 \in 1 .. Len(list) - 1 /\ ~(i - 1 < p) /\ (i - 1) + 1 = i
        BY <1>1, <2>4, <3>3
      <4>2. i - 1 \in 1 .. Len(new) /\ new[i - 1] = x
        BY <2>7, <3>1, <4>1
      <4>3. QED
        BY <2>7, <4>2, Indices
    <3>4. QED
      BY <2>4, <2>9, <3>1, <3>2, <3>3
  <2>10. IsInjective(new)
    <3>1. ASSUME NEW i \in 1 .. Len(new), NEW j \in 1 .. Len(new), new[i] = new[j]
          PROVE  i = j
      <4>1. PICK k \in 1 .. Len(list) : new[i] = list[k] /\ k = IF i < p THEN i ELSE i + 1
        BY <1>1, <2>4, <2>7
      <4>2. PICK m \in 1 .. Len(list) : new[j] = list[m] /\ m = IF j < p THEN j ELSE j + 1
        BY <1>1, <2>4, <2>7
      <4>3. k = m
        BY <1>1, <3>1, <4>1, <4>2
      <4>4. p \in Int /\ i \in Int /\ j \in Int
        BY <1>1, <2>4, <2>7
      <4>5. QED
        BY <4>1, <4>2, <4>3, <4>4
    <3>2. QED
      BY <2>7, <3>1, Indices
  <2>11. QED
    BY <2>3, <2>7, <2>8, <2>9, <2>10 DEF new
<1>4. QED
  BY <1>2, <1>3

\* The others keep their order.
LEMMA RemoveInOrder ==
    ASSUME NEW S, NEW list \in Seq(S), NEW e,
           NEW i \in 1 .. Len(RemoveFirst(list, e)), NEW j \in 1 .. Len(RemoveFirst(list, e)),
           i < j
    PROVE  \E k, l \in 1 .. Len(list) :
             k < l /\ RemoveFirst(list, e)[i] = list[k] /\ RemoveFirst(list, e)[j] = list[l]
<1>1. Len(list) \in Nat
  BY LenProperties
<1>2. CASE ~ \E n \in 1 .. Len(list) : list[n] = e
  <2>1. RemoveFirst(list, e) = list
    BY <1>2 DEF RemoveFirst
  <2>2. QED
    BY <2>1
<1>3. CASE \E n \in 1 .. Len(list) : list[n] = e
  <2> DEFINE I == {n \in 1 .. Len(list) : list[n] = e}
             p == Min(I)
             new == RemoveAt(list, p)
  <2>1. I \in SUBSET Nat /\ I # {}
    BY <1>1, <1>3
  <2>2. p \in I
    BY <2>1, Least DEF Min
  <2>3. RemoveFirst(list, e) = new
    BY <1>3, <2>1 DEF RemoveFirst, SelectInSeq
  <2>4. p \in 1 .. Len(list)
    BY <2>2
  <2> HIDE DEF I, p
  <2>5. /\ Len(new) = Len(list) - 1
        /\ \A n \in 1 .. Len(list) - 1 : new[n] = IF n < p THEN list[n] ELSE list[n + 1]
    BY <2>4, Removed
  <2>6. i \in 1 .. Len(list) - 1 /\ j \in 1 .. Len(list) - 1
    BY <2>3, <2>5
  <2> HIDE DEF new
  <2>7. PICK k \in 1 .. Len(list) : new[i] = list[k] /\ k = IF i < p THEN i ELSE i + 1
    BY <1>1, <2>4, <2>5, <2>6
  <2>8. PICK l \in 1 .. Len(list) : new[j] = list[l] /\ l = IF j < p THEN j ELSE j + 1
    BY <1>1, <2>4, <2>5, <2>6
  <2>9. k < l
    BY <1>1, <2>4, <2>6, <2>7, <2>8
  <2>10. QED
    BY <2>3, <2>7, <2>8, <2>9
<1>4. QED
  BY <1>2, <1>3

\* Who is among the first n of a list, and who is left on it.
LEMMA DropSound ==
    ASSUME NEW S, NEW list \in Seq(S), NEW n \in Nat, IsInjective(list)
    PROVE  LET first == ToSet(SubSeq(list, 1, IF n < Len(list) THEN n ELSE Len(list)))
               rest  == SubSeq(list, n + 1, Len(list))
           IN  /\ rest \in Seq(S) /\ IsInjective(rest)
               /\ ToSet(rest) = ToSet(list) \ first
               /\ first \subseteq ToSet(list)
<1> DEFINE m == IF n < Len(list) THEN n ELSE Len(list)
           first == SubSeq(list, 1, m)
           rest  == SubSeq(list, n + 1, Len(list))
<1>1. /\ Len(list) \in Nat
      /\ \A i \in 1 .. Len(list) : list[i] \in S /\ list[i] \in ToSet(list)
      /\ \A i \in 1 .. Len(list), j \in 1 .. Len(list) : list[i] = list[j] => i = j
  BY Indices
<1>2. m \in 0 .. Len(list) /\ (n < Len(list) => m = n) /\ (n >= Len(list) => m = Len(list))
  BY <1>1
<1> HIDE DEF m
<1>3. /\ first \in Seq(S) /\ Len(first) = m
      /\ \A i \in 1 .. m : first[i] = list[i]
  <2>1. m \in Int /\ \A i \in 1 .. m : list[i] \in S
    BY <1>1, <1>2
  <2>2. /\ first \in Seq(S) /\ Len(first) = IF 1 <= m THEN m - 1 + 1 ELSE 0
        /\ \A i \in 1 .. m - 1 + 1 : first[i] = list[1 + i - 1]
    BY <2>1, SubSeqProperties
  <2>3. QED
    BY <1>2, <2>2
<1>4. /\ rest \in Seq(S) /\ Len(rest) = Len(list) - m
      /\ \A i \in 1 .. Len(list) - m : rest[i] = list[m + i]
  <2>1. n + 1 \in Int /\ Len(list) \in Int /\ \A i \in n + 1 .. Len(list) : list[i] \in S
    BY <1>1
  <2>2. /\ rest \in Seq(S)
        /\ Len(rest) = IF n + 1 <= Len(list) THEN Len(list) - (n + 1) + 1 ELSE 0
        /\ \A i \in 1 .. Len(list) - (n + 1) + 1 : rest[i] = list[n + 1 + i - 1]
    BY <2>1, SubSeqProperties
  <2>3. QED
    BY <1>1, <1>2, <2>2
<1> HIDE DEF first, rest
<1>5. ASSUME NEW x \in ToSet(first)
      PROVE  x \in ToSet(list)
  <2>1. PICK i \in 1 .. m : x = first[i]
    BY <1>3, Indices
  <2>2. QED
    BY <1>1, <1>2, <1>3, <2>1
<1>6. ASSUME NEW x \in ToSet(rest)
      PROVE  x \in ToSet(list) /\ x \notin ToSet(first)
  <2>1. PICK i \in 1 .. Len(list) - m : x = rest[i]
    BY <1>4, Indices
  <2>2. x = list[m + i] /\ m + i \in 1 .. Len(list)
    BY <1>1, <1>2, <1>4, <2>1
  <2>3. ASSUME x \in ToSet(first)
        PROVE  FALSE
    <3>1. PICK j \in 1 .. m : x = first[j]
      BY <1>3, <2>3, Indices
    <3>2. j \in 1 .. Len(list) /\ x = list[j]
      BY <1>2, <1>3, <3>1
    <3>3. j = m + i
      BY <1>1, <2>2, <3>2
    <3>4. QED
      BY <1>2, <2>1, <3>1, <3>3
  <2>4. QED
    BY <1>1, <2>2, <2>3
<1>7. ASSUME NEW x \in ToSet(list), x \notin ToSet(first)
      PROVE  x \in ToSet(rest)
  <2>1. PICK i \in 1 .. Len(list) : x = list[i]
    BY Indices
  <2>2. i > m
    <3>1. \A j \in 1 .. m : list[j] \in ToSet(first)
      BY <1>3, Indices
    <3>2. QED
      BY <1>2, <1>7, <2>1, <3>1
  <2>3. i - m \in 1 .. Len(list) - m /\ m + (i - m) = i
    BY <1>1, <1>2, <2>1, <2>2
  <2>4. rest[i - m] = x /\ i - m \in 1 .. Len(rest)
    BY <1>4, <2>1, <2>3
  <2>5. QED
    BY <1>4, <2>4, Indices
<1>8. IsInjective(rest)
  <2>1. ASSUME NEW i \in 1 .. Len(rest), NEW j \in 1 .. Len(rest), rest[i] = rest[j]
        PROVE  i = j
    <3>1. list[m + i] = list[m + j] /\ m + i \in 1 .. Len(list) /\ m + j \in 1 .. Len(list)
      BY <1>1, <1>2, <1>4, <2>1
    <3>2. QED
      BY <1>1, <1>2, <3>1
  <2>2. QED
    BY <1>4, <2>1, Indices
<1>9. QED
  BY <1>4, <1>5, <1>6, <1>7, <1>8 DEF m, first, rest


\* How many are among the first n of a list that nobody is on twice.
LEMMA FirstCount ==
    ASSUME NEW S, IsFiniteSet(S), NEW list \in Seq(S), IsInjective(list),
           NEW n \in Nat, n < Len(list)
    PROVE  /\ Cardinality(ToSet(SubSeq(list, 1, n))) = n
           /\ n < Cardinality(S)
<1>1. /\ Len(list) \in Nat
      /\ \A i \in 1 .. Len(list) : list[i] \in S
      /\ \A i \in 1 .. Len(list), j \in 1 .. Len(list) : list[i] = list[j] => i = j
  BY Indices
<1> DEFINE first == SubSeq(list, 1, n)
<1>2. /\ first \in Seq(S) /\ Len(first) = n
      /\ \A i \in 1 .. n : first[i] = list[i]
  <2>1. n \in Int /\ \A i \in 1 .. n : list[i] \in S
    BY <1>1
  <2>2. /\ first \in Seq(S) /\ Len(first) = IF 1 <= n THEN n - 1 + 1 ELSE 0
        /\ \A i \in 1 .. n - 1 + 1 : first[i] = list[1 + i - 1]
    BY <2>1, SubSeqProperties
  <2>3. QED
    BY <2>2
<1> HIDE DEF first
<1>3. Cardinality(ToSet(first)) = n
  <2> DEFINE f == [i \in 1 .. n |-> first[i]]
  <2>1. f \in Injection(1 .. n, ToSet(first))
    <3>1. \A i \in 1 .. n : f[i] \in ToSet(first)
      BY <1>2, Indices
    <3>2. \A i \in 1 .. n, j \in 1 .. n : f[i] = f[j] => i = j
      BY <1>1, <1>2
    <3>3. QED
      BY <3>1, <3>2 DEF Injection, IsInjective
  <2>2. f \in Surjection(1 .. n, ToSet(first))
    <3>1. \A x \in ToSet(first) : \E i \in 1 .. n : f[i] = x
      BY <1>2, Indices
    <3>2. QED
      BY <2>1, <3>1 DEF Injection, Surjection
  <2>3. IsFiniteSet(1 .. n) /\ Cardinality(1 .. n) = n
    BY FS_Interval
  <2>4. ExistsBijection(1 .. n, ToSet(first))
    BY <2>1, <2>2 DEF ExistsBijection, Bijection
  <2>5. QED
    BY <2>3, <2>4, FS_Bijection
<1>4. n < Cardinality(S)
  <2> DEFINE g == [i \in 1 .. n + 1 |-> list[i]]
  <2>1. g \in Injection(1 .. n + 1, S)
    BY <1>1 DEF Injection, IsInjective
  <2>2. Cardinality(1 .. n + 1) = n + 1
    BY FS_Interval
  <2>3. n + 1 <= Cardinality(S) /\ Cardinality(S) \in Nat
    BY <2>1, <2>2, FS_Injection, FS_CardinalityType
  <2>4. QED
    BY <2>3
<1>5. QED
  BY <1>3, <1>4 DEF first

=============================================================================
