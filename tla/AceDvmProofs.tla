----------------------------- MODULE AceDvmProofs -----------------------------
(***************************************************************************)
(* Proofs about AceDvm, for every set of masters and any number of Syncs:  *)
(* as long as no tracker is given to a second thread, every Complete       *)
(* counts once and every Sync ends with one; masters that take turns never *)
(* see a tracker given away twice.                                         *)
(***************************************************************************)
EXTENDS AceDvm, FiniteSetTheorems, SequenceTheorems, TLAPS

-----------------------------------------------------------------------------
(* Sequences: std::list::remove, Append, RemoveAt.                         *)

NoDuplicates(s) == \A i, j \in DOMAIN s : s[i] = s[j] => i = j

LEMMA Least ==
  ASSUME NEW T, T \subseteq Nat, T # {}
  PROVE  \E x \in T : \A y \in T : x <= y
<1> DEFINE R == OpToRel(<, Nat)
<1>1. IsWellFoundedOn(R, Nat)
  BY NatLessThanWellFounded
<1>2. \A x, y \in Nat : <<x, y>> \in R <=> x < y
  BY DEF OpToRel
<1> HIDE DEF R
<1>3. PICK x \in T : \A y \in T : ~(<<y, x>> \in R)
  BY <1>1, WFMin
<1>4. \A y \in T : x \in Nat /\ y \in Nat /\ ~(y < x)
  BY <1>2, <1>3
<1> QED
  BY <1>4

(* What is in a sequence after Append, and where.                          *)
LEMMA Appended ==
  ASSUME NEW S, NEW s \in Seq(S), NEW e \in S
  PROVE  /\ Append(s, e) \in Seq(S) /\ Len(s) \in Nat
         /\ DOMAIN s = 1 .. Len(s)
         /\ DOMAIN Append(s, e) = (1 .. Len(s)) \cup {Len(s) + 1}
         /\ \A i \in 1 .. Len(s) : Append(s, e)[i] = s[i]
         /\ Append(s, e)[Len(s) + 1] = e
         /\ ToSet(Append(s, e)) = ToSet(s) \cup {e}
<1>1. /\ Append(s, e) \in Seq(S) /\ Len(s) \in Nat
      /\ Len(Append(s, e)) = Len(s) + 1
      /\ \A i \in 1 .. Len(s) : Append(s, e)[i] = s[i]
      /\ Append(s, e)[Len(s) + 1] = e
      /\ DOMAIN s = 1 .. Len(s)
  BY AppendProperties, LenProperties
<1>2. DOMAIN Append(s, e) = 1 .. Len(s) + 1
  BY <1>1, LenProperties
<1>3. DOMAIN Append(s, e) = (1 .. Len(s)) \cup {Len(s) + 1}
  BY <1>1, <1>2
<1> HIDE <1>2
<1>4. ToSet(Append(s, e)) = ToSet(s) \cup {e}
  BY <1>1, <1>3 DEF ToSet
<1> QED
  BY <1>1, <1>3, <1>4

(* What Without computes: g[n] is what remains of the first n elements.    *)
Rest(list, p, g, n) ==
  IF n = 0 THEN <<>>
  ELSE IF list[n] = p THEN g[n - 1] ELSE Append(g[n - 1], list[n])

Solves(list, p, g, k) ==
  /\ g = [n \in 0 .. Len(list) |-> g[n]]
  /\ \A n \in 0 .. k : n <= Len(list) => g[n] = Rest(list, p, g, n)

LEMMA SolutionGrows ==
  ASSUME NEW list \in Seq(Masters), NEW p, NEW k \in Nat, NEW g,
         Solves(list, p, g, k)
  PROVE  \E h : Solves(list, p, h, k + 1)
<1>1. Len(list) \in Nat
  OBVIOUS
<1> DEFINE h == [n \in 0 .. Len(list) |->
                   IF n = k + 1 THEN Rest(list, p, g, n) ELSE g[n]]
<1>2. \A n \in 0 .. Len(list) :
        h[n] = IF n = k + 1 THEN Rest(list, p, g, n) ELSE g[n]
  OBVIOUS
<1>3. h = [n \in 0 .. Len(list) |-> h[n]]
  OBVIOUS
<1> HIDE DEF h
<1>4. ASSUME NEW n \in 0 .. k + 1, n <= Len(list)
      PROVE  h[n] = Rest(list, p, h, n)
  <2>1. n \in 0 .. Len(list)
    BY <1>1, <1>4
  <2>2. h[n] = Rest(list, p, g, n)
    <3>1. CASE n = k + 1
      BY <1>2, <2>1, <3>1
    <3>2. CASE n # k + 1
      <4>1. n \in 0 .. k
        BY <3>2, <1>4
      <4> QED
        BY <1>2, <2>1, <3>2, <4>1, <1>4 DEF Solves
    <3> QED
      BY <3>1, <3>2
  <2>3. CASE n = 0
    BY <2>2, <2>3 DEF Rest
  <2>4. CASE n # 0
    <3>1. n - 1 \in 0 .. Len(list) /\ n - 1 # k + 1
      BY <2>1, <2>4, <1>1, <1>4
    <3>2. h[n - 1] = g[n - 1]
      BY <1>2, <3>1
    <3> QED
      BY <2>2, <2>4, <3>2 DEF Rest
  <2> QED
    BY <2>3, <2>4
<1>5. Solves(list, p, h, k + 1)
  BY <1>3, <1>4 DEF Solves
<1> QED
  BY <1>5

LEMMA SolutionExists ==
  ASSUME NEW list \in Seq(Masters), NEW p
  PROVE  \A k \in Nat : \E g : Solves(list, p, g, k)
<1> DEFINE T == {k \in Nat : ~ \E g : Solves(list, p, g, k)}
<1>1. SUFFICES ASSUME T # {} PROVE FALSE
  OBVIOUS
<1>2. PICK k \in T : \A l \in T : k <= l
  BY <1>1, Least
<1>3. k # 0
  <2> DEFINE g == [n \in 0 .. Len(list) |-> <<>>]
  <2>1. g = [n \in 0 .. Len(list) |-> g[n]]
    OBVIOUS
  <2>2. g[0] = <<>>
    BY Len(list) \in Nat
  <2> HIDE DEF g
  <2>3. Solves(list, p, g, 0)
    BY <2>1, <2>2 DEF Solves, Rest
  <2> QED
    BY <2>3
<1>4. k - 1 \in Nat /\ ~(k <= k - 1) /\ (k - 1) + 1 = k
  BY <1>3
<1>5. PICK g : Solves(list, p, g, k - 1)
  BY <1>2, <1>4
<1>6. \E h : Solves(list, p, h, (k - 1) + 1)
  BY <1>4, <1>5, SolutionGrows
<1> QED
  BY <1>4, <1>6

LEMMA WithoutUnrolls ==
  ASSUME NEW list \in Seq(Masters), NEW p
  PROVE  \E g : /\ Without(list, p) = g[Len(list)]
                /\ \A n \in 0 .. Len(list) : g[n] = Rest(list, p, g, n)
<1> DEFINE Is(g) == g = [n \in 0 .. Len(list) |->
                          IF n = 0 THEN <<>>
                          ELSE IF list[n] = p THEN g[n - 1]
                          ELSE Append(g[n - 1], list[n])]
           rest == CHOOSE g : Is(g)
<1>1. Without(list, p) = rest[Len(list)]
  BY DEF Without
<1>2. \E g : Is(g)
  <2>1. PICK g : Solves(list, p, g, Len(list))
    BY SolutionExists, Len(list) \in Nat
  <2>2. \A n \in 0 .. Len(list) : g[n] = Rest(list, p, g, n)
    BY <2>1, Len(list) \in Nat DEF Solves
  <2>3. g = [n \in 0 .. Len(list) |-> g[n]]
    BY <2>1 DEF Solves
  <2>4. g = [n \in 0 .. Len(list) |-> Rest(list, p, g, n)]
    BY <2>2, <2>3
  <2> QED
    BY <2>4 DEF Rest
<1>3. Is(rest)
  BY <1>2
<1>4. \A n \in 0 .. Len(list) : rest[n] = Rest(list, p, rest, n)
  BY <1>3 DEF Rest
<1> QED
  BY <1>1, <1>4

LEMMA WithoutType ==
  ASSUME NEW list \in Seq(Masters), NEW p
  PROVE  Without(list, p) \in Seq(Masters)
<1>1. PICK g : /\ Without(list, p) = g[Len(list)]
               /\ \A n \in 0 .. Len(list) : g[n] = Rest(list, p, g, n)
  BY WithoutUnrolls
<1>2. Len(list) \in Nat /\ DOMAIN list = 1 .. Len(list)
  OBVIOUS
<1> DEFINE Good(n) == g[n] \in Seq(Masters)
           T == {n \in 0 .. Len(list) : ~Good(n)}
<1>3. T = {}
  <2> SUFFICES ASSUME T # {} PROVE FALSE
    OBVIOUS
  <2>1. PICK n \in T : \A l \in T : n <= l
    <3>1. T \subseteq Nat
      OBVIOUS
    <3> QED
      BY <3>1, Least
  <2>2. n # 0
    <3>1. g[0] = <<>>
      BY <1>1, <1>2 DEF Rest
    <3>2. Good(0)
      BY <3>1
    <3> QED
      BY <2>1, <3>2
  <2>3. /\ n \in 1 .. Len(list) /\ n - 1 \in 0 .. Len(list)
        /\ ~(n <= n - 1)
    BY <2>1, <2>2
  <2>4. Good(n - 1) /\ list[n] \in Masters
    BY <2>1, <2>3, <1>2
  <2>5. g[n] = g[n - 1] \/ g[n] = Append(g[n - 1], list[n])
    BY <1>1, <2>2, <2>3 DEF Rest
  <2>6. Good(n)
    <3>1. Append(g[n - 1], list[n]) \in Seq(Masters)
      BY <2>4, AppendProperties
    <3> QED
      BY <2>4, <2>5, <3>1
  <2> QED
    BY <2>1, <2>6
<1> QED
  BY <1>1, <1>2, <1>3

(* std::list::remove keeps the order and the other elements.               *)
LEMMA WithoutRemoves ==
  ASSUME NEW list \in Seq(Masters), NEW p, NoDuplicates(list)
  PROVE  /\ Without(list, p) \in Seq(Masters)
         /\ NoDuplicates(Without(list, p))
         /\ ToSet(Without(list, p)) = ToSet(list) \ {p}
<1>1. PICK g : /\ Without(list, p) = g[Len(list)]
               /\ \A n \in 0 .. Len(list) : g[n] = Rest(list, p, g, n)
  BY WithoutUnrolls
<1>2. Len(list) \in Nat /\ DOMAIN list = 1 .. Len(list)
  OBVIOUS
<1> DEFINE Good(n) == /\ g[n] \in Seq(Masters) /\ NoDuplicates(g[n])
                      /\ ToSet(g[n]) = {list[i] : i \in 1 .. n} \ {p}
           T == {n \in 0 .. Len(list) : ~Good(n)}
<1>3. T = {}
  <2> SUFFICES ASSUME T # {} PROVE FALSE
    OBVIOUS
  <2>1. PICK n \in T : \A l \in T : n <= l
    <3>1. T \subseteq Nat
      OBVIOUS
    <3> QED
      BY <3>1, Least
  <2>2. n # 0
    <3>1. g[0] = <<>>
      BY <1>1, <1>2 DEF Rest
    <3>2. Good(0)
      BY <3>1 DEF NoDuplicates, ToSet
    <3> QED
      BY <2>1, <3>2
  <2>3. /\ n \in 1 .. Len(list) /\ n - 1 \in 0 .. Len(list)
        /\ ~(n <= n - 1) /\ n \in Nat
    BY <2>1, <2>2
  <2>4. Good(n - 1)
    BY <2>1, <2>3
  <2>5. {list[i] : i \in 1 .. n} = {list[i] : i \in 1 .. n - 1} \cup {list[n]}
    <3>1. 1 .. n = (1 .. n - 1) \cup {n}
      BY <2>3
    <3> QED
      BY <3>1
  <2>6. list[n] \in Masters /\ g[n] = Rest(list, p, g, n)
    BY <2>3, <1>1, <1>2
  <2>7. CASE list[n] = p
    <3>1. g[n] = g[n - 1]
      BY <2>2, <2>6, <2>7 DEF Rest
    <3>2. {list[i] : i \in 1 .. n} \ {p} = {list[i] : i \in 1 .. n - 1} \ {p}
      BY <2>5, <2>7
    <3>3. Good(n)
      BY <3>1, <3>2, <2>4
    <3> QED
      BY <3>3, <2>1
  <2>8. CASE list[n] # p
    <3> DEFINE s == g[n - 1]
    <3>1. g[n] = Append(s, list[n])
      BY <2>2, <2>6, <2>8 DEF Rest
    <3>2. /\ s \in Seq(Masters) /\ NoDuplicates(s)
          /\ ToSet(s) = {list[i] : i \in 1 .. n - 1} \ {p}
      BY <2>4
    <3>3. list[n] \notin ToSet(s)
      BY <3>2, <2>3, <1>2 DEF NoDuplicates
    <3> HIDE DEF s
    <3>4. /\ g[n] \in Seq(Masters) /\ Len(s) \in Nat
          /\ DOMAIN s = 1 .. Len(s)
          /\ DOMAIN g[n] = (1 .. Len(s)) \cup {Len(s) + 1}
          /\ \A i \in 1 .. Len(s) : g[n][i] = s[i]
          /\ g[n][Len(s) + 1] = list[n]
          /\ ToSet(g[n]) = ToSet(s) \cup {list[n]}
      <4>1. s \in Seq(Masters) /\ list[n] \in Masters
        BY <3>2, <2>6
      <4> QED
        BY ONLY <3>1, <4>1, Appended
    <3>7. ToSet(g[n]) = {list[i] : i \in 1 .. n} \ {p}
      BY <3>4, <3>2, <2>5, <2>8
    <3>9. NoDuplicates(g[n])
      BY <3>2, <3>3, <3>4 DEF NoDuplicates, ToSet
    <3>8. Good(n)
      BY <3>4, <3>7, <3>9
    <3> QED
      BY <3>8, <2>1
  <2> QED
    BY <2>7, <2>8
<1>4. Good(Len(list))
  BY <1>2, <1>3
<1>5. {list[i] : i \in 1 .. Len(list)} = ToSet(list)
  BY <1>2 DEF ToSet
<1> QED
  BY <1>1, <1>4, <1>5

LEMMA RemoveAtType ==
  ASSUME NEW s \in Seq(Masters), NEW i \in DOMAIN s
  PROVE  RemoveAt(s, i) \in Seq(Masters)
<1>1. Len(s) \in Nat /\ DOMAIN s = 1 .. Len(s) /\ i \in 1 .. Len(s)
  OBVIOUS
<1>2. /\ SubSeq(s, 1, i - 1) \in Seq(Masters)
      /\ SubSeq(s, i + 1, Len(s)) \in Seq(Masters)
  BY <1>1
<1> QED
  BY <1>2, ConcatProperties DEF RemoveAt

LEMMA RemoveAtRemoves ==
  ASSUME NEW s \in Seq(Masters), NEW i \in DOMAIN s, NoDuplicates(s)
  PROVE  /\ RemoveAt(s, i) \in Seq(Masters)
         /\ NoDuplicates(RemoveAt(s, i))
         /\ ToSet(RemoveAt(s, i)) = ToSet(s) \ {s[i]}
<1> DEFINE r == RemoveAt(s, i)
           From(k) == IF k < i THEN k ELSE k + 1
<1>1. /\ Len(s) \in Nat /\ DOMAIN s = 1 .. Len(s) /\ i \in 1 .. Len(s)
      /\ r = SubSeq(s, 1, i - 1) \o SubSeq(s, i + 1, Len(s))
  BY DEF RemoveAt
<1>2. /\ SubSeq(s, 1, i - 1) \in Seq(Masters)
      /\ Len(SubSeq(s, 1, i - 1)) = i - 1
      /\ \A k \in 1 .. i - 1 : SubSeq(s, 1, i - 1)[k] = s[k]
  BY <1>1
<1>3. /\ SubSeq(s, i + 1, Len(s)) \in Seq(Masters)
      /\ Len(SubSeq(s, i + 1, Len(s))) = Len(s) - i
      /\ \A k \in 1 .. Len(s) - i : SubSeq(s, i + 1, Len(s))[k] = s[k + i]
  BY <1>1
<1>4. /\ r \in Seq(Masters) /\ Len(r) = Len(s) - 1
      /\ \A k \in 1 .. Len(s) - 1 : r[k] = s[From(k)]
  <2> DEFINE a == SubSeq(s, 1, i - 1)
             b == SubSeq(s, i + 1, Len(s))
  <2>1. /\ a \in Seq(Masters) /\ Len(a) = i - 1 /\ b \in Seq(Masters)
        /\ Len(b) = Len(s) - i /\ r = a \o b
        /\ \A k \in 1 .. i - 1 : a[k] = s[k]
        /\ \A k \in 1 .. Len(s) - i : b[k] = s[k + i]
    BY <1>1, <1>2, <1>3
  <2> HIDE DEF a, b, r
  <2>2. /\ r \in Seq(Masters) /\ Len(r) = Len(a) + Len(b)
        /\ \A k \in 1 .. Len(a) + Len(b) :
             r[k] = IF k <= Len(a) THEN a[k] ELSE b[k - Len(a)]
    BY <2>1, ConcatProperties
  <2>3. Len(a) + Len(b) = Len(s) - 1
    BY <2>1, <1>1
  <2>4. ASSUME NEW k \in 1 .. Len(s) - 1 PROVE r[k] = s[From(k)]
    <3>1. CASE k < i
      <4>1. k \in 1 .. i - 1 /\ k <= Len(a) /\ From(k) = k
        BY <3>1, <1>1, <2>1
      <4> QED
        BY <4>1, <2>1, <2>2, <2>3
    <3>2. CASE ~(k < i)
      <4> DEFINE n == Len(s)
      <4>1. /\ Len(a) = i - 1 /\ n \in Nat /\ i \in 1 .. n /\ k \in 1 .. n - 1
            /\ ~(k < i)
        BY <1>1, <2>1, <3>2
      <4>2. From(k) = k + 1
        BY <3>2
      <4> HIDE DEF n
      <4>3. /\ k - (i - 1) \in 1 .. n - i /\ ~(k <= i - 1)
            /\ (k - (i - 1)) + i = k + 1
        BY ONLY <4>1
      <4>4. /\ k - Len(a) \in 1 .. Len(s) - i /\ ~(k <= Len(a))
            /\ (k - Len(a)) + i = k + 1 /\ From(k) = k + 1
        BY <4>1, <4>2, <4>3 DEF n
      <4>5. r[k] = b[k - Len(a)]
        BY <4>4, <2>2, <2>3
      <4> QED
        BY <4>4, <4>5, <2>1
    <3> QED
      BY <3>1, <3>2
  <2> QED
    BY <2>2, <2>3, <2>4
<1>5. DOMAIN r = 1 .. Len(s) - 1
  BY <1>4, <1>1
<1>6. \A k \in 1 .. Len(s) - 1 : From(k) \in (1 .. Len(s)) \ {i}
  BY <1>1
<1>7. \A j \in (1 .. Len(s)) \ {i} :
        \E k \in 1 .. Len(s) - 1 : From(k) = j
  <2> TAKE j \in (1 .. Len(s)) \ {i}
  <2>1. CASE j < i
    <3>1. j \in 1 .. Len(s) - 1 /\ From(j) = j
      BY <2>1, <1>1
    <3> QED
      BY <3>1
  <2>2. CASE ~(j < i)
    <3>1. j - 1 \in 1 .. Len(s) - 1 /\ From(j - 1) = j
      BY <2>2, <1>1
    <3> QED
      BY <3>1
  <2> QED
    BY <2>1, <2>2
<1>8. \A k, l \in 1 .. Len(s) - 1 : From(k) = From(l) => k = l
  BY <1>1
<1> HIDE DEF r, From
<1>9. NoDuplicates(r)
  <2> SUFFICES ASSUME NEW k \in 1 .. Len(s) - 1, NEW l \in 1 .. Len(s) - 1,
                      r[k] = r[l]
               PROVE  k = l
    BY <1>5 DEF NoDuplicates
  <2>1. s[From(k)] = s[From(l)]
    BY <1>4
  <2>2. From(k) \in DOMAIN s /\ From(l) \in DOMAIN s
    BY <1>1, <1>6
  <2>3. From(k) = From(l)
    BY <2>1, <2>2 DEF NoDuplicates
  <2> QED
    BY <2>3, <1>8
<1>10. ToSet(r) = {s[From(k)] : k \in 1 .. Len(s) - 1}
  BY <1>4, <1>5 DEF ToSet
<1>11. {s[From(k)] : k \in 1 .. Len(s) - 1} = {s[j] : j \in (1 .. Len(s)) \ {i}}
  BY <1>6, <1>7
<1>12. {s[j] : j \in (1 .. Len(s)) \ {i}} = ToSet(s) \ {s[i]}
  BY <1>1 DEF ToSet, NoDuplicates
<1> QED
  BY <1>4, <1>9, <1>10, <1>11, <1>12 DEF r

-----------------------------------------------------------------------------
(* How often a message is in the fifo.                                     *)

LEMMA PlacesFinite ==
  ASSUME NEW S, NEW s \in Seq(S), NEW x
  PROVE  /\ IsFiniteSet(Places(s, x)) /\ Cardinality(Places(s, x)) \in Nat
         /\ Places(s, x) \subseteq 1 .. Len(s)
<1>1. Places(s, x) \subseteq 1 .. Len(s)
  BY LenProperties DEF Places
<1>2. IsFiniteSet(1 .. Len(s))
  BY FS_Interval, LenProperties
<1>3. IsFiniteSet(Places(s, x))
  BY <1>1, <1>2, FS_Subset
<1> QED
  BY <1>1, <1>3, FS_CardinalityType

LEMMA PlacesAppend ==
  ASSUME NEW S, NEW s \in Seq(S), NEW e \in S, NEW x
  PROVE  Cardinality(Places(Append(s, e), x)) =
           Cardinality(Places(s, x)) + (IF e = x THEN 1 ELSE 0)
<1>1. /\ DOMAIN s = 1 .. Len(s) /\ Len(s) \in Nat
      /\ DOMAIN Append(s, e) = (1 .. Len(s)) \cup {Len(s) + 1}
      /\ \A i \in 1 .. Len(s) : Append(s, e)[i] = s[i]
      /\ Append(s, e)[Len(s) + 1] = e
  BY Appended
<1>2. CASE e = x
  <2>1. Places(Append(s, e), x) = Places(s, x) \cup {Len(s) + 1}
    BY <1>1, <1>2 DEF Places
  <2>2. Len(s) + 1 \notin Places(s, x)
    BY <1>1 DEF Places
  <2> QED
    BY <1>2, <2>1, <2>2, PlacesFinite, FS_AddElement
<1>3. CASE e # x
  <2>1. Places(Append(s, e), x) = Places(s, x)
    BY <1>1, <1>3 DEF Places
  <2> QED
    BY <1>3, <2>1, PlacesFinite
<1> QED
  BY <1>2, <1>3

LEMMA Tailed ==
  ASSUME NEW S, NEW s \in Seq(S), s # <<>>
  PROVE  /\ Tail(s) \in Seq(S) /\ Len(s) \in Nat \ {0}
         /\ Head(s) = s[1] /\ Head(s) \in S
         /\ DOMAIN s = 1 .. Len(s) /\ DOMAIN Tail(s) = 1 .. Len(s) - 1
         /\ \A i \in 1 .. Len(s) - 1 : Tail(s)[i] = s[i + 1]
  BY HeadTailProperties, LenProperties, EmptySeq

LEMMA PlacesTail ==
  ASSUME NEW S, NEW s \in Seq(S), s # <<>>, NEW x
  PROVE  Cardinality(Places(s, x)) =
           Cardinality(Places(Tail(s), x)) + (IF Head(s) = x THEN 1 ELSE 0)
<1>1. /\ Tail(s) \in Seq(S) /\ Len(s) \in Nat \ {0} /\ Head(s) = s[1]
      /\ DOMAIN s = 1 .. Len(s) /\ DOMAIN Tail(s) = 1 .. Len(s) - 1
      /\ \A i \in 1 .. Len(s) - 1 : Tail(s)[i] = s[i + 1]
  BY Tailed
<1> DEFINE P == Places(Tail(s), x)
           Q == Places(s, x) \ {1}
           f == [i \in P |-> i + 1]
<1>2. \A i : i \in P <=> i \in 1 .. Len(s) - 1 /\ s[i + 1] = x
  BY <1>1 DEF Places
<1>3. \A i : i \in Q <=> i \in 2 .. Len(s) /\ s[i] = x
  BY <1>1 DEF Places
<1> HIDE DEF P, Q
<1>4. f \in [P -> Q] /\ \A i \in P : f[i] = i + 1
  BY <1>1, <1>2, <1>3
<1>5. \A i, j \in P : f[i] = f[j] => i = j
  BY <1>2, <1>4, <1>1
<1>6. \A j \in Q : \E i \in P : f[i] = j
  <2> TAKE j \in Q
  <2>1. j - 1 \in P /\ (j - 1) + 1 = j
    BY <1>1, <1>2, <1>3
  <2> QED
    BY <2>1, <1>4
<1> HIDE DEF f
<1>7. f \in Bijection(P, Q)
  BY <1>4, <1>5, <1>6 DEF Bijection, Injection, Surjection, IsInjective
<1>8. Cardinality(Q) = Cardinality(P)
  <2>1. IsFiniteSet(P)
    BY <1>1, PlacesFinite DEF P
  <2>2. ExistsBijection(P, Q)
    BY <1>7 DEF ExistsBijection
  <2> QED
    BY <2>1, <2>2, FS_Bijection
<1>9. Cardinality(Q) = IF 1 \in Places(s, x) THEN Cardinality(Places(s, x)) - 1
                                             ELSE Cardinality(Places(s, x))
  BY PlacesFinite, FS_RemoveElement DEF Q
<1>10. 1 \in Places(s, x) <=> Head(s) = x
  BY <1>1 DEF Places
<1>11. Cardinality(Places(s, x)) \in Nat /\ Cardinality(P) \in Nat
  BY <1>1, PlacesFinite DEF P
<1> QED
  BY <1>8, <1>9, <1>10, <1>11 DEF P

-----------------------------------------------------------------------------
(* How many trackers wait for a port, or Syncs for a master.               *)

Holding(f, m) == {p \in Masters : m \in f[p]}

LEMMA HoldingFinite ==
  ASSUME DvmConstants, NEW f, NEW m
  PROVE  IsFiniteSet(Holding(f, m)) /\ Cardinality(Holding(f, m)) \in Nat
<1>1. IsFiniteSet(Holding(f, m))
  BY FS_Subset DEF DvmConstants, Holding
<1> QED
  BY <1>1, FS_CardinalityType

(* One of them gets or loses masters.                                      *)
Gains(f, g, p, S) ==
  /\ f \in [Masters -> SUBSET Masters] /\ p \in Masters /\ f[p] = {}
  /\ S \in SUBSET Masters /\ g = [f EXCEPT ![p] = S]

Loses(f, g, p, q) ==
  /\ f \in [Masters -> SUBSET Masters] /\ p \in Masters /\ q \in f[p]
  /\ g = [f EXCEPT ![p] = f[p] \ {q}]

LEMMA GainsHolding ==
  ASSUME DvmConstants, NEW f, NEW g, NEW p, NEW S, Gains(f, g, p, S), NEW m
  PROVE  Cardinality(Holding(g, m)) =
           Cardinality(Holding(f, m)) + (IF m \in S THEN 1 ELSE 0)
<1> DEFINE h == [f EXCEPT ![p] = S]
<1>1. /\ f \in [Masters -> SUBSET Masters] /\ p \in Masters /\ f[p] = {}
      /\ S \in SUBSET Masters /\ g = h
  BY DEF Gains
<1>2. Cardinality(Holding(h, m)) =
        Cardinality(Holding(f, m)) + (IF m \in S THEN 1 ELSE 0)
  <2>1. CASE m \in S
    <3>1. Holding(h, m) = Holding(f, m) \cup {p} /\ p \notin Holding(f, m)
      BY <1>1, <2>1 DEF Holding
    <3> QED
      BY <2>1, <3>1, HoldingFinite, FS_AddElement
  <2>2. CASE m \notin S
    <3>1. Holding(h, m) = Holding(f, m)
      BY <1>1, <2>2 DEF Holding
    <3> QED
      BY <2>2, <3>1, HoldingFinite
  <2> QED
    BY <2>1, <2>2
<1> HIDE DEF h
<1> QED
  BY <1>1, <1>2

LEMMA LosesHolding ==
  ASSUME DvmConstants, NEW f, NEW g, NEW p, NEW q, Loses(f, g, p, q), NEW m
  PROVE  Cardinality(Holding(f, m)) =
           Cardinality(Holding(g, m)) + (IF m = q THEN 1 ELSE 0)
<1>1. /\ f \in [Masters -> SUBSET Masters] /\ p \in Masters /\ q \in f[p]
      /\ g = [f EXCEPT ![p] = f[p] \ {q}]
  BY DEF Loses
<1>2. CASE m = q
  <2>1. Holding(g, m) = Holding(f, m) \ {p} /\ p \in Holding(f, m)
    BY <1>1, <1>2 DEF Holding
  <2>2. IsFiniteSet(Holding(f, m)) /\ Cardinality(Holding(f, m)) \in Nat
    BY HoldingFinite
  <2>3. Cardinality(Holding(g, m)) = Cardinality(Holding(f, m)) - 1
    BY <2>1, <2>2, FS_RemoveElement
  <2> QED
    BY <1>2, <2>2, <2>3
<1>3. CASE m # q
  <2>1. Holding(g, m) = Holding(f, m)
    BY <1>1, <1>3 DEF Holding
  <2> QED
    BY <1>3, <2>1, HoldingFinite
<1> QED
  BY <1>2, <1>3

-----------------------------------------------------------------------------
(* Type correctness.                                                       *)

LEMMA InitType == Init => TypeOK
<1> SUFFICES ASSUME Init PROVE TypeOK
  OBVIOUS
<1>1. /\ m_snoop_engine_fifo \in Seq(Messages)
      /\ m_list \in Seq(Masters) /\ execs \in Seq(Masters)
  BY DEF Init
<1>2. /\ paced \in BOOLEAN /\ repeated \in BOOLEAN
  BY DEF Init
<1>3. /\ waiting \in [Masters -> SUBSET Masters]
      /\ pending \in [Masters -> SUBSET Masters]
  BY DEF Init
<1>4. /\ replies \in [Masters -> Nat]
      /\ sent \in [Masters -> Nat] /\ got \in [Masters -> Nat]
  BY DEF Init
<1> QED
  BY <1>1, <1>2, <1>3, <1>4 DEF TypeOK

LEMMA FirstDone ==
  ASSUME NEW list \in Seq(Masters), NEW wait
  PROVE  /\ \A p \in GetDone(list, wait) : p \in ToSet(list) /\ wait[p] = {}
         /\ GetDone(list, wait) = {} => \A p \in ToSet(list) : wait[p] # {}
<1>1. \A p \in GetDone(list, wait) : p \in ToSet(list) /\ wait[p] = {}
  BY DEF GetDone, ToSet
<1>2. ASSUME NEW p \in ToSet(list), wait[p] = {}
      PROVE  GetDone(list, wait) # {}
  <2> DEFINE T == {i \in DOMAIN list : wait[list[i]] = {}}
  <2>1. T \subseteq Nat /\ T # {} /\ DOMAIN list = 1 .. Len(list)
    BY <1>2 DEF ToSet
  <2>2. PICK i \in T : \A j \in T : i <= j
    BY <2>1, Least
  <2>3. \A j \in 1 .. i - 1 : j \notin T /\ j \in DOMAIN list
    BY <2>1, <2>2
  <2>4. list[i] \in GetDone(list, wait)
    BY <2>2, <2>3 DEF GetDone
  <2> QED
    BY <2>4
<1> QED
  BY <1>1, <1>2

LEMMA ToSetType ==
  ASSUME NEW S, NEW s \in Seq(S)
  PROVE  ToSet(s) \subseteq S
  BY DEF ToSet

LEMMA NextType ==
  ASSUME TypeOK, [Next]_vars
  PROVE  TypeOK'
<1> USE DEF TypeOK, Messages, Message
<1>1. ASSUME NEW p \in Masters, Sync(p) PROVE TypeOK'
  <2>1. Message("Sync", p) \in Messages
    OBVIOUS
  <2>2. m_snoop_engine_fifo' \in Seq(Messages)
    BY <1>1, <2>1, AppendProperties DEF Sync
  <2> QED
    BY <1>1, <2>2 DEF Sync
<1>2. ASSUME NEW p \in Masters, reply_dvm_complete(p) PROVE TypeOK'
  <2>1. Message("Complete", p) \in Messages
    OBVIOUS
  <2>2. m_snoop_engine_fifo' \in Seq(Messages)
    BY <1>2, <2>1, AppendProperties DEF reply_dvm_complete
  <2> QED
    BY <1>2, <2>2 DEF reply_dvm_complete
<1>3. CASE snoop_engine_thread
  <2> DEFINE p == Head(m_snoop_engine_fifo).port
  <2>1. /\ m_snoop_engine_fifo' \in Seq(Messages)
        /\ Head(m_snoop_engine_fifo) \in Messages
    BY <1>3, Tailed DEF snoop_engine_thread
  <2>2. p \in Masters
    BY <2>1
  <2> HIDE DEF p
  <2>3. UNCHANGED <<paced, replies, sent, got>>
    BY <1>3 DEF snoop_engine_thread
  <2>4. CASE /\ StartCollectingFor(p)
             /\ pending' = [pending EXCEPT ![p] = Masters \ {p}]
             /\ UNCHANGED <<execs, repeated>>
    <3>1. m_list' \in Seq(Masters)
      BY <2>2, <2>4, AppendProperties DEF StartCollectingFor
    <3> QED
      BY <2>1, <2>2, <2>3, <2>4, <3>1 DEF StartCollectingFor
  <2>5. CASE /\ ReceivedFrom(p)
             /\ HandOver(GetDone(m_list, waiting'))
             /\ UNCHANGED <<m_list, pending>>
    <3>1. waiting' \in [Masters -> SUBSET Masters]
      BY <2>5 DEF ReceivedFrom
    <3>2. execs' \in Seq(Masters) /\ repeated' \in BOOLEAN
      <4>1. CASE UNCHANGED <<execs, repeated>>
        BY <4>1
      <4>2. ASSUME NEW t \in GetDone(m_list, waiting'),
                   execs' = Append(execs, t),
                   repeated' = (repeated \/ t \in ToSet(execs))
            PROVE  execs' \in Seq(Masters) /\ repeated' \in BOOLEAN
        <5>1. t \in Masters
          BY FirstDone, ToSetType
        <5> QED
          BY <4>2, <5>1, AppendProperties
      <4> QED
        BY <2>5, <4>1, <4>2 DEF HandOver
    <3> QED
      BY <2>1, <2>3, <2>5, <3>1, <3>2
  <2> QED
    BY <1>3, <2>4, <2>5 DEF snoop_engine_thread, p
<1>4. ASSUME NEW p \in Masters, NEW m \in Masters, b_transport_snoop(p, m)
      PROVE  TypeOK'
  BY <1>4 DEF b_transport_snoop
<1>5. ASSUME NEW i \in DOMAIN execs, exec_dvm_complete(i) PROVE TypeOK'
  <2>1. m_list' \in Seq(Masters)
    BY <1>5, WithoutType DEF exec_dvm_complete
  <2>2. execs' \in Seq(Masters)
    BY <1>5, RemoveAtType DEF exec_dvm_complete
  <2>3. got' \in [Masters -> Nat]
    BY <1>5 DEF exec_dvm_complete
  <2> QED
    BY <1>5, <2>1, <2>2, <2>3 DEF exec_dvm_complete
<1>6. CASE UNCHANGED vars
  BY <1>6 DEF vars
<1> QED
  BY <1>1, <1>2, <1>3, <1>4, <1>5, <1>6 DEF Next

-----------------------------------------------------------------------------
(* The inductive invariant.                                                *)

Listed(p) == p \in ToSet(m_list)
Queued(p) == Message("Sync", p) \in ToSet(m_snoop_engine_fifo)

(* The trackers that are done are those a thread takes care of, and only   *)
(* those on the list wait for a port.                                      *)
ThreadsOfDone ==
  /\ NoDuplicates(m_list) /\ NoDuplicates(execs)
  /\ ToSet(execs) = {p \in ToSet(m_list) : waiting[p] = {}}
  /\ \A p \in Masters : waiting[p] # {} => Listed(p)

(* A Sync that has no Complete yet is in the fifo, once, or its tracker is *)
(* on the list.                                                            *)
SyncsKept ==
  /\ \A p \in Masters :
       sent[p] = got[p] + (IF Listed(p) \/ Queued(p) THEN 1 ELSE 0)
  /\ \A p \in Masters : Queued(p) => ~Listed(p) /\ pending[p] = {}
  /\ \A p \in Masters :
       Cardinality(Places(m_snoop_engine_fifo, Message("Sync", p))) <= 1

Counted == \A m \in Masters : OnItsWay(m) = WaitedFor(m)

Kept == ThreadsOfDone /\ SyncsKept /\ Counted

(* Masters that take turns have one Sync between them.                     *)
TakeTurns ==
  paced =>
    /\ ~repeated
    /\ \A p, q \in Masters : Outstanding(p) /\ Outstanding(q) => p = q

IInv == TypeOK /\ TakeTurns /\ (~repeated => Kept)

LEMMA MessageFields ==
  /\ \A k, p : Message(k, p).kind = k /\ Message(k, p).port = p
  /\ \A k, l, p, q : Message(k, p) = Message(l, q) => k = l /\ p = q
  BY DEF Message

LEMMA MessageTypes ==
  /\ \A p \in Masters : /\ Message("Sync", p) \in Messages
                        /\ Message("Complete", p) \in Messages
                        /\ Message("Sync", p) # Message("Complete", p)
  /\ \A x \in Messages : /\ x.port \in Masters
                         /\ x.kind \in {"Sync", "Complete"}
                         /\ x = Message(x.kind, x.port)
  BY DEF Message, Messages

(* What counts of what is on its way.                                      *)
LEMMA CountTypes ==
  ASSUME DvmConstants, TypeOK, NEW m \in Masters
  PROVE  /\ Cardinality(Holding(pending, m)) \in Nat /\ replies[m] \in Nat
         /\ Cardinality(Places(m_snoop_engine_fifo, Message("Complete", m))) \in Nat
         /\ Cardinality(Holding(waiting, m)) \in Nat
         /\ OnItsWay(m) = Cardinality(Holding(pending, m)) + replies[m]
              + Cardinality(Places(m_snoop_engine_fifo, Message("Complete", m)))
         /\ WaitedFor(m) = Cardinality(Holding(waiting, m))
<1>1. /\ Cardinality(Holding(pending, m)) \in Nat
      /\ Cardinality(Holding(waiting, m)) \in Nat
  BY HoldingFinite
<1>2. Cardinality(Places(m_snoop_engine_fifo, Message("Complete", m))) \in Nat
  BY PlacesFinite DEF TypeOK
<1>3. replies[m] \in Nat
  BY DEF TypeOK
<1> QED
  BY <1>1, <1>2, <1>3 DEF OnItsWay, WaitedFor, Holding

LEMMA InToSet ==
  ASSUME NEW S, NEW s \in Seq(S), NEW x
  PROVE  x \in ToSet(s) <=> Cardinality(Places(s, x)) # 0
<1>1. IsFiniteSet(Places(s, x))
  BY PlacesFinite
<1>2. Cardinality(Places(s, x)) = 0 <=> Places(s, x) = {}
  BY <1>1, FS_EmptySet
<1>3. x \in ToSet(s) <=> Places(s, x) # {}
  BY DEF ToSet, Places
<1> QED
  BY <1>2, <1>3

LEMMA InitKept ==
  ASSUME DvmConstants
  PROVE  Init => IInv
<1> SUFFICES ASSUME Init PROVE IInv
  OBVIOUS
<1> USE DEF Init
<1>1. TypeOK
  BY InitType
<1>2. \A p \in Masters : ~Outstanding(p)
  BY DEF Outstanding
<1>3. ToSet(m_list) = {} /\ ToSet(execs) = {} /\ ToSet(m_snoop_engine_fifo) = {}
  BY DEF ToSet
<1>4. ThreadsOfDone
  BY <1>3 DEF ThreadsOfDone, NoDuplicates
<1>5. SyncsKept
  <2>1. \A x : Cardinality(Places(m_snoop_engine_fifo, x)) = 0
    BY FS_EmptySet DEF Places
  <2> QED
    BY <1>3, <2>1 DEF SyncsKept, Listed, Queued
<1>6. Counted
  <2>1. \A m : Holding(pending, m) = {} /\ Holding(waiting, m) = {}
    BY DEF Holding
  <2>2. \A x : Cardinality(Places(m_snoop_engine_fifo, x)) = 0
    BY FS_EmptySet DEF Places
  <2> QED
    BY <1>1, <2>1, <2>2, CountTypes, FS_EmptySet DEF Counted
<1> QED
  BY <1>1, <1>2, <1>4, <1>5, <1>6 DEF IInv, TakeTurns, Kept

LEMMA SyncKeeps ==
  ASSUME DvmConstants, TypeOK, TypeOK', Kept, NEW p \in Masters, Sync(p)
  PROVE  Kept'
<1> DEFINE fifo == m_snoop_engine_fifo
<1>1. /\ fifo' = Append(fifo, Message("Sync", p)) /\ fifo \in Seq(Messages)
      /\ Message("Sync", p) \in Messages
  BY MessageTypes DEF Sync, TypeOK
<1>2. /\ UNCHANGED <<m_list, waiting, pending, replies, execs, got>>
      /\ sent' = [sent EXCEPT ![p] = @ + 1] /\ pending[p] = {}
      /\ ~Outstanding(p)
  BY DEF Sync
<1>3. ~Listed(p) /\ ~Queued(p) /\ sent[p] = got[p]
  BY <1>2 DEF Kept, SyncsKept, Outstanding, TypeOK
<1>4. \A x : Cardinality(Places(fifo', x)) =
               Cardinality(Places(fifo, x))
                 + (IF Message("Sync", p) = x THEN 1 ELSE 0)
  BY <1>1, PlacesAppend
<1>5. ToSet(fifo') = ToSet(fifo) \cup {Message("Sync", p)}
  BY <1>1, Appended
<1> HIDE DEF fifo
<1>6. ThreadsOfDone'
  BY <1>2 DEF Kept, ThreadsOfDone, Listed
<1>7. \A q \in Masters : /\ Listed(q)' <=> Listed(q)
                         /\ Queued(q)' <=> Queued(q) \/ q = p
  BY <1>2, <1>5, MessageFields DEF Listed, Queued, fifo
<1>8. SyncsKept'
  <2>1. \A q \in Masters :
          sent'[q] = got'[q] + (IF Listed(q)' \/ Queued(q)' THEN 1 ELSE 0)
    <3> SUFFICES ASSUME NEW q \in Masters
                 PROVE  sent'[q] = got'[q]
                          + (IF Listed(q)' \/ Queued(q)' THEN 1 ELSE 0)
      OBVIOUS
    <3>1. CASE q = p
      BY <3>1, <1>2, <1>3, <1>7 DEF TypeOK
    <3>2. CASE q # p
      BY <3>2, <1>2, <1>7 DEF Kept, SyncsKept, TypeOK
    <3> QED
      BY <3>1, <3>2
  <2>2. \A q \in Masters : Queued(q)' => ~Listed(q)' /\ pending'[q] = {}
    BY <1>2, <1>3, <1>7 DEF Kept, SyncsKept
  <2>3. \A q \in Masters : Cardinality(Places(fifo', Message("Sync", q))) <= 1
    <3> SUFFICES ASSUME NEW q \in Masters
                 PROVE  Cardinality(Places(fifo', Message("Sync", q))) <= 1
      OBVIOUS
    <3>1. CASE q = p
      <4>1. Cardinality(Places(fifo, Message("Sync", p))) = 0
        BY <1>1, <1>3, InToSet DEF Queued, fifo
      <4> QED
        BY <3>1, <4>1, <1>4
    <3>2. CASE q # p
      <4>1. Message("Sync", p) # Message("Sync", q)
        BY <3>2, MessageFields
      <4>2. /\ Cardinality(Places(fifo, Message("Sync", q))) <= 1
            /\ Cardinality(Places(fifo, Message("Sync", q))) \in Nat
        BY <1>1, PlacesFinite DEF Kept, SyncsKept, fifo
      <4> QED
        BY <4>1, <4>2, <1>4
    <3> QED
      BY <3>1, <3>2
  <2> QED
    BY <2>1, <2>2, <2>3 DEF SyncsKept, fifo
<1>9. Counted'
  <2> SUFFICES ASSUME NEW m \in Masters PROVE OnItsWay(m)' = WaitedFor(m)'
    BY DEF Counted
  <2>1. Cardinality(Places(fifo', Message("Complete", m))) =
          Cardinality(Places(fifo, Message("Complete", m)))
    <3>1. Message("Sync", p) # Message("Complete", m)
      BY MessageFields
    <3>2. Cardinality(Places(fifo, Message("Complete", m))) \in Nat
      BY <1>1, PlacesFinite
    <3> QED
      BY <1>4, <3>1, <3>2
  <2>2. OnItsWay(m) = WaitedFor(m)
    BY DEF Kept, Counted
  <2> QED
    BY <1>2, <2>1, <2>2 DEF OnItsWay, WaitedFor, fifo
<1> QED
  BY <1>6, <1>8, <1>9 DEF Kept

LEMMA ReplyKeeps ==
  ASSUME DvmConstants, TypeOK, TypeOK', Kept, NEW p \in Masters,
         reply_dvm_complete(p)
  PROVE  Kept'
<1> DEFINE fifo == m_snoop_engine_fifo
<1>1. /\ fifo' = Append(fifo, Message("Complete", p)) /\ fifo \in Seq(Messages)
      /\ Message("Complete", p) \in Messages
  BY MessageTypes DEF reply_dvm_complete, TypeOK
<1>2. /\ UNCHANGED <<m_list, waiting, pending, execs, sent, got>>
      /\ replies' = [replies EXCEPT ![p] = @ - 1] /\ replies[p] > 0
  BY DEF reply_dvm_complete
<1>3. \A x : Cardinality(Places(fifo', x)) =
               Cardinality(Places(fifo, x))
                 + (IF Message("Complete", p) = x THEN 1 ELSE 0)
  BY <1>1, PlacesAppend
<1>4. ToSet(fifo') = ToSet(fifo) \cup {Message("Complete", p)}
  BY <1>1, Appended
<1>5. \A x : Cardinality(Places(fifo, x)) \in Nat
  BY <1>1, PlacesFinite
<1> HIDE DEF fifo
<1>6. ThreadsOfDone'
  BY <1>2 DEF Kept, ThreadsOfDone, Listed
<1>7. \A q \in Masters : /\ Listed(q)' <=> Listed(q)
                         /\ Queued(q)' <=> Queued(q)
  BY <1>2, <1>4, MessageFields DEF Listed, Queued, fifo
<1>8. SyncsKept'
  <2>1. \A q \in Masters :
          Cardinality(Places(fifo', Message("Sync", q))) =
            Cardinality(Places(fifo, Message("Sync", q)))
    BY <1>3, <1>5, MessageFields
  <2> QED
    BY <1>2, <1>7, <2>1 DEF Kept, SyncsKept, fifo
<1>9. Counted'
  <2> SUFFICES ASSUME NEW m \in Masters PROVE OnItsWay(m)' = WaitedFor(m)'
    BY DEF Counted
  <2>1. OnItsWay(m) = WaitedFor(m)
    BY DEF Kept, Counted
  <2> DEFINE n == Cardinality(Places(fifo, Message("Complete", m)))
             r == replies[m]
             k == Cardinality({q \in Masters : m \in pending[q]})
  <2>2. n \in Nat /\ r \in Nat /\ k \in Nat
    BY <1>5, CountTypes DEF Holding, TypeOK
  <2>3. OnItsWay(m)' = k + replies'[m] + Cardinality(Places(fifo', Message("Complete", m)))
    BY <1>2 DEF OnItsWay, fifo
  <2>4. OnItsWay(m) = k + r + n
    BY DEF OnItsWay, fifo
  <2>5. CASE m = p
    <3>1. /\ Cardinality(Places(fifo', Message("Complete", m))) = n + 1
          /\ replies'[m] = r - 1
      BY <1>2, <1>3, <2>5 DEF TypeOK
    <3> HIDE DEF n, r, k
    <3>2. OnItsWay(m)' = OnItsWay(m)
      BY <3>1, <2>2, <2>3, <2>4
    <3> QED
      BY <1>2, <2>1, <3>2 DEF WaitedFor
  <2>6. CASE m # p
    <3>1. /\ Cardinality(Places(fifo', Message("Complete", m))) = n
          /\ replies'[m] = r
      BY <1>2, <1>3, <1>5, <2>6, MessageFields DEF TypeOK
    <3> QED
      BY <1>2, <2>1, <2>3, <2>4, <3>1 DEF WaitedFor
  <2> QED
    BY <2>5, <2>6
<1> QED
  BY <1>6, <1>8, <1>9 DEF Kept

LEMMA SnoopKeeps ==
  ASSUME DvmConstants, TypeOK, TypeOK', Kept, NEW p \in Masters, NEW m \in Masters,
         b_transport_snoop(p, m)
  PROVE  Kept'
<1>1. /\ UNCHANGED <<m_snoop_engine_fifo, m_list, waiting, execs, sent, got>>
      /\ replies' = [replies EXCEPT ![m] = @ + 1] /\ m \in pending[p]
      /\ pending' = [pending EXCEPT ![p] = pending[p] \ {m}]
  BY DEF b_transport_snoop
<1>2. ThreadsOfDone'
  BY <1>1 DEF Kept, ThreadsOfDone, Listed
<1>3. \A q \in Masters : pending[q] = {} => pending'[q] = {}
  BY <1>1 DEF TypeOK
<1>4. SyncsKept'
  BY <1>1, <1>3 DEF Kept, SyncsKept, Listed, Queued
<1>5. Counted'
  <2> SUFFICES ASSUME NEW x \in Masters PROVE OnItsWay(x)' = WaitedFor(x)'
    BY DEF Counted
  <2> DEFINE n == Cardinality(Places(m_snoop_engine_fifo, Message("Complete", x)))
             k == Cardinality(Holding(pending, x))
             l == Cardinality(Holding(pending', x))
  <2>1. OnItsWay(x) = WaitedFor(x) /\ WaitedFor(x)' = WaitedFor(x)
    BY <1>1 DEF Kept, Counted, WaitedFor
  <2>2. n \in Nat /\ k \in Nat /\ l \in Nat /\ replies[x] \in Nat
    <3>1. n \in Nat /\ k \in Nat /\ replies[x] \in Nat
      BY CountTypes
    <3>2. l \in Nat
      BY HoldingFinite
    <3> QED
      BY <3>1, <3>2
  <2>3. k = l + (IF x = m THEN 1 ELSE 0)
    <3>1. Loses(pending, pending', p, m)
      BY <1>1 DEF Loses, TypeOK
    <3> QED
      BY <3>1, LosesHolding
  <2>4. OnItsWay(x) = k + replies[x] + n /\ OnItsWay(x)' = l + replies'[x] + n
    BY <1>1 DEF OnItsWay, Holding
  <2>5. replies'[x] = replies[x] + (IF x = m THEN 1 ELSE 0)
    BY <1>1, <2>2 DEF TypeOK
  <2> HIDE DEF n, k, l
  <2>6. OnItsWay(x)' = OnItsWay(x)
    BY <2>2, <2>3, <2>4, <2>5
  <2> QED
    BY <2>1, <2>6
<1> QED
  BY <1>2, <1>4, <1>5 DEF Kept

LEMMA ExecKeeps ==
  ASSUME DvmConstants, TypeOK, TypeOK', Kept, NEW i \in DOMAIN execs,
         exec_dvm_complete(i)
  PROVE  Kept'
<1> DEFINE p == execs[i]
<1>1. /\ UNCHANGED <<m_snoop_engine_fifo, waiting, pending, replies, sent>>
      /\ got' = [got EXCEPT ![p] = @ + 1]
      /\ m_list' = Without(m_list, p) /\ execs' = RemoveAt(execs, i)
  BY DEF exec_dvm_complete
<1>2. /\ m_list \in Seq(Masters) /\ execs \in Seq(Masters) /\ p \in Masters
      /\ NoDuplicates(m_list) /\ NoDuplicates(execs)
  BY DEF TypeOK, Kept, ThreadsOfDone
<1>3. p \in ToSet(execs)
  BY DEF ToSet
<1> HIDE DEF p
<1>4. Listed(p) /\ waiting[p] = {} /\ ~Queued(p)
  BY <1>2, <1>3 DEF Kept, ThreadsOfDone, SyncsKept, Listed
<1>5. /\ NoDuplicates(m_list') /\ ToSet(m_list') = ToSet(m_list) \ {p}
      /\ NoDuplicates(execs') /\ ToSet(execs') = ToSet(execs) \ {p}
  BY <1>1, <1>2, WithoutRemoves, RemoveAtRemoves DEF p
<1>6. ThreadsOfDone'
  BY <1>1, <1>4, <1>5 DEF Kept, ThreadsOfDone, Listed
<1>7. \A q \in Masters : /\ Listed(q)' <=> Listed(q) /\ q # p
                         /\ Queued(q)' <=> Queued(q)
  BY <1>1, <1>5 DEF Listed, Queued
<1>8. SyncsKept'
  <2>1. ASSUME NEW q \in Masters
        PROVE  sent'[q] = got'[q] + (IF Listed(q)' \/ Queued(q)' THEN 1 ELSE 0)
    <3>1. sent[q] = got[q] + (IF Listed(q) \/ Queued(q) THEN 1 ELSE 0)
      BY DEF Kept, SyncsKept
    <3>2. CASE q = p
      BY <3>1, <3>2, <1>1, <1>2, <1>4, <1>7 DEF TypeOK
    <3>3. CASE q # p
      BY <3>1, <3>3, <1>1, <1>7 DEF TypeOK
    <3> QED
      BY <3>2, <3>3
  <2> QED
    BY <1>1, <1>7, <2>1 DEF Kept, SyncsKept
<1>9. Counted'
  BY <1>1 DEF Kept, Counted, OnItsWay, WaitedFor
<1> QED
  BY <1>6, <1>8, <1>9 DEF Kept

(* The engine starts to collect for a Sync.                                *)
CollectFor(p) ==
  /\ m_snoop_engine_fifo # <<>>
  /\ Head(m_snoop_engine_fifo) = Message("Sync", p)
  /\ m_snoop_engine_fifo' = Tail(m_snoop_engine_fifo)
  /\ StartCollectingFor(p)
  /\ pending' = [pending EXCEPT ![p] = Masters \ {p}]
  /\ UNCHANGED <<paced, execs, repeated, replies, sent, got>>

(* It counts a Complete.                                                   *)
CountFor(p) ==
  /\ m_snoop_engine_fifo # <<>>
  /\ Head(m_snoop_engine_fifo) = Message("Complete", p)
  /\ m_snoop_engine_fifo' = Tail(m_snoop_engine_fifo)
  /\ ReceivedFrom(p)
  /\ HandOver(GetDone(m_list, waiting'))
  /\ UNCHANGED <<paced, m_list, pending, replies, sent, got>>

LEMMA EngineSteps ==
  ASSUME TypeOK, snoop_engine_thread
  PROVE  \E p \in Masters : CollectFor(p) \/ CountFor(p)
<1>1. /\ m_snoop_engine_fifo # <<>> /\ m_snoop_engine_fifo \in Seq(Messages)
      /\ m_snoop_engine_fifo' = Tail(m_snoop_engine_fifo)
      /\ UNCHANGED <<paced, replies, sent, got>>
  BY DEF snoop_engine_thread, TypeOK
<1> DEFINE h == Head(m_snoop_engine_fifo)
<1>2. h \in Messages
  BY <1>1, Tailed
<1>3. h.port \in Masters /\ h = Message(h.kind, h.port)
  BY <1>2, MessageTypes
<1>4. CASE h.kind = "Sync" /\ StartCollectingFor(h.port)
           /\ pending' = [pending EXCEPT ![h.port] = Masters \ {h.port}]
           /\ UNCHANGED <<execs, repeated>>
  BY <1>1, <1>3, <1>4 DEF CollectFor
<1>5. CASE h.kind = "Complete" /\ ReceivedFrom(h.port)
           /\ HandOver(GetDone(m_list, waiting'))
           /\ UNCHANGED <<m_list, pending>>
  BY <1>1, <1>3, <1>5 DEF CountFor
<1> QED
  BY <1>4, <1>5 DEF snoop_engine_thread

LEMMA CollectKeeps ==
  ASSUME DvmConstants, TypeOK, TypeOK', Kept, NEW p \in Masters, CollectFor(p)
  PROVE  Kept'
<1> DEFINE fifo == m_snoop_engine_fifo
           S == Masters \ {p}
<1>1. /\ fifo \in Seq(Messages) /\ fifo # <<>>
      /\ Head(fifo) = Message("Sync", p) /\ fifo' = Tail(fifo)
      /\ fifo' \in Seq(Messages)
  BY DEF CollectFor, TypeOK
<1>2. /\ UNCHANGED <<execs, replies, sent, got>>
      /\ m_list' = Append(m_list, p)
      /\ waiting' = [waiting EXCEPT ![p] = @ \cup S]
      /\ pending' = [pending EXCEPT ![p] = S]
  BY DEF CollectFor, StartCollectingFor
<1>3. \A x : /\ Cardinality(Places(fifo, x)) =
                  Cardinality(Places(fifo', x))
                    + (IF Message("Sync", p) = x THEN 1 ELSE 0)
             /\ Cardinality(Places(fifo', x)) \in Nat
  BY <1>1, PlacesTail, PlacesFinite
<1>4. /\ waiting \in [Masters -> SUBSET Masters]
      /\ pending \in [Masters -> SUBSET Masters]
      /\ m_list \in Seq(Masters)
  BY DEF TypeOK
<1>5. \A x : x \in ToSet(fifo) <=> Cardinality(Places(fifo, x)) # 0
  BY <1>1, InToSet
<1>6. \A x : x \in ToSet(fifo') <=> Cardinality(Places(fifo', x)) # 0
  BY <1>1, InToSet
<1> HIDE DEF fifo
<1>7. Queued(p) /\ ~Queued(p)'
  <2>1. /\ Cardinality(Places(fifo, Message("Sync", p))) <= 1
        /\ Cardinality(Places(fifo', Message("Sync", p))) \in Nat
        /\ Cardinality(Places(fifo, Message("Sync", p))) =
             Cardinality(Places(fifo', Message("Sync", p))) + 1
    BY <1>3 DEF Kept, SyncsKept, fifo
  <2> QED
    BY <2>1, <1>5, <1>6 DEF Queued, fifo
<1>8. ~Listed(p) /\ pending[p] = {} /\ waiting[p] = {}
  BY <1>7 DEF Kept, SyncsKept, ThreadsOfDone
<1>9. \A q \in Masters : q # p => (Queued(q)' <=> Queued(q))
  <2> SUFFICES ASSUME NEW q \in Masters, q # p
               PROVE  Queued(q)' <=> Queued(q)
    OBVIOUS
  <2>1. Message("Sync", p) # Message("Sync", q)
    BY MessageFields
  <2>2. Cardinality(Places(fifo, Message("Sync", q))) =
          Cardinality(Places(fifo', Message("Sync", q)))
    BY <1>3, <2>1
  <2> QED
    BY <2>2, <1>5, <1>6 DEF Queued, fifo
<1>10. /\ ToSet(m_list') = ToSet(m_list) \cup {p}
       /\ Len(m_list) \in Nat /\ DOMAIN m_list = 1 .. Len(m_list)
       /\ DOMAIN m_list' = (1 .. Len(m_list)) \cup {Len(m_list) + 1}
       /\ \A i \in 1 .. Len(m_list) : m_list'[i] = m_list[i]
       /\ m_list'[Len(m_list) + 1] = p
  BY <1>2, <1>4, Appended
<1>11. \A q \in Masters : Listed(q)' <=> Listed(q) \/ q = p
  BY <1>10 DEF Listed
<1>12. waiting'[p] = S /\ S # {} /\ waiting' = [waiting EXCEPT ![p] = S]
  BY <1>2, <1>4, <1>8 DEF DvmConstants
<1>13. ThreadsOfDone'
  <2>1. NoDuplicates(m_list')
    <3>1. NoDuplicates(m_list) /\ p \notin ToSet(m_list)
      BY <1>8 DEF Kept, ThreadsOfDone, Listed
    <3> QED
      BY <3>1, <1>10 DEF NoDuplicates, ToSet
  <2>2. ToSet(execs') = {q \in ToSet(m_list') : waiting'[q] = {}}
    <3>1. ToSet(execs) = {q \in ToSet(m_list) : waiting[q] = {}}
      BY DEF Kept, ThreadsOfDone
    <3>2. p \notin ToSet(m_list)
      BY <1>8 DEF Listed
    <3>3. ToSet(m_list) \subseteq Masters
      BY <1>4, ToSetType
    <3> HIDE DEF S
    <3>4. \A q \in ToSet(m_list) : waiting'[q] = waiting[q]
      BY <1>4, <1>12, <3>2, <3>3
    <3>5. {q \in ToSet(m_list') : waiting'[q] = {}} =
            {q \in ToSet(m_list) : waiting[q] = {}}
      BY <1>10, <1>12, <3>4
    <3> QED
      BY <1>2, <3>1, <3>5
  <2>3. \A q \in Masters : waiting'[q] # {} => Listed(q)'
    <3>1. \A q \in Masters : q # p => waiting'[q] = waiting[q]
      BY <1>4, <1>12
    <3> QED
      BY <3>1, <1>11 DEF Kept, ThreadsOfDone
  <2>4. NoDuplicates(execs')
    BY <1>2 DEF Kept, ThreadsOfDone
  <2> QED
    BY <2>1, <2>2, <2>3, <2>4 DEF ThreadsOfDone
<1>14. SyncsKept'
  <2>1. \A q \in Masters :
          (Listed(q)' \/ Queued(q)') <=> (Listed(q) \/ Queued(q))
    BY <1>7, <1>9, <1>11
  <2>2. \A q \in Masters :
          sent'[q] = got'[q] + (IF Listed(q)' \/ Queued(q)' THEN 1 ELSE 0)
    BY <1>2, <2>1 DEF Kept, SyncsKept
  <2>3. \A q \in Masters : Queued(q)' => ~Listed(q)' /\ pending'[q] = {}
    <3> SUFFICES ASSUME NEW q \in Masters, Queued(q)'
                 PROVE  ~Listed(q)' /\ pending'[q] = {}
      OBVIOUS
    <3>1. q # p /\ Queued(q)
      BY <1>7, <1>9
    <3>2. ~Listed(q) /\ pending[q] = {}
      BY <3>1 DEF Kept, SyncsKept
    <3>3. pending'[q] = pending[q]
      BY <3>1, <1>2, <1>4
    <3> QED
      BY <3>1, <3>2, <3>3, <1>11
  <2>4. \A q \in Masters :
          Cardinality(Places(fifo', Message("Sync", q))) <= 1
    <3> SUFFICES ASSUME NEW q \in Masters
                 PROVE  Cardinality(Places(fifo', Message("Sync", q))) <= 1
      OBVIOUS
    <3> DEFINE a == Cardinality(Places(fifo, Message("Sync", q)))
               b == Cardinality(Places(fifo', Message("Sync", q)))
    <3>1. a <= 1
      BY DEF Kept, SyncsKept, fifo
    <3>2. b \in Nat /\ (a = b + 1 \/ a = b + 0)
      BY <1>3
    <3> HIDE DEF a, b
    <3>3. b <= 1
      BY <3>1, <3>2
    <3> QED
      BY <3>3 DEF b
  <2> QED
    BY <2>2, <2>3, <2>4 DEF SyncsKept, fifo
<1>15. Counted'
  <2> SUFFICES ASSUME NEW m \in Masters PROVE OnItsWay(m)' = WaitedFor(m)'
    BY DEF Counted
  <2> DEFINE n == Cardinality(Places(fifo, Message("Complete", m)))
             k == Cardinality(Holding(pending, m))
             w == Cardinality(Holding(waiting, m))
             d == IF m \in S THEN 1 ELSE 0
  <2>1. /\ n \in Nat /\ k \in Nat /\ w \in Nat /\ replies[m] \in Nat
        /\ OnItsWay(m) = k + replies[m] + n /\ WaitedFor(m) = w
    BY CountTypes DEF fifo
  <2>2. Cardinality(Places(fifo', Message("Complete", m))) = n
    BY <1>3, MessageFields
  <2>3. S \in SUBSET Masters
    OBVIOUS
  <2> HIDE DEF S
  <2>4. Cardinality(Holding(pending', m)) = k + d
    <3>1. Gains(pending, pending', p, S)
      BY <1>2, <1>4, <1>8, <2>3 DEF Gains
    <3> QED
      BY <3>1, GainsHolding
  <2>5. Cardinality(Holding(waiting', m)) = w + d
    <3>1. Gains(waiting, waiting', p, S)
      BY <1>12, <1>4, <1>8, <2>3 DEF Gains
    <3> QED
      BY <3>1, GainsHolding
  <2>6. OnItsWay(m)' = (k + d) + replies[m] + n
    BY <1>2, <2>2, <2>4 DEF OnItsWay, Holding, fifo
  <2>7. WaitedFor(m)' = w + d
    BY <2>5 DEF WaitedFor, Holding
  <2>8. OnItsWay(m) = WaitedFor(m) /\ d \in Nat
    BY DEF Kept, Counted
  <2> HIDE DEF n, k, w, d
  <2> QED
    BY <2>1, <2>6, <2>7, <2>8
<1> QED
  BY <1>13, <1>14, <1>15 DEF Kept

(* The tracker a Complete counts for, and the one a thread is started for, *)
(* if any: of the two, only that one can be done.                          *)
LEMMA Received ==
  ASSUME TypeOK, Kept, NEW q \in Masters, CountFor(q)
  PROVE  \E t \in Masters :
           /\ Listed(t) /\ q \in waiting[t] /\ t \notin ToSet(execs)
           /\ waiting' = [waiting EXCEPT ![t] = waiting[t] \ {q}]
           /\ \/ execs' = execs /\ repeated' = repeated /\ waiting'[t] # {}
              \/ \E p \in Masters :
                   /\ execs' = Append(execs, p)
                   /\ repeated' = (repeated \/ p \in ToSet(execs))
                   /\ Listed(p) /\ waiting'[p] = {}
                   /\ p = t \/ p \in ToSet(execs)
<1>1. PICK i \in DOMAIN m_list :
        /\ q \in waiting[m_list[i]]
        /\ waiting' = [waiting EXCEPT ![m_list[i]] = @ \ {q}]
  BY DEF CountFor, ReceivedFrom
<1> DEFINE t == m_list[i]
<1>2. /\ m_list \in Seq(Masters) /\ waiting \in [Masters -> SUBSET Masters]
      /\ t \in Masters
  BY DEF TypeOK
<1>3. /\ t \in Masters /\ Listed(t) /\ q \in waiting[t]
      /\ waiting' = [waiting EXCEPT ![t] = waiting[t] \ {q}]
  BY <1>1, <1>2 DEF Listed, ToSet
<1> HIDE DEF t
<1>4. t \notin ToSet(execs)
  BY <1>3 DEF Kept, ThreadsOfDone
<1>5. CASE GetDone(m_list, waiting') = {} /\ UNCHANGED <<execs, repeated>>
  <2>1. waiting'[t] # {}
    BY <1>2, <1>3, <1>5, FirstDone DEF Listed
  <2> QED
    BY <1>3, <1>4, <1>5, <2>1
<1>6. ASSUME NEW p \in GetDone(m_list, waiting'), execs' = Append(execs, p),
             repeated' = (repeated \/ p \in ToSet(execs))
      PROVE  /\ p \in Masters /\ Listed(p) /\ waiting'[p] = {}
             /\ p = t \/ p \in ToSet(execs)
  <2>1. p \in ToSet(m_list) /\ waiting'[p] = {}
    BY <1>2, FirstDone
  <2>2. p \in Masters
    BY <1>2, <2>1, ToSetType
  <2>3. p # t => waiting'[p] = waiting[p]
    BY <1>2, <1>3, <2>2
  <2>4. p # t => p \in ToSet(execs)
    BY <2>1, <2>3 DEF Kept, ThreadsOfDone
  <2> QED
    BY <2>1, <2>2, <2>4 DEF Listed
<1> QED
  BY <1>3, <1>4, <1>5, <1>6 DEF CountFor, HandOver

LEMMA CountKeeps ==
  ASSUME DvmConstants, TypeOK, TypeOK', Kept, NEW q \in Masters, CountFor(q),
         ~repeated'
  PROVE  Kept'
<1> DEFINE fifo == m_snoop_engine_fifo
<1>1. /\ fifo \in Seq(Messages) /\ fifo # <<>>
      /\ Head(fifo) = Message("Complete", q) /\ fifo' = Tail(fifo)
      /\ fifo' \in Seq(Messages)
      /\ UNCHANGED <<m_list, pending, replies, sent, got>>
  BY DEF CountFor, TypeOK
<1>2. PICK t \in Masters :
        /\ Listed(t) /\ q \in waiting[t] /\ t \notin ToSet(execs)
        /\ waiting' = [waiting EXCEPT ![t] = waiting[t] \ {q}]
        /\ \/ execs' = execs /\ waiting'[t] # {}
           \/ execs' = Append(execs, t) /\ waiting'[t] = {}
  BY Received
<1>3. /\ waiting \in [Masters -> SUBSET Masters]
      /\ m_list \in Seq(Masters) /\ execs \in Seq(Masters)
  BY DEF TypeOK
<1>4. \A x : /\ Cardinality(Places(fifo, x)) =
                  Cardinality(Places(fifo', x))
                    + (IF Message("Complete", q) = x THEN 1 ELSE 0)
             /\ Cardinality(Places(fifo', x)) \in Nat
  BY <1>1, PlacesTail, PlacesFinite
<1>5. \A p \in Masters :
        Cardinality(Places(fifo', Message("Sync", p))) =
          Cardinality(Places(fifo, Message("Sync", p)))
  BY <1>4, MessageFields
<1>6. \A p \in Masters : Queued(p)' <=> Queued(p)
  <2>1. \A x : x \in ToSet(fifo) <=> Cardinality(Places(fifo, x)) # 0
    BY <1>1, InToSet
  <2>2. \A x : x \in ToSet(fifo') <=> Cardinality(Places(fifo', x)) # 0
    BY <1>1, InToSet
  <2> HIDE DEF fifo
  <2> QED
    BY <1>5, <2>1, <2>2 DEF Queued, fifo
<1> HIDE DEF fifo
<1>7. \A p \in Masters : p # t => waiting'[p] = waiting[p]
  BY <1>2, <1>3
<1>8. waiting[t] # {}
  BY <1>2
<1>9. ThreadsOfDone'
  <2>1. /\ NoDuplicates(execs) /\ NoDuplicates(m_list)
        /\ ToSet(execs) = {p \in ToSet(m_list) : waiting[p] = {}}
        /\ t \in ToSet(m_list) /\ ToSet(m_list) \subseteq Masters
    BY <1>2, <1>3, ToSetType DEF Kept, ThreadsOfDone, Listed
  <2>2. \A p \in Masters : waiting'[p] # {} => Listed(p)'
    BY <1>1, <1>2, <1>7 DEF Kept, ThreadsOfDone, Listed
  <2>3. CASE execs' = execs /\ waiting'[t] # {}
    <3>1. {p \in ToSet(m_list) : waiting'[p] = {}} =
            {p \in ToSet(m_list) : waiting[p] = {}}
      BY <1>7, <1>8, <2>1, <2>3
    <3> QED
      BY <1>1, <2>1, <2>2, <2>3, <3>1 DEF ThreadsOfDone
  <2>4. CASE execs' = Append(execs, t) /\ waiting'[t] = {}
    <3>1. /\ ToSet(execs') = ToSet(execs) \cup {t} /\ Len(execs) \in Nat
          /\ DOMAIN execs = 1 .. Len(execs)
          /\ DOMAIN execs' = (1 .. Len(execs)) \cup {Len(execs) + 1}
          /\ \A i \in 1 .. Len(execs) : execs'[i] = execs[i]
          /\ execs'[Len(execs) + 1] = t
      BY <1>3, <2>4, Appended
    <3>2. NoDuplicates(execs')
      BY <1>2, <2>1, <3>1 DEF NoDuplicates, ToSet
    <3>3. {p \in ToSet(m_list) : waiting'[p] = {}} =
            {p \in ToSet(m_list) : waiting[p] = {}} \cup {t}
      BY <1>7, <2>1, <2>4
    <3> QED
      BY <1>1, <2>1, <2>2, <3>1, <3>2, <3>3 DEF ThreadsOfDone
  <2> QED
    BY <1>2, <2>3, <2>4
<1>10. SyncsKept'
  BY <1>1, <1>5, <1>6 DEF Kept, SyncsKept, Listed, fifo
<1>11. Counted'
  <2> SUFFICES ASSUME NEW m \in Masters PROVE OnItsWay(m)' = WaitedFor(m)'
    BY DEF Counted
  <2> DEFINE n == Cardinality(Places(fifo, Message("Complete", m)))
             l == Cardinality(Places(fifo', Message("Complete", m)))
             k == Cardinality(Holding(pending, m))
             w == Cardinality(Holding(waiting, m))
             v == Cardinality(Holding(waiting', m))
             d == IF m = q THEN 1 ELSE 0
  <2>1. /\ k \in Nat /\ w \in Nat /\ replies[m] \in Nat
        /\ OnItsWay(m) = k + replies[m] + n /\ WaitedFor(m) = w
    BY CountTypes DEF fifo
  <2>2. n = l + d /\ l \in Nat
    BY <1>4, MessageFields
  <2>3. w = v + d
    <3>1. Loses(waiting, waiting', t, q)
      BY <1>2, <1>3 DEF Loses
    <3> QED
      BY <3>1, LosesHolding
  <2>4. v \in Nat
    BY HoldingFinite
  <2>5. OnItsWay(m)' = k + replies[m] + l /\ WaitedFor(m)' = v
    <3>1. OnItsWay(m)' = Cardinality(Holding(pending', m)) + replies'[m] + l
      BY DEF OnItsWay, Holding, fifo
    <3>2. WaitedFor(m)' = v
      BY DEF WaitedFor, Holding
    <3> QED
      BY <1>1, <3>1, <3>2
  <2>6. OnItsWay(m) = WaitedFor(m) /\ d \in Nat
    BY DEF Kept, Counted
  <2> HIDE DEF n, l, k, w, v, d
  <2>7. (k + replies[m]) + (l + d) = v + d
    BY <2>1, <2>2, <2>3, <2>6
  <2>8. k + replies[m] \in Nat /\ l \in Nat /\ v \in Nat /\ d \in Nat
    BY <2>1, <2>2, <2>4, <2>6
  <2>9. (k + replies[m]) + l = v
    BY ONLY <2>7, <2>8
  <2> QED
    BY <2>5, <2>9
<1> QED
  BY <1>9, <1>10, <1>11 DEF Kept

-----------------------------------------------------------------------------
(* Masters that take turns, and the theorems.                              *)

(* Whose tracker is listed has a Sync outstanding.                         *)
LEMMA ListedOutstanding ==
  ASSUME TypeOK, Kept, NEW p \in Masters, Listed(p)
  PROVE  Outstanding(p)
<1>1. sent[p] = got[p] + 1 /\ got[p] \in Nat
  BY DEF Kept, SyncsKept, TypeOK
<1> QED
  BY <1>1 DEF Outstanding

LEMMA TurnsKept ==
  ASSUME DvmConstants, IInv, Next, paced
  PROVE  /\ paced' /\ ~repeated'
         /\ \A p, q \in Masters :
              Outstanding(p)' /\ Outstanding(q)' => p = q
<1>1. /\ TypeOK /\ Kept /\ ~repeated
      /\ \A p, q \in Masters : Outstanding(p) /\ Outstanding(q) => p = q
  BY DEF IInv, TakeTurns
<1>2. ASSUME NEW p \in Masters, Sync(p)
      PROVE  /\ paced' /\ ~repeated'
             /\ \A x, q \in Masters :
                  Outstanding(x)' /\ Outstanding(q)' => x = q
  <2>1. /\ paced' = paced /\ repeated' = repeated /\ got' = got
        /\ sent' = [sent EXCEPT ![p] = @ + 1]
        /\ \A q \in Masters : ~Outstanding(q)
    BY <1>2 DEF Sync
  <2>2. \A q \in Masters : q # p => ~Outstanding(q)'
    BY <1>1, <2>1 DEF Outstanding, TypeOK
  <2> QED
    BY <1>1, <2>1, <2>2
<1>3. ASSUME repeated' = repeated, paced' = paced, UNCHANGED <<sent, got>>
      PROVE  /\ paced' /\ ~repeated'
             /\ \A x, q \in Masters :
                  Outstanding(x)' /\ Outstanding(q)' => x = q
  BY <1>1, <1>3 DEF Outstanding
<1>4. ASSUME NEW p \in Masters, reply_dvm_complete(p)
      PROVE  repeated' = repeated /\ paced' = paced /\ UNCHANGED <<sent, got>>
  BY <1>4 DEF reply_dvm_complete
<1>5. ASSUME NEW p \in Masters, NEW m \in Masters, b_transport_snoop(p, m)
      PROVE  repeated' = repeated /\ paced' = paced /\ UNCHANGED <<sent, got>>
  BY <1>5 DEF b_transport_snoop
<1>6. ASSUME NEW p \in Masters, CollectFor(p)
      PROVE  repeated' = repeated /\ paced' = paced /\ UNCHANGED <<sent, got>>
  BY <1>6 DEF CollectFor
<1>7. ASSUME NEW q \in Masters, CountFor(q)
      PROVE  repeated' = repeated /\ paced' = paced /\ UNCHANGED <<sent, got>>
  <2>1. PICK t \in Masters :
          /\ Listed(t) /\ q \in waiting[t] /\ t \notin ToSet(execs)
          /\ \/ repeated' = repeated
             \/ \E p \in Masters : /\ repeated' = (repeated \/ p \in ToSet(execs))
                                   /\ Listed(p)
                                   /\ p = t \/ p \in ToSet(execs)
    BY <1>1, <1>7, Received
  <2>2. ASSUME NEW p \in Masters, Listed(p) PROVE p = t
    BY <1>1, <2>1, <2>2, ListedOutstanding
  <2>3. repeated' = repeated
    <3>1. ASSUME NEW p \in Masters, Listed(p),
                 repeated' = (repeated \/ p \in ToSet(execs))
          PROVE  repeated' = repeated
      <4>1. p \notin ToSet(execs)
        BY <2>1, <2>2, <3>1
      <4> QED
        BY <1>1, <3>1, <4>1 DEF TypeOK
    <3> QED
      BY <2>1, <3>1
  <2> QED
    BY <1>7, <2>3 DEF CountFor
<1>8. ASSUME NEW i \in DOMAIN execs, exec_dvm_complete(i)
      PROVE  /\ paced' /\ ~repeated'
             /\ \A x, q \in Masters :
                  Outstanding(x)' /\ Outstanding(q)' => x = q
  <2>1. /\ paced' = paced /\ repeated' = repeated /\ sent' = sent
        /\ got' = [got EXCEPT ![execs[i]] = @ + 1]
    BY <1>8 DEF exec_dvm_complete
  <2>2. \A q \in Masters : Outstanding(q)' => Outstanding(q)
    BY <1>1, <2>1 DEF Outstanding, TypeOK
  <2> QED
    BY <1>1, <2>1, <2>2
<1> QED
  BY <1>1, <1>2, <1>3, <1>4, <1>5, <1>6, <1>7, <1>8, EngineSteps DEF Next

LEMMA NextKeeps ==
  ASSUME DvmConstants, IInv, [Next]_vars
  PROVE  IInv'
<1>1. TypeOK /\ TypeOK'
  BY NextType DEF IInv
<1>2. CASE UNCHANGED vars
  BY <1>2 DEF vars, IInv, TypeOK, TakeTurns, Kept, ThreadsOfDone, SyncsKept,
              Counted, OnItsWay, WaitedFor, Outstanding, Listed, Queued
<1>3. CASE Next
  <2>1. paced' = paced
    BY <1>3 DEF Next, Sync, reply_dvm_complete, snoop_engine_thread,
                b_transport_snoop, exec_dvm_complete
  <2>2. TakeTurns'
    BY <1>3, <2>1, TurnsKept DEF TakeTurns
  <2>3. ~repeated' => ~repeated
    <3>1. ASSUME NEW q \in Masters, CountFor(q) PROVE ~repeated' => ~repeated
      BY <3>1 DEF CountFor, HandOver
    <3>2. ASSUME NEW p \in Masters, CollectFor(p)
          PROVE  ~repeated' => ~repeated
      BY <3>2 DEF CollectFor
    <3>3. CASE snoop_engine_thread
      BY <1>1, <3>1, <3>2, <3>3, EngineSteps
    <3> QED
      BY <1>3, <3>3 DEF Next, Sync, reply_dvm_complete, b_transport_snoop,
                        exec_dvm_complete
  <2>4. ASSUME ~repeated' PROVE Kept'
    <3>1. Kept
      BY <2>3, <2>4 DEF IInv
    <3>2. CASE snoop_engine_thread
      BY <1>1, <2>4, <3>1, <3>2, EngineSteps, CollectKeeps, CountKeeps
    <3> QED
      BY <1>1, <1>3, <3>1, <3>2, SyncKeeps, ReplyKeeps, SnoopKeeps, ExecKeeps
         DEF Next
  <2> QED
    BY <1>1, <2>2, <2>4 DEF IInv
<1> QED
  BY <1>2, <1>3

LEMMA Invariant ==
  ASSUME DvmConstants
  PROVE  Spec => []IInv
<1>1. Init => IInv
  BY InitKept
<1>2. IInv /\ [Next]_vars => IInv'
  BY NextKeeps
<1> QED
  BY <1>1, <1>2, PTL DEF Spec

(* Type correctness of the trackers, of the snoop engine's fifo and of the *)
(* two kinds of thread.                                                    *)
THEOREM DvmTypeCorrect ==
  Spec => []TypeOK
<1>1. Init => TypeOK
  BY InitType
<1>2. TypeOK /\ [Next]_vars => TypeOK'
  BY NextType
<1> QED
  BY <1>1, <1>2, PTL DEF Spec

THEOREM EveryCompleteCountsAlways ==
  ASSUME DvmConstants
  PROVE  Spec => []EveryCompleteCounts
<1>1. IInv => EveryCompleteCounts
  BY DEF IInv, Kept, Counted, EveryCompleteCounts
<1> QED
  BY <1>1, Invariant, PTL

THEOREM SyncsCompleteAlways ==
  ASSUME DvmConstants
  PROVE  Spec => []SyncsComplete
<1>1. IInv => SyncsComplete
  <2> SUFFICES ASSUME IInv, ~repeated, Quiet, NEW p \in Masters
               PROVE  got[p] = sent[p]
    BY DEF SyncsComplete
  <2>1. /\ TypeOK /\ Kept /\ m_snoop_engine_fifo = <<>> /\ execs = <<>>
        /\ \A q \in Masters : replies[q] = 0 /\ pending[q] = {}
    BY DEF IInv, Quiet
  <2>2. ASSUME NEW m \in Masters PROVE Holding(waiting, m) = {}
    <3>1. Holding(pending, m) = {}
      BY <2>1 DEF Holding
    <3>2. Places(m_snoop_engine_fifo, Message("Complete", m)) = {}
      BY <2>1 DEF Places
    <3>3. /\ OnItsWay(m) = Cardinality(Holding(waiting, m))
          /\ OnItsWay(m) = Cardinality(Holding(pending, m)) + replies[m]
               + Cardinality(Places(m_snoop_engine_fifo, Message("Complete", m)))
      BY <2>1, CountTypes DEF Kept, Counted
    <3>4. Cardinality({}) = 0
      BY FS_EmptySet
    <3>5. Cardinality(Holding(waiting, m)) = 0
      <4>1. /\ Cardinality(Holding(pending, m)) = 0 /\ replies[m] = 0
            /\ Cardinality(Places(m_snoop_engine_fifo, Message("Complete", m))) = 0
        BY <2>1, <3>1, <3>2, <3>4
      <4> QED
        BY <3>3, <4>1
    <3>6. IsFiniteSet(Holding(waiting, m))
      BY HoldingFinite
    <3> QED
      BY <3>5, <3>6, FS_EmptySet
  <2>3. waiting[p] = {}
    <3>1. waiting[p] \subseteq Masters
      BY <2>1 DEF TypeOK
    <3> QED
      BY <2>2, <3>1 DEF Holding
  <2>4. ToSet(execs) = {} /\ ToSet(m_snoop_engine_fifo) = {}
    BY <2>1 DEF ToSet
  <2>5. ~Listed(p) /\ ~Queued(p)
    BY <2>1, <2>3, <2>4 DEF Kept, ThreadsOfDone, Listed, Queued
  <2> QED
    BY <2>1, <2>5 DEF Kept, SyncsKept, TypeOK
<1> QED
  BY <1>1, Invariant, PTL

THEOREM PacedNeverRepeatsAlways ==
  ASSUME DvmConstants
  PROVE  Spec => []PacedNeverRepeats
<1>1. IInv => PacedNeverRepeats
  BY DEF IInv, TakeTurns, PacedNeverRepeats
<1> QED
  BY <1>1, Invariant, PTL
===============================================================================
