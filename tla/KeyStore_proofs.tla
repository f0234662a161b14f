--------------------------- MODULE KeyStore_proofs ---------------------------
(* For any masters, fingerprints, paths, templates and callbacks: a KeyStore *)
(* does not lose a key it has been given, and keeps none twice.              *)
EXTENDS KeyStore, SequenceTheorems, NaturalsInduction, WellFoundedInduction,
        TLAPS

-----------------------------------------------------------------------------
(* Sequences.                                                                *)

\* A non-empty set of numbers has a least one.
LEMMA Least ==
    ASSUME NEW D, D \subseteq Nat, D # {}
    PROVE  \E m \in D : \A d \in D : m <= d
<1> DEFINE R == OpToRel(<, Nat)
<1>1. IsWellFoundedOn(R, Nat)
  BY NatLessThanWellFounded
<1>2. PICK m \in D : \A d \in D : <<d, m>> \notin R
  <2> HIDE DEF R
  <2>1. QED
    BY <1>1, WFMin
<1>3. ASSUME NEW d \in D PROVE m <= d
  <2>1. d \in Nat /\ m \in Nat
    OBVIOUS
  <2>2. d < m => <<d, m>> \in R
    BY <2>1 DEF OpToRel
  <2> HIDE DEF R
  <2>3. QED
    BY <1>2, <2>1, <2>2
<1>4. QED
  BY <1>3

\* Induction up to n, over a set.
LEMMA Upto ==
    ASSUME NEW n \in Nat, NEW T, 0 \in T,
           \A i \in 1 .. n : i - 1 \in T => i \in T
    PROVE  \A i \in 0 .. n : i \in T
<1> SUFFICES ASSUME NEW j \in 0 .. n, j \notin T PROVE FALSE
  OBVIOUS
<1> DEFINE D == {i \in 0 .. n : i \notin T}
<1>1. D \subseteq Nat /\ D # {}
  OBVIOUS
<1>2. PICK m \in D : \A d \in D : m <= d
  <2> HIDE DEF D
  <2>1. QED
    BY <1>1, Least
<1>3. m \in 1 .. n /\ m - 1 \in 0 .. n /\ m - 1 \notin D
  BY <1>2
<1>4. QED
  BY <1>2, <1>3

\* A non-empty set of positions has a last one.
LEMMA MaxExists ==
    ASSUME NEW n \in Nat, NEW T \in SUBSET (1 .. n), T # {}
    PROVE  \E x \in T : \A y \in T : y <= x
<1> DEFINE D == {n - y : y \in T}
<1>1. D \subseteq Nat /\ D # {}
  <2>1. PICK y \in T : TRUE
    OBVIOUS
  <2>2. n - y \in D
    OBVIOUS
  <2>3. QED
    BY <2>2
<1>2. PICK m \in D : \A d \in D : m <= d
  <2> HIDE DEF D
  <2>1. QED
    BY <1>1, Least
<1>3. PICK x \in T : m = n - x
  OBVIOUS
<1>4. ASSUME NEW y \in T
      PROVE  y <= x
  <2>1. n - y \in D
    OBVIOUS
  <2>2. m <= n - y
    BY <1>2, <2>1
  <2>3. QED
    BY <1>3, <2>2
<1>5. QED
  BY <1>4

\* What inserting and removing leave of a sequence.
LEMMA Inserted ==
    ASSUME NEW S, NEW s \in Seq(S), NEW e \in S, NEW p \in 1 .. Len(s) + 1
    PROVE  /\ InsertAt(s, p, e) \in Seq(S)
           /\ Len(InsertAt(s, p, e)) = Len(s) + 1
           /\ InsertAt(s, p, e)[p] = e
           /\ \A i \in 1 .. p - 1 : InsertAt(s, p, e)[i] = s[i]
           /\ \A i \in p .. Len(s) : InsertAt(s, p, e)[i + 1] = s[i]
<1> DEFINE a == SubSeq(s, 1, p - 1)
           b == SubSeq(s, p, Len(s))
<1>1. a \in Seq(S) /\ Len(a) = p - 1 /\ \A i \in 1 .. p - 1 : a[i] = s[i]
  OBVIOUS
<1>2. b \in Seq(S) /\ Len(b) = Len(s) - p + 1 /\ \A i \in 1 .. Len(s) - p + 1 : b[i] = s[p + i - 1]
  OBVIOUS
<1>3. InsertAt(s, p, e) = a \o <<e>> \o b
  BY DEF InsertAt
<1> DEFINE r == InsertAt(s, p, e)
           c == a \o <<e>>
<1> HIDE DEF a, b
<1>4. c \in Seq(S) /\ Len(c) = p /\ c[p] = e /\ \A i \in 1 .. p - 1 : c[i] = s[i]
  BY <1>1
<1> HIDE DEF c
<1>5. r \in Seq(S) /\ Len(r) = Len(s) + 1
  BY <1>2, <1>3, <1>4 DEF c
<1>6. \A i \in 1 .. p : r[i] = c[i]
  BY <1>2, <1>3, <1>4 DEF c
<1>7. \A i \in 1 .. Len(s) - p + 1 : r[p + i] = b[i]
  BY <1>2, <1>3, <1>4 DEF c
<1>8. ASSUME NEW i \in p .. Len(s)
      PROVE  r[i + 1] = s[i]
  <2>1. i - p + 1 \in 1 .. Len(s) - p + 1 /\ p + (i - p + 1) = i + 1
    OBVIOUS
  <2>2. r[i + 1] = b[i - p + 1]
    BY <1>7, <2>1
  <2>3. b[i - p + 1] = s[i]
    BY <1>2, <2>1
  <2>4. QED
    BY <2>2, <2>3
<1>9. QED
  BY <1>4, <1>5, <1>6, <1>8

LEMMA Removed ==
    ASSUME NEW S, NEW s \in Seq(S), NEW p \in 1 .. Len(s)
    PROVE  /\ RemoveAt(s, p) \in Seq(S)
           /\ Len(RemoveAt(s, p)) = Len(s) - 1
           /\ \A i \in 1 .. p - 1 : RemoveAt(s, p)[i] = s[i]
           /\ \A i \in p .. Len(s) - 1 : RemoveAt(s, p)[i] = s[i + 1]
<1> DEFINE a == SubSeq(s, 1, p - 1)
           b == SubSeq(s, p + 1, Len(s))
<1>1. a \in Seq(S) /\ Len(a) = p - 1 /\ \A i \in 1 .. p - 1 : a[i] = s[i]
  OBVIOUS
<1>2. b \in Seq(S) /\ Len(b) = Len(s) - p /\ \A i \in 1 .. Len(s) - p : b[i] = s[p + i]
  OBVIOUS
<1>3. RemoveAt(s, p) = a \o b
  BY DEF RemoveAt
<1> DEFINE r == RemoveAt(s, p)
<1> HIDE DEF a, b
<1>4. r \in Seq(S) /\ Len(r) = Len(s) - 1
  BY <1>1, <1>2, <1>3
<1>5. \A i \in 1 .. p - 1 : r[i] = s[i]
  BY <1>1, <1>2, <1>3
<1>6. \A i \in 1 .. Len(s) - p : r[p - 1 + i] = b[i]
  BY <1>1, <1>2, <1>3
<1>7. ASSUME NEW i \in p .. Len(s) - 1
      PROVE  r[i] = s[i + 1]
  <2>1. i - p + 1 \in 1 .. Len(s) - p /\ p - 1 + (i - p + 1) = i
    OBVIOUS
  <2>2. r[i] = b[i - p + 1]
    BY <1>6, <2>1
  <2>3. b[i - p + 1] = s[i + 1]
    BY <1>2, <2>1
  <2>4. QED
    BY <2>2, <2>3
<1>8. QED
  BY <1>4, <1>5, <1>7

LEMMA BothEmpty ==
    ASSUME NEW S, NEW a \in Seq(S), NEW b \in Seq(S), a \o b = <<>>
    PROVE  a = <<>> /\ b = <<>>
<1>1. Len(a \o b) = Len(a) + Len(b) /\ Len(a) \in Nat /\ Len(b) \in Nat
  OBVIOUS
<1>2. Len(a) = 0 /\ Len(b) = 0
  BY <1>1
<1>3. QED
  BY <1>2

LEMMA InsertedFrom ==
    ASSUME NEW S, NEW s \in Seq(S), NEW e, NEW p \in 1 .. Len(s) + 1,
           NEW i \in DOMAIN InsertAt(s, p, e)
    PROVE  InsertAt(s, p, e)[i] = e \/ \E j \in DOMAIN s : InsertAt(s, p, e)[i] = s[j]
<1> DEFINE T == S \cup {e}
           new == InsertAt(s, p, e)
<1>1. s \in Seq(T) /\ e \in T /\ p \in 1 .. Len(s) + 1
  OBVIOUS
<1> HIDE DEF T, new
<1>2. /\ InsertAt(s, p, e) \in Seq(T) /\ Len(InsertAt(s, p, e)) = Len(s) + 1
      /\ InsertAt(s, p, e)[p] = e
      /\ \A j \in 1 .. p - 1 : InsertAt(s, p, e)[j] = s[j]
      /\ \A j \in p .. Len(s) : InsertAt(s, p, e)[j + 1] = s[j]
  BY <1>1, Inserted
<1>3. /\ new \in Seq(T) /\ Len(new) = Len(s) + 1 /\ new[p] = e
      /\ \A j \in 1 .. p - 1 : new[j] = s[j]
      /\ \A j \in p .. Len(s) : new[j + 1] = s[j]
  BY <1>2, Zenon DEF new
<1>4. i \in DOMAIN new
  BY DEF new
<1>5. Len(s) \in Nat /\ i \in 1 .. Len(s) + 1
  BY <1>3, <1>4
<1>6. new[i] = e \/ \E j \in DOMAIN s : new[i] = s[j]
  <2>1. CASE i < p
    BY <1>3, <1>5, <2>1
  <2>2. CASE i > p
    <3>1. i - 1 \in p .. Len(s) /\ (i - 1) + 1 = i /\ i - 1 \in DOMAIN s
      BY <1>5, <2>2
    <3>2. QED
      BY <1>3, <3>1
  <2>3. QED
    BY <1>3, <1>5, <2>1, <2>2
<1>7. QED
  BY <1>6 DEF new

LEMMA RemovedFrom ==
    ASSUME NEW S, NEW s \in Seq(S), NEW p \in DOMAIN s,
           NEW i \in DOMAIN RemoveAt(s, p)
    PROVE  \E j \in DOMAIN s : j # p /\ RemoveAt(s, p)[i] = s[j]
<1> DEFINE new == RemoveAt(s, p)
<1>1. Len(s) \in Nat /\ p \in 1 .. Len(s) /\ DOMAIN s = 1 .. Len(s)
  OBVIOUS
<1>2. /\ new \in Seq(S) /\ Len(new) = Len(s) - 1
      /\ \A j \in 1 .. p - 1 : new[j] = s[j]
      /\ \A j \in p .. Len(s) - 1 : new[j] = s[j + 1]
  BY <1>1, Removed
<1> HIDE DEF new
<1>3. i \in 1 .. Len(s) - 1
  BY <1>2 DEF new
<1>4. CASE i < p
  BY <1>1, <1>2, <1>3, <1>4 DEF new
<1>5. CASE i >= p
  <2>1. i \in p .. Len(s) - 1 /\ i + 1 \in DOMAIN s /\ i + 1 # p
    BY <1>1, <1>3, <1>5
  <2>2. QED
    BY <1>2, <2>1 DEF new
<1>6. QED
  BY <1>1, <1>3, <1>4, <1>5

-----------------------------------------------------------------------------
(* Templates and paths.                                                      *)

\* The two recursive functions are what their definitions say.
LEMMA BoundsFunction ==
    ASSUME NEW S, NEW parts \in Seq(S)
    PROVE  BoundsAfter(parts) =
             [n \in 0 .. Len(parts) |->
                IF n = 0 THEN <<>>
                ELSE AddPart(BoundsAfter(parts)[n - 1], parts[n])]
<1> DEFINE F(f, n) == f = [i \in 0 .. n |-> IF i = 0 THEN <<>>
                                            ELSE AddPart(f[i - 1], parts[i])]
           T == {n \in 0 .. Len(parts) : \E f : F(f, n)}
<1>0. Len(parts) \in Nat
  OBVIOUS
<1>1. 0 \in T
  <2>1. F([i \in 0 .. 0 |-> <<>>], 0)
    OBVIOUS
  <2> HIDE DEF F
  <2>2. QED
    BY <1>0, <2>1
<1>2. ASSUME NEW n \in 1 .. Len(parts), n - 1 \in T
      PROVE  n \in T
  <2>1. PICK f : F(f, n - 1)
    BY <1>2
  <2> DEFINE g == [i \in 0 .. n |-> IF i = n THEN AddPart(f[n - 1], parts[n])
                                    ELSE f[i]]
  <2>2. ASSUME NEW i \in 0 .. n
        PROVE  g[i] = IF i = 0 THEN <<>> ELSE AddPart(g[i - 1], parts[i])
    <3>1. CASE i = n
      <4>1. n - 1 \in 0 .. n /\ n # 0 /\ n - 1 # n
        BY <1>0
      <4>2. QED
        BY <3>1, <4>1
    <3>2. CASE i # n
      <4>1. i \in 0 .. n - 1
        BY <1>0, <3>2
      <4>2. f[i] = IF i = 0 THEN <<>> ELSE AddPart(f[i - 1], parts[i])
        BY <2>1, <4>1
      <4>3. i # 0 => i - 1 \in 0 .. n /\ i - 1 # n
        BY <1>0, <4>1
      <4>4. QED
        BY <3>2, <4>2, <4>3
    <3>3. QED
      BY <3>1, <3>2
  <2>3. F(g, n)
    <3> DEFINE h == [i \in 0 .. n |-> IF i = 0 THEN <<>>
                                      ELSE AddPart(g[i - 1], parts[i])]
    <3>1. \A i \in 0 .. n : g[i] = h[i]
      BY <2>2
    <3>2. DOMAIN g = 0 .. n /\ DOMAIN h = 0 .. n /\ g = [i \in 0 .. n |-> g[i]] /\ h = [i \in 0 .. n |-> h[i]]
      OBVIOUS
    <3> HIDE DEF h, g
    <3>3. g = h
      BY <3>1, <3>2
    <3>4. QED
      BY <3>3 DEF h
  <2> HIDE DEF g, F
  <2>4. QED
    BY <2>3, <1>0
<1>3. \E f : F(f, Len(parts))
  <2> HIDE DEF T
  <2>1. \A i \in 0 .. Len(parts) : i \in T
    BY <1>0, <1>1, <1>2, Upto
  <2>2. Len(parts) \in T
    BY <1>0, <2>1
  <2>3. QED
    BY <2>2 DEF T
<1>4. BoundsAfter(parts) = CHOOSE f : F(f, Len(parts))
  BY DEF BoundsAfter
<1>5. F(BoundsAfter(parts), Len(parts))
  <2> HIDE DEF F
  <2>1. QED
    BY <1>3, <1>4
<1>6. QED
  BY <1>5

LEMMA KeysFunction ==
    ASSUME NEW k, NEW S, NEW indexes \in Seq(S)
    PROVE  KeysAlong(k, indexes) =
             [n \in 0 .. Len(indexes) |->
                IF n = 0 THEN k
                ELSE Child(KeysAlong(k, indexes)[n - 1], indexes[n])]
<1> DEFINE F(f, n) == f = [i \in 0 .. n |-> IF i = 0 THEN k
                                            ELSE Child(f[i - 1], indexes[i])]
           T == {n \in 0 .. Len(indexes) : \E f : F(f, n)}
<1>0. Len(indexes) \in Nat
  OBVIOUS
<1>1. 0 \in T
  <2>1. F([i \in 0 .. 0 |-> k], 0)
    OBVIOUS
  <2> HIDE DEF F
  <2>2. QED
    BY <1>0, <2>1
<1>2. ASSUME NEW n \in 1 .. Len(indexes), n - 1 \in T
      PROVE  n \in T
  <2>1. PICK f : F(f, n - 1)
    BY <1>2
  <2> DEFINE g == [i \in 0 .. n |-> IF i = n THEN Child(f[n - 1], indexes[n])
                                    ELSE f[i]]
  <2>2. ASSUME NEW i \in 0 .. n
        PROVE  g[i] = IF i = 0 THEN k ELSE Child(g[i - 1], indexes[i])
    <3>1. CASE i = n
      <4>1. n - 1 \in 0 .. n /\ n # 0 /\ n - 1 # n
        BY <1>0
      <4>2. QED
        BY <3>1, <4>1
    <3>2. CASE i # n
      <4>1. i \in 0 .. n - 1
        BY <1>0, <3>2
      <4>2. f[i] = IF i = 0 THEN k ELSE Child(f[i - 1], indexes[i])
        BY <2>1, <4>1
      <4>3. i # 0 => i - 1 \in 0 .. n /\ i - 1 # n
        BY <1>0, <4>1
      <4>4. QED
        BY <3>2, <4>2, <4>3
    <3>3. QED
      BY <3>1, <3>2
  <2>3. F(g, n)
    <3> DEFINE h == [i \in 0 .. n |-> IF i = 0 THEN k
                                      ELSE Child(g[i - 1], indexes[i])]
    <3>1. \A i \in 0 .. n : g[i] = h[i]
      BY <2>2
    <3>2. /\ DOMAIN g = 0 .. n /\ g = [i \in 0 .. n |-> g[i]]
          /\ DOMAIN h = 0 .. n /\ h = [i \in 0 .. n |-> h[i]]
      OBVIOUS
    <3> HIDE DEF h, g
    <3>3. g = h
      BY <3>1, <3>2
    <3>4. QED
      BY <3>3 DEF h
  <2> HIDE DEF g, F
  <2>4. QED
    BY <2>3, <1>0
<1>3. \E f : F(f, Len(indexes))
  <2> HIDE DEF T
  <2>1. \A i \in 0 .. Len(indexes) : i \in T
    BY <1>0, <1>1, <1>2, Upto
  <2>2. Len(indexes) \in T
    BY <1>0, <2>1
  <2>3. QED
    BY <2>2 DEF T
<1>4. KeysAlong(k, indexes) = CHOOSE f : F(f, Len(indexes))
  BY DEF KeysAlong
<1>5. F(KeysAlong(k, indexes), Len(indexes))
  <2> HIDE DEF F
  <2>1. QED
    BY <1>3, <1>4
<1>6. QED
  BY <1>5
PartHas(part, m) == part[1] <= m /\ m <= Last(part)

\* Bounds that hold nothing but what is in a part.
Within(bounds, parts) ==
    /\ bounds \in Seq(Nat \X Nat)
    /\ \A k \in DOMAIN bounds :
          /\ bounds[k][2] < HardenedOffset
          /\ \A m \in bounds[k][1] .. bounds[k][2] :
                \E i \in DOMAIN parts : PartHas(parts[i], m)

LEMMA Fronts ==
    ASSUME NEW S, NEW s \in Seq(S), s # <<>>
    PROVE  /\ Front(s) \in Seq(S) /\ Len(Front(s)) = Len(s) - 1
           /\ \A i \in 1 .. Len(s) - 1 : Front(s)[i] = s[i]
<1> DEFINE n == Len(s) - 1
<1>1. n \in Nat /\ n <= Len(s)
  OBVIOUS
<1>2. Front(s) = SubSeq(s, 1, n)
  BY DEF Front
<1>3. n = Len(s) - 1 /\ \A i \in 1 .. n : i \in 1 .. Len(s)
  OBVIOUS
<1> HIDE DEF n
<1>4. /\ SubSeq(s, 1, n) \in Seq(S) /\ Len(SubSeq(s, 1, n)) = n
      /\ \A i \in 1 .. n : SubSeq(s, 1, n)[i] = s[i]
  BY <1>1, <1>3, SubSeqProperties
<1>5. QED
  BY <1>2, <1>3, <1>4

LEMMA AddWithin ==
    ASSUME NEW parts, NEW bounds, Within(bounds, parts), NEW i \in DOMAIN parts,
           parts[i] \in Seq(Nat), Len(parts[i]) \in 1 .. 2, PartOk(parts[i])
    PROVE  Within(AddPart(bounds, parts[i]), parts)
<1> DEFINE part == parts[i]
           new == AddPart(bounds, part)
           Fits(pair) == /\ pair \in Nat \X Nat /\ pair[2] < HardenedOffset
                         /\ \A m \in pair[1] .. pair[2] :
                               \E j \in DOMAIN parts : PartHas(parts[j], m)
<1>1. part[1] \in Nat /\ Last(part) \in Nat /\ Last(part) < HardenedOffset
  BY DEF PartOk, NumberOk, Last
<1>2. bounds \in Seq(Nat \X Nat) /\ \A k \in DOMAIN bounds : Fits(bounds[k])
  BY DEF Within
<1>3. CASE bounds # <<>> /\ Last(bounds)[2] + 1 = part[1]
  <2> DEFINE b == bounds[Len(bounds)]
             pair == <<b[1], Last(part)>>
  <2>1. b \in Nat \X Nat /\ Fits(b) /\ b[2] + 1 = part[1]
    BY <1>2, <1>3 DEF Last
  <2>2. new = Append(Front(bounds), pair)
    BY <1>3 DEF AddPart, Last
  <2>3. /\ Front(bounds) \in Seq(Nat \X Nat)
        /\ Len(Front(bounds)) = Len(bounds) - 1
        /\ \A k \in 1 .. Len(bounds) - 1 : Front(bounds)[k] = bounds[k]
    <3>1. bounds \in Seq(Nat \X Nat) /\ Len(bounds) \in Nat /\ Len(bounds) # 0
      BY <1>2, <1>3
    <3>2. QED
      BY <3>1, Fronts
  <2>4. Fits(pair)
    <3>1. pair \in Nat \X Nat /\ pair[1] = b[1] /\ pair[2] = Last(part)
      BY <1>1, <2>1
    <3>2. ASSUME NEW m \in pair[1] .. pair[2]
          PROVE  \E j \in DOMAIN parts : PartHas(parts[j], m)
      <4>1. m \in Int /\ b[1] \in Nat /\ b[2] \in Nat /\ b[1] <= m /\ m <= Last(part)
        BY <1>1, <2>1, <3>1
      <4>2. CASE m <= b[2]
        <5>1. m \in b[1] .. b[2]
          BY <4>1, <4>2
        <5>2. QED
          BY <2>1, <5>1
      <4>3. CASE ~(m <= b[2])
        <5>1. PartHas(part, m)
          BY <1>1, <2>1, <4>1, <4>3 DEF PartHas
        <5>2. QED
          BY <5>1
      <4>4. QED
        BY <4>2, <4>3
    <3>3. QED
      BY <1>1, <3>1, <3>2
  <2> HIDE DEF pair, b, Fits
  <2>5. pair \in Nat \X Nat
    BY <2>4 DEF Fits
  <2>6. new \in Seq(Nat \X Nat) /\ \A k \in DOMAIN new : Fits(new[k])
    <3> DEFINE front == Front(bounds)
    <3>1. \A k \in DOMAIN front : Fits(front[k])
      <4>1. \A k \in DOMAIN front : k \in DOMAIN bounds /\ front[k] = bounds[k]
        <5>1. Len(bounds) \in Nat /\ DOMAIN bounds = 1 .. Len(bounds)
          BY <1>2
        <5>2. DOMAIN front = 1 .. Len(front)
          BY <2>3
        <5>3. QED
          BY <2>3, <5>1, <5>2
      <4>2. QED
        BY <1>2, <4>1
    <3> HIDE DEF front
    <3>2. front \in Seq(Nat \X Nat)
      BY <2>3 DEF front
    <3>3. QED
      BY <2>2, <2>4, <2>5, <3>1, <3>2 DEF front
  <2>7. QED
    BY <2>6 DEF Within, Fits
<1>4. CASE ~(bounds # <<>> /\ Last(bounds)[2] + 1 = part[1])
  <2> DEFINE pair == <<part[1], Last(part)>>
  <2>1. new = Append(bounds, pair)
    BY <1>4 DEF AddPart
  <2>2. Fits(pair)
    <3>1. pair \in Nat \X Nat /\ pair[1] = part[1] /\ pair[2] = Last(part)
      BY <1>1
    <3>2. \A m \in pair[1] .. pair[2] : PartHas(part, m)
      BY <1>1, <3>1 DEF PartHas
    <3>3. QED
      BY <1>1, <3>1, <3>2
  <2> HIDE DEF pair, Fits
  <2>3. pair \in Nat \X Nat
    BY <2>2 DEF Fits
  <2>4. new \in Seq(Nat \X Nat) /\ \A k \in DOMAIN new : Fits(new[k])
    BY <1>2, <2>1, <2>2, <2>3
  <2>5. QED
    BY <2>4 DEF Within, Fits
<1>5. QED
  BY <1>3, <1>4

LEMMA SetWithin ==
    ASSUME NEW parts, parts \in Seq(Range(parts)),
           \A part \in Range(parts) : part \in Seq(Nat) /\ Len(part) \in 1 .. 2,
           \A i \in DOMAIN parts : PartOk(parts[i])
    PROVE  Within(BoundsAfter(parts)[Len(parts)], parts)
<1> DEFINE T == {n \in 0 .. Len(parts) : Within(BoundsAfter(parts)[n], parts)}
<1>1. Len(parts) \in Nat /\ DOMAIN parts = 1 .. Len(parts)
  OBVIOUS
<1>2. BoundsAfter(parts) =
         [n \in 0 .. Len(parts) |->
            IF n = 0 THEN <<>>
            ELSE AddPart(BoundsAfter(parts)[n - 1], parts[n])]
  BY BoundsFunction
<1>3. 0 \in T
  BY <1>1, <1>2 DEF Within
<1>4. ASSUME NEW n \in 1 .. Len(parts), n - 1 \in T
      PROVE  n \in T
  <2>1. Within(BoundsAfter(parts)[n - 1], parts)
    BY <1>4
  <2>2. BoundsAfter(parts)[n] = AddPart(BoundsAfter(parts)[n - 1], parts[n])
    <3> DEFINE f == BoundsAfter(parts)
    <3> HIDE DEF f
    <3>1. n \in 0 .. Len(parts) /\ n # 0
      BY <1>1
    <3>2. f[n] = IF n = 0 THEN <<>> ELSE AddPart(f[n - 1], parts[n])
      BY <1>2, <3>1 DEF f
    <3>3. QED
      BY <3>1, <3>2 DEF f
  <2>3. parts[n] \in Range(parts) /\ PartOk(parts[n])
    BY <1>1 DEF Range
  <2>4. Within(AddPart(BoundsAfter(parts)[n - 1], parts[n]), parts)
    BY <1>1, <2>1, <2>3, AddWithin
  <2>5. QED
    BY <1>1, <2>2, <2>4
<1> HIDE DEF T
<1>5. \A n \in 0 .. Len(parts) : n \in T
  BY <1>1, <1>3, <1>4, Upto
<1>6. QED
  BY <1>1, <1>5 DEF T

\* What an index of a template matches, its text says.
LEMMA IndexSays ==
    ASSUME NEW elt, ItemOk(elt.item), TemplateIndex(elt) # BadIndex,
           NEW n \in Index, NEW k \in DOMAIN TemplateIndex(elt),
           TemplateIndex(elt)[k][1] <= n, n <= TemplateIndex(elt)[k][2]
    PROVE  Says(elt, n)
<1> DEFINE o == Offset(elt)
           m == n - o
           item == elt.item
           bounds == CASE item[1] = "num" -> << <<item[2], item[2]>> >>
                       [] item[1] = "any" -> << <<0, HardenedOffset - 1>> >>
                       [] item[1] = "set" -> BoundsAfter(item[2])[Len(item[2])]
                       [] OTHER -> <<>>
           shifted == [i \in DOMAIN bounds |->
                           <<bounds[i][1] + o, bounds[i][2] + o>>]
           readable == CASE item[1] = "num" -> NumberOk(item[2])
                         [] item[1] = "set" ->
                               \A i \in DOMAIN item[2] : PartOk(item[2][i])
                         [] OTHER -> TRUE
<1>1. TemplateIndex(elt) = shifted /\ readable /\ BoundsOk(shifted)
  <2>1. TemplateIndex(elt) = IF readable /\ BoundsOk(shifted) THEN shifted ELSE BadIndex
    BY DEF TemplateIndex
  <2> HIDE DEF readable, shifted
  <2>2. QED
    BY <2>1
<1>2. o \in Nat /\ HardenedOffset \in Nat /\ n \in Int
  <2>1. HardenedOffset \in Nat
    BY BIP32Assumption
  <2>2. n \in Int
    BY DEF Index
  <2>3. Offset(elt) \in {0, HardenedOffset}
    BY DEF Offset
  <2>4. QED
    BY <2>1, <2>2, <2>3
<1>3. k \in DOMAIN bounds /\ bounds[k][1] + o <= n /\ n <= bounds[k][2] + o
  <2> HIDE DEF bounds, o
  <2>1. QED
    BY <1>1
<1>4. CASE item[1] = "num"
  <2>1. bounds = << <<item[2], item[2]>> >> /\ NumberOk(item[2]) /\ item[2] \in Nat
    BY <1>1, <1>4 DEF ItemOk
  <2>2. m = item[2] /\ m \in 0 .. HardenedOffset - 1
    <3> HIDE DEF bounds, o
    <3>1. k = 1 /\ bounds[k][1] = item[2] /\ bounds[k][2] = item[2]
      BY <1>3, <2>1
    <3>2. QED
      BY <1>2, <1>3, <2>1, <3>1 DEF NumberOk
  <2>3. QED
    BY <1>4, <2>2 DEF Says
<1>5. CASE item[1] = "any"
  <2>1. bounds = << <<0, HardenedOffset - 1>> >>
    BY <1>5
  <2>2. m \in 0 .. HardenedOffset - 1
    <3> HIDE DEF bounds, o
    <3>1. k = 1 /\ bounds[k][1] = 0 /\ bounds[k][2] = HardenedOffset - 1
      BY <1>3, <2>1
    <3>2. QED
      BY <1>2, <1>3, <3>1
  <2>3. QED
    BY <1>5, <2>2 DEF Says
<1>6. CASE item[1] = "set"
  <2> DEFINE parts == item[2]
  <2>1. /\ bounds = BoundsAfter(parts)[Len(parts)]
        /\ \A i \in DOMAIN parts : PartOk(parts[i])
    BY <1>1, <1>6
  <2>2. /\ parts \in Seq(Range(parts))
        /\ \A part \in Range(parts) : part \in Seq(Nat) /\ Len(part) \in 1 .. 2
    BY <1>6 DEF ItemOk
  <2>3. Within(bounds, parts)
    <3> HIDE DEF parts, bounds
    <3>1. QED
      BY <2>1, <2>2, SetWithin
  <2> HIDE DEF bounds, o
  <2>4. /\ bounds[k][1] \in Nat /\ bounds[k][2] \in Nat
        /\ bounds[k][2] < HardenedOffset
    BY <1>3, <2>3 DEF Within
  <2>5. m \in bounds[k][1] .. bounds[k][2] /\ m \in 0 .. HardenedOffset - 1
    BY <1>2, <1>3, <2>4
  <2>6. \E i \in DOMAIN parts : PartHas(parts[i], m)
    BY <1>3, <2>3, <2>5 DEF Within
  <2>7. QED
    BY <1>6, <2>5, <2>6 DEF Says, PartHas, o
<1>7. CASE item[1] \notin {"num", "any", "set"}
  <2>1. bounds = <<>>
    BY <1>7
  <2> HIDE DEF bounds
  <2>2. QED
    BY <1>3, <2>1
<1>8. QED
  BY <1>4, <1>5, <1>6, <1>7

\* Nothing but what its text says is matched by a template.
LEMMA TemplateSays ==
    ASSUME NEW text, TextOk(text), ParseTemplate(text) # BadTemplate,
           NEW full, NEW path \in Seq(Index),
           MatchPath(ParseTemplate(text), full, path)
    PROVE  TextPermits(text, full, path)
<1> DEFINE indexes == [i \in DOMAIN text.elts |-> TemplateIndex(text.elts[i])]
<1>1. /\ ParseTemplate(text) = [full |-> text.full, indexes |-> indexes]
      /\ \A i \in DOMAIN indexes : indexes[i] # BadIndex
  BY DEF ParseTemplate
<1>2. /\ ParseTemplate(text).full = text.full
      /\ ParseTemplate(text).indexes = indexes
  BY <1>1
<1>3. text.elts \in Seq(Range(text.elts)) /\ Len(indexes) = Len(text.elts)
      /\ DOMAIN indexes = DOMAIN text.elts
  BY DEF TextOk
<1>4. text.full = full /\ Len(path) = Len(text.elts)
  BY <1>2, <1>3 DEF MatchPath
<1>5. ASSUME NEW i \in DOMAIN path
      PROVE  Says(text.elts[i], path[i])
  <2>1. i \in DOMAIN text.elts /\ path[i] \in Index
    BY <1>3, <1>4
  <2>2. indexes[i] = TemplateIndex(text.elts[i])
    BY <2>1
  <2>3. PICK k \in DOMAIN TemplateIndex(text.elts[i]) :
           /\ TemplateIndex(text.elts[i])[k][1] <= path[i]
           /\ path[i] <= TemplateIndex(text.elts[i])[k][2]
    BY <1>2, <2>2 DEF MatchPath
  <2>4. ItemOk(text.elts[i].item)
    BY <2>1 DEF TextOk, Range
  <2>5. TemplateIndex(text.elts[i]) # BadIndex
    BY <1>1, <1>3, <2>1, <2>2
  <2>6. QED
    BY <2>1, <2>3, <2>4, <2>5, IndexSays
<1>6. QED
  BY <1>4, <1>5 DEF TextPermits
-----------------------------------------------------------------------------
(* The inductive invariant.                                                  *)

Same(e, g) == e.master = g.master /\ e.path = g.path /\ e.slot = g.slot

\* What is kept for a key: a record, with the templates parsed.
Texts == UNION {Range(texts) : texts \in TemplateLists \cup {s.default : s \in Settings}}
Parsed == {ParseTemplate(text) : text \in Texts}

Entry(e) ==
    /\ e = [master |-> e.master, path |-> e.path, slot |-> e.slot,
            templates |-> e.templates]
    /\ e.master \in Masters /\ e.path \in Paths /\ e.slot \in Slots
    /\ e.templates \in Seq(Parsed)
    /\ settings.require => e.templates # <<>>

\* The keys of one kind, in their order.
Elements(kind) == {xkeys[kind][i] : i \in DOMAIN xkeys[kind]}
StoreTypes ==
    /\ settings \in Settings /\ DOMAIN xkeys = Kinds
    /\ \A kind \in Kinds :
          /\ xkeys[kind] \in Seq(Elements(kind))
          /\ \A i \in DOMAIN xkeys[kind] : Entry(xkeys[kind][i])

\* Each text was given for a key that is held.
GrantedInv ==
    \A g \in granted :
       /\ g.kind \in Kinds
       /\ \E i \in DOMAIN xkeys[g.kind] : Same(xkeys[g.kind][i], g)

\* A slot holds a key once.
UniqueInv ==
    \A kind \in Kinds : \A i, j \in DOMAIN xkeys[kind] :
       Same(xkeys[kind][i], xkeys[kind][j]) => i = j

StoreInv == StoreTypes /\ GrantedInv /\ UniqueInv

\* Derivation information fits the length of the path, and is that of the
\* path unless somebody claimed it.
InfoOk(info, master, path, claimed) ==
    /\ info # NoInfo =>
          /\ info \in [mfp : Range(Fingerprint), path : Paths]
          /\ Len(info.path) = Len(path)
    /\ claimed \/ info = NoInfo
       \/ info = [mfp |-> Fingerprint[master], path |-> path]
KeyOk(k) ==
    /\ k = [master |-> k.master, path |-> k.path, priv |-> k.priv,
            info |-> k.info, claimed |-> k.claimed]
    /\ k.master \in Masters /\ k.path \in Paths
    /\ k.priv \in BOOLEAN /\ k.claimed \in BOOLEAN
    /\ InfoOk(k.info, k.master, k.path, k.claimed)
KeyInv ==
    /\ KeyOk(xkey)
    /\ DOMAIN plain = Kinds
    /\ \A kind \in Kinds : plain[kind] \subseteq Masters \X Paths

\* What is remembered of a call of add_key.
GrantOk(g) ==
    /\ g = [kind |-> g.kind, master |-> g.master, path |-> g.path,
            slot |-> g.slot, claimed |-> g.claimed, texts |-> g.texts]
    /\ \/ g.claimed \/ g.slot.mfp = NoFingerprint
       \/ g.slot = [mfp |-> Fingerprint[g.master], indexes |-> g.path]
    /\ g.texts \in Seq(Texts)
GrantsInv == \A g \in granted : GrantOk(g)

\* The templates of an entry are those of the texts given for it, and it has
\* none only if there were none.
Given(grants, kind, e) == {g \in grants : g.kind = kind /\ Same(e, g)}
Justified(grants, kind, e) ==
    /\ Given(grants, kind, e) # {}
    /\ \A n \in DOMAIN e.templates :
          /\ e.templates[n] # BadTemplate
          /\ \E g \in Given(grants, kind, e) : \E m \in DOMAIN g.texts :
                e.templates[n] = ParseTemplate(g.texts[m])
    /\ e.templates = <<>> =>
          \A g \in Given(grants, kind, e) : g.texts = <<>>
TemplatesInv ==
    \A kind \in Kinds : \A i \in DOMAIN xkeys[kind] :
       Justified(granted, kind, xkeys[kind][i])

IInv == StoreInv /\ KeyInv /\ GrantsInv /\ TemplatesInv

\* A step that leaves the extended keys alone.
LEMMA Untouched ==
    ASSUME StoreInv, UNCHANGED <<settings, xkeys, granted>>
    PROVE  StoreInv'
BY DEF StoreInv, StoreTypes, Entry, Elements, GrantedInv, UniqueInv

\* A step that changes the keys of one kind.
LEMMA Changed ==
    ASSUME StoreInv, NEW kind \in Kinds, NEW S, NEW seq \in Seq(S),
           \A i \in DOMAIN seq : Entry(seq[i]),
           xkeys' = [xkeys EXCEPT ![kind] = seq], settings' = settings
    PROVE  /\ xkeys'[kind] = seq
           /\ \A k \in Kinds \ {kind} : xkeys'[k] = xkeys[k]
           /\ StoreTypes'
<1>1. /\ DOMAIN xkeys' = Kinds /\ xkeys'[kind] = seq
      /\ \A k \in Kinds \ {kind} : xkeys'[k] = xkeys[k]
  BY DEF StoreInv, StoreTypes
<1>2. seq \in Seq({seq[i] : i \in DOMAIN seq})
  OBVIOUS
<1>3. Elements(kind)' = {seq[i] : i \in DOMAIN seq}
  BY <1>1 DEF Elements
<1>4. \A k \in Kinds \ {kind} : Elements(k)' = Elements(k)
  BY <1>1 DEF Elements
<1>5. ASSUME NEW k \in Kinds
      PROVE  xkeys'[k] \in Seq(Elements(k)')
  <2>1. CASE k = kind
    BY <1>1, <1>2, <1>3, <2>1
  <2>2. CASE k # kind
    BY <1>1, <1>4, <2>2 DEF StoreInv, StoreTypes
  <2>3. QED
    BY <2>1, <2>2
<1>6. ASSUME NEW e, Entry(e)
      PROVE  Entry(e)'
  BY <1>6 DEF Entry
<1>7. ASSUME NEW k \in Kinds, NEW i \in DOMAIN xkeys'[k]
      PROVE  Entry(xkeys[k][i])'
  <2> DEFINE e == xkeys'[k][i]
  <2>1. Entry(e)
    <3>1. CASE k = kind
      BY <1>1, <3>1
    <3>2. CASE k # kind
      BY <1>1, <3>2 DEF StoreInv, StoreTypes
    <3>3. QED
      BY <3>1, <3>2
  <2>2. QED
    BY <2>1 DEF Entry
<1>8. settings' \in Settings
  BY DEF StoreInv, StoreTypes
<1>9. StoreTypes'
  BY <1>1, <1>5, <1>7, <1>8 DEF StoreTypes
<1>10. QED
  BY <1>1, <1>9

-----------------------------------------------------------------------------
(* The key in the caller's hands.                                            *)

LEMMA SlotTypes ==
    ASSUME NEW info, NEW master, NEW path, NEW claimed,
           InfoOk(info, master, path, claimed)
    PROVE  SlotOf(info) \in Slots
BY DEF InfoOk, SlotOf, Slots, Paths

LEMMA InfoOfBytesOk ==
    ASSUME NEW master \in Masters, NEW path \in Paths, NEW claimed
    PROVE  InfoOk(InfoOfBytes(master, path), master, path, claimed)
<1>1. Fingerprint[master] \in Range(Fingerprint)
  BY KeyStoreAssumption
<1>2. [mfp |-> Fingerprint[master], path |-> path]
      \in [mfp : Range(Fingerprint), path : Paths]
  BY <1>1
<1>3. QED
  BY <1>2 DEF InfoOk, InfoOfBytes

LEMMA KeyMade ==
    ASSUME NEW k, NEW master \in Masters, NEW path \in Paths,
           NEW priv \in BOOLEAN, NEW info, NEW claimed \in BOOLEAN,
           k = [master |-> master, path |-> path, priv |-> priv,
                info |-> info, claimed |-> claimed],
           InfoOk(info, master, path, claimed)
    PROVE  KeyOk(k)
<1>1. /\ k.master = master /\ k.path = path /\ k.priv = priv
      /\ k.info = info /\ k.claimed = claimed
  BY Zenon
<1>2. QED
  BY <1>1, Zenon DEF KeyOk

LEMMA FromBytesOk ==
    ASSUME NEW master \in Masters, NEW path \in Paths, NEW priv \in BOOLEAN
    PROVE  KeyOk(FromBytes(master, path, priv))
<1>1. PICK c \in BOOLEAN : c = FALSE
  BY Zenon
<1>2. FromBytes(master, path, priv)
      = [master |-> master, path |-> path, priv |-> priv,
         info |-> InfoOfBytes(master, path), claimed |-> c]
  BY <1>1, Zenon DEF FromBytes
<1>3. InfoOk(InfoOfBytes(master, path), master, path, c)
  BY InfoOfBytesOk
<1>4. QED
  BY <1>2, <1>3, KeyMade, Zenon

\* The fields that are replaced in a key.
LEMMA TwoFields ==
    ASSUME NEW a, NEW b, NEW c, NEW d, NEW e, NEW x, NEW y
    PROVE  /\ [[master |-> a, path |-> b, priv |-> c, info |-> d, claimed |-> e]
                  EXCEPT !.claimed = y]
              = [master |-> a, path |-> b, priv |-> c, info |-> d, claimed |-> y]
           /\ [[master |-> a, path |-> b, priv |-> c, info |-> d, claimed |-> e]
                  EXCEPT !.info = x, !.claimed = y]
              = [master |-> a, path |-> b, priv |-> c, info |-> x, claimed |-> y]
<1> DEFINE r == [master |-> a, path |-> b, priv |-> c, info |-> d, claimed |-> e]
<1>1. [r EXCEPT !.claimed = y]
      = [master |-> a, path |-> b, priv |-> c, info |-> d, claimed |-> y]
  OBVIOUS
<1>2. [r EXCEPT !.info = x]
      = [master |-> a, path |-> b, priv |-> c, info |-> x, claimed |-> e]
  OBVIOUS
<1>3. [[r EXCEPT !.info = x] EXCEPT !.claimed = y]
      = [master |-> a, path |-> b, priv |-> c, info |-> x, claimed |-> y]
  <2> DEFINE q == [master |-> a, path |-> b, priv |-> c, info |-> x, claimed |-> e]
  <2>1. [q EXCEPT !.claimed = y]
        = [master |-> a, path |-> b, priv |-> c, info |-> x, claimed |-> y]
    OBVIOUS
  <2>2. QED
    BY <1>2, <2>1, Zenon
<1>4. [r EXCEPT !.info = x, !.claimed = y]
      = [[r EXCEPT !.info = x] EXCEPT !.claimed = y]
  OBVIOUS
<1>5. QED
  BY <1>1, <1>3, <1>4, Zenon

\* A key made from another: the information it is given is either none but
\* that of its bytes, or what follows from that of the other.
LEMMA WithInfoOk ==
    ASSUME NEW k, KeyOk(k), NEW path \in Paths, NEW priv \in BOOLEAN, NEW info,
           k.info # NoInfo => InfoOk(info, k.master, path, k.claimed)
    PROVE  KeyOk(WithInfo(FromBytes(k.master, path, priv), k, info))
<1> DEFINE f == FromBytes(k.master, path, priv)
           w == WithInfo(f, k, info)
<1>1. k.master \in Masters /\ k.claimed \in BOOLEAN
  BY DEF KeyOk
<1>3. PICK e : f = [master |-> k.master, path |-> path, priv |-> priv,
                    info |-> InfoOfBytes(k.master, path), claimed |-> e]
  BY Zenon DEF FromBytes
<1> HIDE DEF f
<1>4. CASE k.info = NoInfo
  <2>1. w = [f EXCEPT !.claimed = k.claimed]
    BY <1>4 DEF WithInfo
  <2>2. w = [master |-> k.master, path |-> path, priv |-> priv,
             info |-> InfoOfBytes(k.master, path), claimed |-> k.claimed]
    BY <1>3, <2>1, TwoFields, Zenon
  <2>3. InfoOk(InfoOfBytes(k.master, path), k.master, path, k.claimed)
    BY <1>1, InfoOfBytesOk
  <2> HIDE DEF w
  <2>4. QED
    BY <1>1, <2>2, <2>3, KeyMade, Zenon DEF w, f
<1>5. CASE k.info # NoInfo
  <2>1. w = [f EXCEPT !.info = info, !.claimed = k.claimed]
    BY <1>5 DEF WithInfo
  <2>2. w = [master |-> k.master, path |-> path, priv |-> priv,
             info |-> info, claimed |-> k.claimed]
    BY <1>3, <2>1, TwoFields, Zenon
  <2> HIDE DEF w
  <2>3. QED
    BY <1>1, <1>5, <2>2, KeyMade, Zenon DEF w, f
<1>6. QED
  BY <1>4, <1>5

LEMMA ChildOk ==
    ASSUME NEW k, KeyOk(k), NEW n \in Index
    PROVE  KeyOk(Child(k, n))
<1> DEFINE path == Append(k.path, n)
           info == [k.info EXCEPT !.path = Append(@, n)]
<1>1. path \in Paths /\ Len(path) = Len(k.path) + 1
  BY DEF KeyOk, Paths
<1>2. ASSUME k.info # NoInfo
      PROVE  InfoOk(info, k.master, path, k.claimed)
  <2>1. /\ k.info \in [mfp : Range(Fingerprint), path : Paths]
        /\ Len(k.info.path) = Len(k.path)
    BY <1>2 DEF KeyOk, InfoOk
  <2>2. info = [mfp |-> k.info.mfp, path |-> Append(k.info.path, n)]
    BY <2>1, SMTT(30)
  <2>3. /\ info \in [mfp : Range(Fingerprint), path : Paths]
        /\ info.path = Append(k.info.path, n)
        /\ Len(info.path) = Len(path)
    <3>1. /\ k.info.mfp \in Range(Fingerprint) /\ k.info.path \in Seq(Index)
          /\ Append(k.info.path, n) \in Seq(Index)
          /\ Len(Append(k.info.path, n)) = Len(k.info.path) + 1
      BY <2>1 DEF Paths
    <3> HIDE DEF info, path
    <3>2. QED
      BY <1>1, <2>1, <2>2, <3>1 DEF Paths
  <2>4. \/ k.claimed
        \/ k.info = [mfp |-> Fingerprint[k.master], path |-> k.path]
    BY <1>2 DEF KeyOk, InfoOk
  <2>5. k.info = [mfp |-> Fingerprint[k.master], path |-> k.path]
        => info = [mfp |-> Fingerprint[k.master], path |-> path]
    BY <2>2
  <2> HIDE DEF info, path
  <2>6. QED
    BY <2>3, <2>4, <2>5 DEF InfoOk
<1>3. k.priv \in BOOLEAN
  BY DEF KeyOk
<1>4. Child(k, n) = WithInfo(FromBytes(k.master, path, k.priv), k, info)
  BY DEF Child
<1> HIDE DEF info, path
<1>5. QED
  BY <1>1, <1>2, <1>3, <1>4, WithInfoOk

LEMMA NeuterOk ==
    ASSUME NEW k, KeyOk(k)
    PROVE  KeyOk(Neuter(k))
<1>1. PICK priv \in BOOLEAN : priv = FALSE
  BY Zenon
<1>2. Neuter(k) = WithInfo(FromBytes(k.master, k.path, priv), k, k.info)
  BY <1>1, Zenon DEF Neuter
<1>3. k.path \in Paths /\ InfoOk(k.info, k.master, k.path, k.claimed)
  BY DEF KeyOk
<1>4. QED
  BY <1>2, <1>3, WithInfoOk

LEMMA AlongOk ==
    ASSUME NEW k, KeyOk(k), NEW indexes \in Seq(Index)
    PROVE  KeyOk(KeysAlong(k, indexes)[Len(indexes)])
<1> DEFINE f == KeysAlong(k, indexes)
           T == {n \in 0 .. Len(indexes) : KeyOk(f[n])}
<1>1. Len(indexes) \in Nat /\ \A n \in 1 .. Len(indexes) : indexes[n] \in Index
  OBVIOUS
<1>2. f = [n \in 0 .. Len(indexes) |->
              IF n = 0 THEN k ELSE Child(f[n - 1], indexes[n])]
  BY KeysFunction
<1> HIDE DEF f
<1>3. 0 \in T
  BY <1>1, <1>2
<1>4. ASSUME NEW n \in 1 .. Len(indexes), n - 1 \in T
      PROVE  n \in T
  <2>1. n \in 0 .. Len(indexes) /\ n # 0
    BY <1>1
  <2>2. f[n] = Child(f[n - 1], indexes[n])
    BY <1>2, <2>1
  <2>3. KeyOk(f[n - 1])
    BY <1>4
  <2>4. KeyOk(Child(f[n - 1], indexes[n]))
    BY <1>1, <2>3, ChildOk
  <2>5. QED
    BY <2>1, <2>2, <2>4
<1> HIDE DEF T
<1>5. \A n \in 0 .. Len(indexes) : n \in T
  BY <1>1, <1>3, <1>4, Upto
<1>6. QED
  BY <1>1, <1>5 DEF T, f

LEMMA PathTypes ==
    ASSUME NEW text, TextOk(text), ParsePath(text) # BadPath
    PROVE  ParsePath(text).indexes \in Seq(Index)
<1> DEFINE indexes == [i \in DOMAIN text.elts |-> PathIndex(text.elts[i])]
<1>1. /\ ParsePath(text).indexes = indexes
      /\ \A i \in DOMAIN indexes : indexes[i] # -1
  BY DEF ParsePath
<1>2. ASSUME NEW i \in DOMAIN text.elts
      PROVE  indexes[i] \in Index
  <2> DEFINE elt == text.elts[i]
  <2>1. PathIndex(elt) # -1
    BY <1>1
  <2>2. ItemOk(elt.item)
    BY DEF TextOk, Range
  <2>3. /\ elt.item[2] \in Nat /\ elt.item[2] < HardenedOffset
        /\ PathIndex(elt) = elt.item[2] + Offset(elt)
    BY <2>1, <2>2 DEF PathIndex, ItemOk, NumberOk
  <2>4. HardenedOffset \in Nat /\ Offset(elt) \in {0, HardenedOffset}
    BY BIP32Assumption DEF Offset
  <2>5. QED
    BY <2>3, <2>4 DEF Index
<1>3. QED
  BY <1>1, <1>2, SMTT(30) DEF TextOk

-----------------------------------------------------------------------------
(* Adding and removing keys.                                                 *)

LEMMA PlaceInRange ==
    ASSUME NEW S, NEW seq \in Seq(S), NEW k
    PROVE  Place(seq, k) \in 1 .. Len(seq) + 1
<1> DEFINE same == {i \in DOMAIN seq : seq[i].slot = SlotOf(k.info)}
<1>1. CASE same = {}
  BY <1>1 DEF Place
<1>2. CASE same # {}
  <2>1. same \in SUBSET (1 .. Len(seq)) /\ Len(seq) \in Nat
    OBVIOUS
  <2>2. Place(seq, k) = 1 + CHOOSE i \in same : \A j \in same : j <= i
    BY <1>2 DEF Place
  <2> HIDE DEF same
  <2>3. \E i \in same : \A j \in same : j <= i
    BY <1>2, <2>1, MaxExists
  <2>4. (CHOOSE i \in same : \A j \in same : j <= i) \in 1 .. Len(seq)
    BY <2>1, <2>3
  <2>5. QED
    BY <2>1, <2>2, <2>4
<1>3. QED
  BY <1>1, <1>2

LEMMA TextTypes ==
    ASSUME settings \in Settings, NEW texts \in TemplateLists
    PROVE  InEffect(texts) \in Seq(Texts)
<1>1. InEffect(texts) \in TemplateLists \cup {s.default : s \in Settings}
  BY DEF InEffect
<1>2. InEffect(texts) \in Seq(Range(InEffect(texts)))
  BY <1>1, KeyStoreAssumption
<1>3. \A i \in DOMAIN InEffect(texts) : InEffect(texts)[i] \in Texts
  BY <1>1 DEF Texts, Range
<1>4. QED
  BY <1>2, <1>3

LEMMA TemplateTypes ==
    ASSUME settings \in Settings, NEW texts \in TemplateLists
    PROVE  Templates(texts) \in Seq(Parsed)
BY TextTypes DEF Templates, Parsed

LEMMA ExtendedFields ==
    ASSUME NEW e, NEW templates \in Seq(Parsed), Entry(e)
    PROVE  /\ Entry(Extended(e, templates)) /\ Same(Extended(e, templates), e)
           /\ Extended(e, templates).templates = e.templates \o templates
<1>1. Extended(e, templates)
      = [master |-> e.master, path |-> e.path, slot |-> e.slot,
         templates |-> e.templates \o templates]
  <2>1. ASSUME NEW a, NEW b, NEW c, NEW d, NEW t
        PROVE  [[master |-> a, path |-> b, slot |-> c, templates |-> d]
                   EXCEPT !.templates = t]
               = [master |-> a, path |-> b, slot |-> c, templates |-> t]
    OBVIOUS
  <2>2. e = [master |-> e.master, path |-> e.path, slot |-> e.slot,
             templates |-> e.templates]
    BY DEF Entry
  <2> DEFINE both == e.templates \o templates
  <2>3. Extended(e, templates) = [e EXCEPT !.templates = both]
    BY DEF Extended
  <2> HIDE DEF both
  <2>4. [e EXCEPT !.templates = both]
        = [master |-> e.master, path |-> e.path, slot |-> e.slot,
           templates |-> both]
    BY <2>1, <2>2
  <2>5. QED
    BY <2>3, <2>4 DEF both
<1>2. /\ e.templates \o templates \in Seq(Parsed)
      /\ e.templates # <<>> => e.templates \o templates # <<>>
  BY DEF Entry
<1>3. QED
  BY <1>1, <1>2 DEF Entry, Same

\* The keys of one kind are replaced by ones that keep the invariant.
LEMMA Kept ==
    ASSUME StoreInv, NEW kind \in Kinds, NEW S, NEW seq \in Seq(S),
           \A i \in DOMAIN seq : Entry(seq[i]),
           \A i, j \in DOMAIN seq : Same(seq[i], seq[j]) => i = j,
           xkeys' = [xkeys EXCEPT ![kind] = seq], settings' = settings,
           \A g \in granted' :
              \/ g.kind = kind /\ \E i \in DOMAIN seq : Same(seq[i], g)
              \/ g.kind # kind /\ g \in granted
    PROVE  StoreInv'
<1>1. /\ xkeys'[kind] = seq
      /\ \A k \in Kinds \ {kind} : xkeys'[k] = xkeys[k]
      /\ StoreTypes'
  BY Changed
<1>2. ASSUME NEW k \in Kinds,
             NEW i \in DOMAIN xkeys'[k], NEW j \in DOMAIN xkeys'[k],
             Same(xkeys'[k][i], xkeys'[k][j])
      PROVE  i = j
  <2>1. CASE k = kind
    BY <1>1, <1>2, <2>1
  <2>2. CASE k # kind
    BY <1>1, <1>2, <2>2 DEF StoreInv, UniqueInv
  <2>3. QED
    BY <2>1, <2>2
<1>3. UniqueInv'
  BY <1>2 DEF UniqueInv, Same
<1>4. ASSUME NEW g \in granted'
      PROVE  /\ g.kind \in Kinds
             /\ \E i \in DOMAIN xkeys'[g.kind] : Same(xkeys'[g.kind][i], g)
  <2>1. CASE g.kind = kind
    BY <1>1, <2>1
  <2>2. CASE g.kind # kind /\ g \in granted
    BY <1>1, <2>2 DEF StoreInv, GrantedInv
  <2>3. QED
    BY <2>1, <2>2
<1>5. GrantedInv'
  BY <1>4 DEF GrantedInv, Same
<1>6. QED
  BY <1>1, <1>3, <1>5 DEF StoreInv

\* A key that is not held is put in its place.
LEMMA AddNew ==
    ASSUME StoreInv, NEW kind \in Kinds, NEW e, Entry(e), NEW k,
           \A i \in DOMAIN xkeys[kind] : ~Same(xkeys[kind][i], e),
           NEW g, g.kind = kind, Same(e, g),
           xkeys' = [xkeys EXCEPT
              ![kind] = InsertAt(xkeys[kind], Place(xkeys[kind], k), e)],
           granted' = granted \cup {g}, settings' = settings
    PROVE  StoreInv'
<1> DEFINE seq == xkeys[kind]
           S == Elements(kind) \cup {e}
           p == Place(seq, k)
           new == InsertAt(seq, p, e)
<1>1. seq \in Seq(Elements(kind)) /\ \A i \in DOMAIN seq : Entry(seq[i])
  BY DEF StoreInv, StoreTypes
<1>2. seq \in Seq(S) /\ e \in S
  BY <1>1
<1>3. p \in 1 .. Len(seq) + 1
  BY <1>1, PlaceInRange
<1>4. /\ \A i, j \in DOMAIN seq : Same(seq[i], seq[j]) => i = j
      /\ \A h \in granted : h.kind \in Kinds
                             /\ \E i \in DOMAIN xkeys[h.kind] :
                                   Same(xkeys[h.kind][i], h)
  BY DEF StoreInv, UniqueInv, GrantedInv
<1> HIDE DEF S, p
<1>5. /\ new \in Seq(S) /\ Len(new) = Len(seq) + 1 /\ new[p] = e
      /\ \A i \in 1 .. p - 1 : new[i] = seq[i]
      /\ \A i \in p .. Len(seq) : new[i + 1] = seq[i]
  BY <1>2, <1>3, Inserted
<1>6. xkeys' = [xkeys EXCEPT ![kind] = new]
  BY DEF p
<1> HIDE DEF new, seq
<1>7. Len(seq) \in Nat /\ DOMAIN seq = 1 .. Len(seq)
      /\ DOMAIN new = 1 .. Len(seq) + 1 /\ p \in DOMAIN new
  BY <1>1, <1>3, <1>5
\* Where an element of new comes from, and where one of seq goes.
<1> DEFINE From(i) == IF i < p THEN i ELSE i - 1
<1>8. \A i \in DOMAIN new \ {p} : From(i) \in DOMAIN seq /\ new[i] = seq[From(i)]
  <2> TAKE i \in DOMAIN new \ {p}
  <2>1. CASE i < p
    BY <1>3, <1>5, <1>7, <2>1
  <2>2. CASE i > p
    <3>1. i - 1 \in p .. Len(seq) /\ (i - 1) + 1 = i
      BY <1>3, <1>7, <2>2
    <3>2. QED
      BY <1>3, <1>5, <1>7, <2>2, <3>1
  <2>3. QED
    BY <1>3, <1>7, <2>1, <2>2
<1>9. \A i \in DOMAIN seq : \E j \in DOMAIN new : new[j] = seq[i]
  <2> TAKE i \in DOMAIN seq
  <2>1. CASE i < p
    BY <1>3, <1>5, <1>7, <2>1
  <2>2. CASE i >= p
    <3>1. i \in p .. Len(seq) /\ i + 1 \in DOMAIN new
      BY <1>3, <1>7, <2>2
    <3>2. QED
      BY <1>5, <3>1
  <2>3. QED
    BY <1>3, <1>7, <2>1, <2>2
<1>10. \A i, j \in DOMAIN new \ {p} : From(i) = From(j) => i = j
  BY <1>3, <1>7
<1>11. \A i \in DOMAIN seq : ~Same(seq[i], e) /\ ~Same(e, seq[i])
  BY DEF Same, seq
<1>12. \A i \in DOMAIN new : Entry(new[i])
  BY <1>1, <1>5, <1>8
<1>13. \A i, j \in DOMAIN new : Same(new[i], new[j]) => i = j
  <2> HIDE DEF From
  <2> TAKE i, j \in DOMAIN new
  <2> HAVE Same(new[i], new[j])
  <2>1. CASE i # p /\ j # p
    BY <1>4, <1>8, <1>10, <2>1 DEF seq
  <2>2. CASE i = p /\ j # p
    BY <1>5, <1>8, <1>11, <2>2
  <2>3. CASE i # p /\ j = p
    BY <1>5, <1>8, <1>11, <2>3
  <2>4. QED
    BY <2>1, <2>2, <2>3
<1>14. ASSUME NEW h \in granted'
       PROVE  \/ h.kind = kind /\ \E i \in DOMAIN new : Same(new[i], h)
              \/ h.kind # kind /\ h \in granted
  <2>1. CASE h = g
    BY <1>5, <1>7, <2>1
  <2>2. CASE h \in granted /\ h.kind = kind
    BY <1>4, <1>9, <2>2 DEF seq
  <2>3. QED
    BY <2>1, <2>2
<1>15. QED
  BY <1>5, <1>6, <1>12, <1>13, <1>14, Kept

\* A key that is held gets more templates.
LEMMA AddMore ==
    ASSUME StoreInv, NEW kind \in Kinds, NEW held \in SUBSET DOMAIN xkeys[kind],
           NEW templates \in Seq(Parsed), NEW g, g.kind = kind,
           \E i \in held : Same(xkeys[kind][i], g),
           xkeys' = [xkeys EXCEPT
              ![kind] = [i \in DOMAIN xkeys[kind] |->
                            IF i \in held
                            THEN Extended(xkeys[kind][i], templates)
                            ELSE xkeys[kind][i]]],
           granted' = granted \cup {g}, settings' = settings
    PROVE  StoreInv'
<1> DEFINE seq == xkeys[kind]
           new == [i \in DOMAIN seq |->
                      IF i \in held THEN Extended(seq[i], templates)
                      ELSE seq[i]]
           S == {new[i] : i \in DOMAIN seq}
<1>1. seq \in Seq(Elements(kind)) /\ \A i \in DOMAIN seq : Entry(seq[i])
  BY DEF StoreInv, StoreTypes
<1>2. /\ \A i, j \in DOMAIN seq : Same(seq[i], seq[j]) => i = j
      /\ \A h \in granted : h.kind \in Kinds
                             /\ \E i \in DOMAIN xkeys[h.kind] :
                                   Same(xkeys[h.kind][i], h)
  BY DEF StoreInv, UniqueInv, GrantedInv
<1>3. DOMAIN new = DOMAIN seq /\ new \in Seq(S)
  <2>1. DOMAIN seq = 1 .. Len(seq) /\ Len(seq) \in Nat
    BY <1>1
  <2>2. DOMAIN new = DOMAIN seq /\ new \in [DOMAIN seq -> S]
    OBVIOUS
  <2> HIDE DEF new, S, seq
  <2>3. QED
    BY <2>1, <2>2
<1>4. \A i \in DOMAIN seq : Entry(new[i]) /\ Same(new[i], seq[i])
  <2> TAKE i \in DOMAIN seq
  <2>1. CASE i \in held
    BY <1>1, <2>1, ExtendedFields
  <2>2. CASE i \notin held
    BY <1>1, <2>2 DEF Same
  <2>3. QED
    BY <2>1, <2>2
<1>5. xkeys' = [xkeys EXCEPT ![kind] = new]
  OBVIOUS
<1> HIDE DEF new, S
<1>6. \A i, j \in DOMAIN new : Same(new[i], new[j]) => i = j
  BY <1>2, <1>3, <1>4 DEF Same
<1>7. ASSUME NEW h \in granted'
      PROVE  \/ h.kind = kind /\ \E i \in DOMAIN new : Same(new[i], h)
             \/ h.kind # kind /\ h \in granted
  <2>1. CASE h = g
    BY <1>3, <1>4, <2>1 DEF Same
  <2>2. CASE h \in granted /\ h.kind = kind
    BY <1>2, <1>3, <1>4, <2>2, SMTT(30) DEF Same
  <2>3. QED
    BY <2>1, <2>2
<1>8. QED
  BY <1>3, <1>4, <1>5, <1>6, <1>7, Kept

LEMMA AddStep ==
    ASSUME StoreInv, KeyInv, NEW texts \in TemplateLists, AddKey(texts)
    PROVE  StoreInv'
<1> DEFINE kind == Kind(xkey)
           seq == xkeys[kind]
           held == {i \in DOMAIN seq : Holds(seq[i], xkey)}
           e == [master |-> xkey.master, path |-> xkey.path,
                 slot |-> SlotOf(xkey.info), templates |-> Templates(texts)]
           g == [kind |-> kind, master |-> xkey.master, path |-> xkey.path,
                 slot |-> SlotOf(xkey.info), claimed |-> xkey.claimed,
                 texts |-> InEffect(texts)]
<1>1. kind \in Kinds
  BY DEF Kind, Kinds
<1>2. Templates(texts) \in Seq(Parsed)
  BY TemplateTypes DEF StoreInv, StoreTypes
<1>3. Entry(e)
  <2>1. settings.require => Templates(texts) # <<>>
    BY DEF AddKey, Addable
  <2>2. /\ xkey.master \in Masters /\ xkey.path \in Paths
        /\ SlotOf(xkey.info) \in Slots
    BY SlotTypes DEF KeyInv, KeyOk
  <2>3. e = [master |-> e.master, path |-> e.path, slot |-> e.slot,
             templates |-> e.templates]
    OBVIOUS
  <2>4. QED
    BY <1>2, <2>1, <2>2, <2>3 DEF Entry
<1>4. g.kind = kind /\ Same(e, g)
  BY DEF Same
<1>5. granted' = granted \cup {g} /\ settings' = settings
  BY DEF AddKey
<1>6. \A i \in DOMAIN seq :
         /\ i \in held <=> Same(seq[i], e)
         /\ i \in held <=> Same(seq[i], g)
  BY DEF Holds, Same
<1>7. CASE held = {}
  <2>1. xkeys' = [xkeys EXCEPT ![kind] = InsertAt(seq, Place(seq, xkey), e)]
    BY <1>7 DEF AddKey
  <2>2. \A i \in DOMAIN seq : ~Same(seq[i], e)
    BY <1>6, <1>7
  <2> HIDE DEF e, g, kind, held
  <2>3. QED
    BY <1>1, <1>3, <1>4, <1>5, <2>1, <2>2, AddNew
<1>8. CASE held # {}
  <2>1. xkeys' = [xkeys EXCEPT ![kind] =
                     [i \in DOMAIN seq |->
                         IF i \in held THEN Extended(seq[i], Templates(texts))
                         ELSE seq[i]]]
    BY <1>8 DEF AddKey
  <2>2. held \in SUBSET DOMAIN seq /\ \E i \in held : Same(seq[i], g)
    BY <1>6, <1>8
  <2> HIDE DEF e, g, kind, held
  <2>3. QED
    BY <1>1, <1>2, <1>4, <1>5, <2>1, <2>2, AddMore
<1>9. QED
  BY <1>7, <1>8

\* remove_key takes the one entry of the key out; the others stay.
LEMMA RemoveStep ==
    ASSUME StoreInv, RemoveExtendedKey
    PROVE  StoreInv'
<1> DEFINE kind == Kind(xkey)
           seq == xkeys[kind]
<1>1. PICK p \in DOMAIN seq :
         /\ Holds(seq[p], xkey)
         /\ xkeys' = [xkeys EXCEPT ![kind] = RemoveAt(@, p)]
  BY DEF RemoveExtendedKey
<1>2. /\ granted' = {g \in granted : ~(g.kind = kind /\ Holds(g, xkey))}
      /\ settings' = settings
  BY DEF RemoveExtendedKey
<1>3. kind \in Kinds
  BY DEF Kind, Kinds
<1>4. seq \in Seq(Elements(kind)) /\ \A i \in DOMAIN seq : Entry(seq[i])
  BY <1>3 DEF StoreInv, StoreTypes
<1>5. /\ \A i, j \in DOMAIN seq : Same(seq[i], seq[j]) => i = j
      /\ \A h \in granted : h.kind \in Kinds
                             /\ \E i \in DOMAIN xkeys[h.kind] :
                                   Same(xkeys[h.kind][i], h)
  BY <1>3 DEF StoreInv, UniqueInv, GrantedInv
<1> DEFINE new == RemoveAt(seq, p)
<1>6. xkeys' = [xkeys EXCEPT ![kind] = new]
  BY <1>1
<1>7. Len(seq) \in Nat /\ DOMAIN seq = 1 .. Len(seq) /\ p \in 1 .. Len(seq)
  BY <1>4
<1>8. /\ new \in Seq(Elements(kind)) /\ Len(new) = Len(seq) - 1
      /\ \A i \in 1 .. p - 1 : new[i] = seq[i]
      /\ \A i \in p .. Len(seq) - 1 : new[i] = seq[i + 1]
  BY <1>4, <1>7, Removed
<1>9. \A g : Holds(g, xkey) => Same(seq[p], g)
  BY <1>1 DEF Holds, Same
<1>10. \A g : Same(seq[p], g) => Holds(g, xkey)
  BY <1>1 DEF Holds, Same
<1> HIDE DEF new, seq, kind
<1>11. DOMAIN new = 1 .. Len(seq) - 1
  BY <1>7, <1>8
<1> DEFINE From(i) == IF i < p THEN i ELSE i + 1
<1>12. \A i \in DOMAIN new : From(i) \in DOMAIN seq /\ new[i] = seq[From(i)]
  <2> TAKE i \in DOMAIN new
  <2>1. CASE i < p
    BY <1>7, <1>8, <1>11, <2>1
  <2>2. CASE i >= p
    BY <1>7, <1>8, <1>11, <2>2
  <2>3. QED
    BY <1>7, <1>11, <2>1, <2>2
<1>13. \A i \in DOMAIN seq \ {p} : \E j \in DOMAIN new : new[j] = seq[i]
  <2> TAKE i \in DOMAIN seq \ {p}
  <2>1. CASE i < p
    BY <1>7, <1>8, <1>11, <2>1
  <2>2. CASE i > p
    <3>1. i - 1 \in p .. Len(seq) - 1 /\ (i - 1) + 1 = i
          /\ i - 1 \in DOMAIN new
      BY <1>7, <1>11, <2>2
    <3>2. QED
      BY <1>8, <3>1
  <2>3. QED
    BY <1>7, <2>1, <2>2
<1>14. \A i, j \in DOMAIN new : From(i) = From(j) => i = j
  BY <1>7, <1>11
<1> HIDE DEF From
<1>15. \A i \in DOMAIN new : Entry(new[i])
  BY <1>4, <1>12
<1>16. \A i, j \in DOMAIN new : Same(new[i], new[j]) => i = j
  BY <1>5, <1>12, <1>14
<1>17. ASSUME NEW h \in granted'
       PROVE  \/ h.kind = kind /\ \E i \in DOMAIN new : Same(new[i], h)
              \/ h.kind # kind /\ h \in granted
  <2>1. h \in granted /\ ~(h.kind = kind /\ Holds(h, xkey))
    BY <1>2
  <2>2. CASE h.kind = kind
    <3>1. PICK i \in DOMAIN seq : Same(seq[i], h)
      BY <1>5, <2>1, <2>2 DEF seq
    <3>2. i # p
      BY <1>10, <2>1, <2>2, <3>1
    <3>3. QED
      BY <1>13, <2>2, <3>1, <3>2
  <2>3. QED
    BY <2>1, <2>2
<1>18. QED
  BY <1>2, <1>3, <1>6, <1>8, <1>15, <1>16, <1>17, Kept

-----------------------------------------------------------------------------
(* The invariant holds, and finds the keys.                                  *)

LEMMA StoreInit == Init => StoreInv
<1> SUFFICES ASSUME Init PROVE StoreInv
  OBVIOUS
<1>1. /\ xkeys = [kind \in Kinds |-> <<>>] /\ granted = {}
      /\ settings \in Settings
  BY DEF Init
<1>2. \A kind \in Kinds : xkeys[kind] \in Seq(Elements(kind))
                         /\ DOMAIN xkeys[kind] = {}
  BY <1>1
<1>3. QED
  BY <1>1, <1>2 DEF StoreInv, StoreTypes, GrantedInv, UniqueInv

LEMMA StoreStep == StoreInv /\ KeyInv /\ [Next]_vars => StoreInv'
<1> SUFFICES ASSUME StoreInv, KeyInv, [Next]_vars PROVE StoreInv'
  OBVIOUS
<1>1. CASE AddExtendedKey
  BY <1>1, AddStep DEF AddExtendedKey
<1>2. CASE RemoveExtendedKey
  BY <1>2, RemoveStep
<1>3. CASE \/ TakeSeed \/ ReadBack \/ Derive \/ DerivePath \/ TakePub
           \/ AssignDerivationInfo
  <2>1. UNCHANGED <<settings, xkeys, granted>>
    BY <1>3 DEF TakeSeed, ReadBack, Derive, DerivePath, TakePub,
                AssignDerivationInfo, store
  <2>2. QED
    BY <2>1, Untouched
<1>4. CASE AddPlainKey \/ RemovePlainKey \/ ReplaceExternalLookup
  <2>1. UNCHANGED <<settings, xkeys, granted>>
    BY <1>4 DEF AddPlainKey, RemovePlainKey, ReplaceExternalLookup
  <2>2. QED
    BY <2>1, Untouched
<1>5. CASE UNCHANGED vars
  BY <1>5, Untouched DEF vars
<1>6. QED
  BY <1>1, <1>2, <1>3, <1>4, <1>5 DEF Next

LEMMA KeyInit == Init => KeyInv
<1> SUFFICES ASSUME Init PROVE KeyInv
  OBVIOUS
<1>1. PICK m \in Masters : xkey = FromSeed(m)
  BY DEF Init
<1>2. PICK priv \in BOOLEAN : priv = TRUE
  BY Zenon
<1>3. xkey = FromBytes(m, <<>>, priv)
  BY <1>1, <1>2, Zenon DEF FromSeed
<1>4. KeyOk(xkey)
  <2>1. <<>> \in Paths
    BY DEF Paths
  <2>2. QED
    BY <1>3, <2>1, FromBytesOk
<1>5. QED
  BY <1>4 DEF Init, KeyInv

LEMMA KeyStep == KeyInv /\ [Next]_vars => KeyInv'
<1> SUFFICES ASSUME KeyInv, [Next]_vars PROVE KeyInv'
  OBVIOUS
<1>1. ASSUME KeyOk(xkey'), UNCHANGED plain
      PROVE  KeyInv'
  BY <1>1 DEF KeyInv, KeyOk, InfoOk
<1>2. CASE TakeSeed
  <2>1. PICK m \in Masters : xkey' = FromSeed(m)
    BY <1>2 DEF TakeSeed
  <2>2. PICK priv \in BOOLEAN : priv = TRUE
    BY Zenon
  <2>3. xkey' = FromBytes(m, <<>>, priv) /\ <<>> \in Paths
    BY <2>1, <2>2, Zenon, EmptySeq DEF FromSeed, Paths
  <2>4. QED
    BY <1>1, <1>2, <2>3, FromBytesOk DEF TakeSeed, store
<1>3. CASE ReadBack
  <2>1. /\ xkey.master \in Masters /\ xkey.path \in Paths
        /\ xkey.priv \in BOOLEAN
    BY DEF KeyInv, KeyOk
  <2>2. QED
    BY <1>1, <1>3, <2>1, FromBytesOk DEF ReadBack, store
<1>4. CASE Derive
  <2>1. PICK n \in DeriveIndexes : xkey' = Child(xkey, n)
    BY <1>4 DEF Derive
  <2>2. n \in Index
    BY KeyStoreAssumption
  <2>3. QED
    BY <1>1, <1>4, <2>1, <2>2, ChildOk DEF Derive, store, KeyInv
<1>5. CASE DerivePath
  <2>1. PICK text \in PathTexts :
           /\ ParsePath(text) # BadPath
           /\ xkey' = KeysAlong(xkey, ParsePath(text).indexes)
                        [Len(ParsePath(text).indexes)]
    BY <1>5 DEF DerivePath
  <2>2. ParsePath(text).indexes \in Seq(Index)
    BY <2>1, PathTypes, KeyStoreAssumption
  <2>3. QED
    BY <1>1, <1>5, <2>1, <2>2, AlongOk DEF DerivePath, store, KeyInv
<1>6. CASE TakePub
  BY <1>1, <1>6, NeuterOk DEF TakePub, store, KeyInv
<1>7. CASE AssignDerivationInfo
  <2>1. PICK info \in Claims :
           /\ CanClaim(xkey, info)
           /\ xkey' = [xkey EXCEPT !.info = info, !.claimed = TRUE]
    BY <1>7 DEF AssignDerivationInfo
  <2>2. PICK claimed \in BOOLEAN : claimed = TRUE
    BY Zenon
  <2>3. xkey' = [xkey EXCEPT !.info = info, !.claimed = claimed]
    BY <2>1, <2>2, Zenon
  <2>4. xkey = [master |-> xkey.master, path |-> xkey.path, priv |-> xkey.priv,
                info |-> xkey.info, claimed |-> xkey.claimed]
    BY DEF KeyInv, KeyOk
  <2>5. xkey' = [master |-> xkey.master, path |-> xkey.path,
                 priv |-> xkey.priv, info |-> info, claimed |-> claimed]
    BY <2>3, <2>4, TwoFields, Zenon
  <2>6. InfoOk(info, xkey.master, xkey.path, claimed)
    <3>1. info \in [mfp : Range(Fingerprint), path : Paths]
      BY KeyStoreAssumption DEF Paths
    <3>2. Len(info.path) = Len(xkey.path)
      BY <2>1 DEF CanClaim, Depth
    <3>3. QED
      BY <2>2, <3>1, <3>2, Zenon DEF InfoOk
  <2>7. /\ xkey.master \in Masters /\ xkey.path \in Paths
        /\ xkey.priv \in BOOLEAN
    BY DEF KeyInv, KeyOk
  <2>8. KeyOk(xkey')
    BY <2>5, <2>6, <2>7, KeyMade, Zenon
  <2>9. QED
    BY <1>1, <1>7, <2>8 DEF AssignDerivationInfo, store
<1>8. CASE AddPlainKey \/ RemovePlainKey
  <2>1. KeyId(xkey) \in Masters \X Paths
    BY DEF KeyId, KeyInv, KeyOk
  <2>2. DOMAIN plain = Kinds /\ \A k \in Kinds : plain[k] \subseteq Masters \X Paths
    BY DEF KeyInv
  <2>3. PICK kind, ids :
           /\ ids \subseteq Masters \X Paths
           /\ plain' = [plain EXCEPT ![kind] = ids]
    <3>1. CASE AddPlainKey
      <4>1. PICK kind \in {Kind(xkey), "pub"} :
               plain' = [plain EXCEPT ![kind] = @ \cup {KeyId(xkey)}]
        BY <3>1 DEF AddPlainKey
      <4>2. kind \in Kinds
        BY DEF Kind, Kinds
      <4>3. QED
        BY <2>1, <2>2, <4>1, <4>2
    <3>2. CASE RemovePlainKey
      <4>1. PICK kind \in {Kind(xkey), "pub"} :
               plain' = [plain EXCEPT ![kind] = @ \ {KeyId(xkey)}]
        BY <3>2 DEF RemovePlainKey
      <4>2. kind \in Kinds
        BY DEF Kind, Kinds
      <4>3. QED
        BY <2>1, <2>2, <4>1, <4>2
    <3>3. QED
      BY <1>8, <3>1, <3>2
  <2>4. /\ DOMAIN plain' = Kinds
        /\ \A k \in Kinds : plain'[k] \subseteq Masters \X Paths
    BY <2>2, <2>3
  <2>5. UNCHANGED xkey
    BY <1>8 DEF AddPlainKey, RemovePlainKey
  <2>6. QED
    BY <2>4, <2>5 DEF KeyInv, KeyOk, InfoOk
<1>9. CASE \/ AddExtendedKey \/ RemoveExtendedKey \/ ReplaceExternalLookup
           \/ UNCHANGED vars
  <2>1. UNCHANGED <<xkey, plain>>
    BY <1>9 DEF AddExtendedKey, AddKey, RemoveExtendedKey,
                ReplaceExternalLookup, vars
  <2>2. QED
    BY <1>1, <2>1 DEF KeyInv
<1>10. QED
  BY <1>2, <1>3, <1>4, <1>5, <1>6, <1>7, <1>8, <1>9 DEF Next

\* What add_key remembers is true if what the key carries is.
LEMMA GrantsStep == StoreInv /\ KeyInv /\ GrantsInv /\ [Next]_vars => GrantsInv'
<1> SUFFICES ASSUME StoreInv, KeyInv, GrantsInv, [Next]_vars PROVE GrantsInv'
  OBVIOUS
<1>1. ASSUME granted' \subseteq granted
      PROVE  GrantsInv'
  BY <1>1 DEF GrantsInv, GrantOk
<1>2. CASE AddExtendedKey
  <2>1. PICK texts \in TemplateLists : AddKey(texts)
    BY <1>2 DEF AddExtendedKey
  <2> DEFINE g == [kind |-> Kind(xkey), master |-> xkey.master,
                   path |-> xkey.path, slot |-> SlotOf(xkey.info),
                   claimed |-> xkey.claimed, texts |-> InEffect(texts)]
  <2>2. granted' = granted \cup {g}
    BY <2>1 DEF AddKey
  <2>3. g = [kind |-> g.kind, master |-> g.master, path |-> g.path,
             slot |-> g.slot, claimed |-> g.claimed, texts |-> g.texts]
    BY Zenon
  <2>4. g.master = xkey.master /\ g.path = xkey.path
        /\ g.slot = SlotOf(xkey.info) /\ g.claimed = xkey.claimed
        /\ g.texts = InEffect(texts)
    BY Zenon
  <2>5. \/ xkey.claimed \/ xkey.info = NoInfo
        \/ xkey.info = [mfp |-> Fingerprint[xkey.master], path |-> xkey.path]
    BY DEF KeyInv, KeyOk, InfoOk
  <2>6. xkey.info = NoInfo => SlotOf(xkey.info).mfp = NoFingerprint
    BY DEF SlotOf
  <2>7. xkey.info = [mfp |-> Fingerprint[xkey.master], path |-> xkey.path]
        => \/ SlotOf(xkey.info).mfp = NoFingerprint
           \/ SlotOf(xkey.info) = [mfp |-> Fingerprint[xkey.master],
                                   indexes |-> xkey.path]
    BY DEF SlotOf
  <2>8. InEffect(texts) \in Seq(Texts)
    BY TextTypes DEF StoreInv, StoreTypes
  <2> HIDE DEF g
  <2>9. GrantOk(g)
    BY <2>3, <2>4, <2>5, <2>6, <2>7, <2>8, Zenon DEF GrantOk
  <2>10. QED
    BY <2>2, <2>9 DEF GrantsInv, GrantOk
<1>3. CASE RemoveExtendedKey
  BY <1>1, <1>3 DEF RemoveExtendedKey
<1>4. CASE ~AddExtendedKey /\ ~RemoveExtendedKey
  BY <1>1, <1>4 DEF Next, TakeSeed, ReadBack, Derive, DerivePath, TakePub,
     AssignDerivationInfo, AddPlainKey, RemovePlainKey, ReplaceExternalLookup,
     store, vars
<1>5. QED
  BY <1>2, <1>3, <1>4

\* An entry whose texts are still remembered, and no others.
LEMMA StillJustified ==
    ASSUME NEW grants, NEW others, NEW kind, NEW e, Justified(grants, kind, e),
           \A g : g.kind = kind /\ Same(e, g) => (g \in grants <=> g \in others)
    PROVE  Justified(others, kind, e)
<1>1. Given(others, kind, e) = Given(grants, kind, e)
  BY DEF Given
<1>2. QED
  BY <1>1 DEF Justified

LEMMA AddJustified ==
    ASSUME StoreInv, KeyInv, TemplatesInv, NEW texts \in TemplateLists,
           AddKey(texts)
    PROVE  TemplatesInv'
<1> DEFINE kind == Kind(xkey)
           seq == xkeys[kind]
           held == {i \in DOMAIN seq : Holds(seq[i], xkey)}
           templates == Templates(texts)
           e == [master |-> xkey.master, path |-> xkey.path,
                 slot |-> SlotOf(xkey.info), templates |-> templates]
           g == [kind |-> kind, master |-> xkey.master, path |-> xkey.path,
                 slot |-> SlotOf(xkey.info), claimed |-> xkey.claimed,
                 texts |-> InEffect(texts)]
           new == xkeys'[kind]
<1>1. kind \in Kinds /\ DOMAIN xkeys = Kinds
  BY DEF Kind, Kinds, StoreInv, StoreTypes
<1>2. granted' = granted \cup {g} /\ g.kind = kind /\ g.texts = InEffect(texts)
  BY DEF AddKey
<1>3. Same(e, g) /\ e.templates = templates
      /\ \A i \in DOMAIN seq : i \in held <=> Same(seq[i], g)
  BY DEF Holds, Same
<1>4. /\ DOMAIN templates = DOMAIN InEffect(texts)
      /\ templates \in Seq(Parsed) /\ InEffect(texts) \in Seq(Texts)
      /\ \A n \in DOMAIN templates :
            /\ templates[n] # BadTemplate
            /\ templates[n] = ParseTemplate(InEffect(texts)[n])
  <2>1. templates \in Seq(Parsed)
    BY TemplateTypes DEF StoreInv, StoreTypes
  <2>2. \A n \in DOMAIN templates : templates[n] # BadTemplate
    BY DEF AddKey, Addable
  <2>3. InEffect(texts) \in Seq(Texts)
    BY TextTypes DEF StoreInv, StoreTypes
  <2>4. QED
    BY <2>1, <2>2, <2>3 DEF Templates
<1>5. ASSUME NEW k \in Kinds, NEW x, Justified(granted, k, x),
             k # kind \/ ~Same(x, g)
      PROVE  Justified(granted', k, x)
  <2>1. \A h : h.kind = k /\ Same(x, h) => (h \in granted <=> h \in granted')
    BY <1>2, <1>5
  <2>2. QED
    BY <1>5, <2>1, StillJustified
<1>6. /\ \A k \in Kinds \ {kind} : xkeys'[k] = xkeys[k]
      /\ new = IF held = {} THEN InsertAt(seq, Place(seq, xkey), e)
               ELSE [i \in DOMAIN seq |->
                        IF i \in held THEN Extended(seq[i], templates)
                        ELSE seq[i]]
  BY <1>1 DEF AddKey
<1> HIDE DEF g, templates
<1>7. ASSUME NEW i \in DOMAIN new
      PROVE  Justified(granted', kind, new[i])
  <2>1. \A j \in DOMAIN seq : Justified(granted, kind, seq[j])
    BY <1>1 DEF TemplatesInv
  <2>2. \A h \in granted : h.kind = kind =>
           \E j \in DOMAIN seq : Same(seq[j], h)
    BY DEF StoreInv, GrantedInv
  <2>3. seq \in Seq(Elements(kind)) /\ \A j \in DOMAIN seq : Entry(seq[j])
    BY <1>1 DEF StoreInv, StoreTypes
  <2> HIDE DEF e, seq, kind, new, held
  <2>4. CASE held = {}
    <3>1. ASSUME NEW h \in Given(granted', kind, e)
          PROVE  h = g
      <4>1. h \in granted \cup {g} /\ h.kind = kind /\ Same(e, h)
        BY <1>2 DEF Given
      <4>2. ASSUME h \in granted
            PROVE  FALSE
        <5>1. PICK j \in DOMAIN seq : Same(seq[j], h)
          BY <2>2, <4>1, <4>2
        <5>2. Same(seq[j], g)
          BY <1>3, <4>1, <5>1 DEF Same
        <5>3. QED
          BY <1>3, <2>4, <5>2
      <4>3. QED
        BY <4>1, <4>2
    <3>2. g \in Given(granted', kind, e)
      BY <1>2, <1>3 DEF Given
    <3>3. \A n \in DOMAIN e.templates :
             /\ e.templates[n] # BadTemplate
             /\ \E m \in DOMAIN g.texts : e.templates[n] = ParseTemplate(g.texts[m])
      BY <1>2, <1>3, <1>4
    <3>4. e.templates = <<>> => g.texts = <<>>
      BY <1>2, <1>3, <1>4
    <3>5. Justified(granted', kind, e)
      BY <3>1, <3>2, <3>3, <3>4 DEF Justified
    <3>6. new = InsertAt(seq, Place(seq, xkey), e)
      BY <1>6, <2>4
    <3>7. new[i] = e \/ \E j \in DOMAIN seq : new[i] = seq[j]
      BY <2>3, <3>6, PlaceInRange, InsertedFrom
    <3>8. QED
      BY <1>1, <1>3, <1>5, <2>1, <2>4, <3>5, <3>7
  <2>5. CASE held # {}
    <3>1. DOMAIN new = DOMAIN seq /\ new[i] = IF i \in held
                                             THEN Extended(seq[i], templates)
                                             ELSE seq[i]
      BY <1>6, <2>5
    <3>2. CASE i \notin held
      BY <1>1, <1>3, <1>5, <2>1, <3>1, <3>2
    <3>3. CASE i \in held
      <4> DEFINE x == seq[i]
                 y == Extended(x, templates)
      <4>1. /\ new[i] = y /\ Entry(x) /\ Same(x, g)
            /\ Justified(granted, kind, x)
        BY <1>3, <2>1, <2>3, <3>1, <3>3
      <4>2. Same(y, x) /\ y.templates = x.templates \o templates
        BY <1>4, <4>1, ExtendedFields
      <4>3. x.templates \in Seq(Parsed)
        BY <4>1 DEF Entry
      <4> HIDE DEF x, y
      <4>4. Given(granted', kind, y) = Given(granted, kind, x) \cup {g}
        BY <1>2, <4>1, <4>2 DEF Given, Same
      <4>5. ASSUME NEW n \in DOMAIN y.templates
            PROVE  /\ y.templates[n] # BadTemplate
                   /\ \E h \in Given(granted', kind, y) : \E m \in DOMAIN h.texts :
                         y.templates[n] = ParseTemplate(h.texts[m])
        <5>1. \/ n \in DOMAIN x.templates /\ y.templates[n] = x.templates[n]
              \/ \E m \in DOMAIN templates : y.templates[n] = templates[m]
          BY <1>4, <4>2, <4>3
        <5>2. CASE n \in DOMAIN x.templates /\ y.templates[n] = x.templates[n]
          BY <4>1, <4>4, <5>2 DEF Justified
        <5>3. CASE \E m \in DOMAIN templates : y.templates[n] = templates[m]
          BY <1>2, <1>4, <4>4, <5>3
        <5>4. QED
          BY <5>1, <5>2, <5>3
      <4>6. y.templates = <<>> => x.templates = <<>> /\ templates = <<>>
        BY <1>4, <4>2, <4>3, BothEmpty
      <4>7. templates = <<>> => g.texts = <<>>
        BY <1>2, <1>4
      <4>8. QED
        BY <4>1, <4>4, <4>5, <4>6, <4>7 DEF Justified
    <3>4. QED
      BY <3>2, <3>3
  <2>6. QED
    BY <2>4, <2>5
<1> HIDE DEF kind, new
<1>8. ASSUME NEW k \in Kinds, NEW i \in DOMAIN xkeys'[k]
      PROVE  Justified(granted', k, xkeys'[k][i])
  <2>1. CASE k = kind
    BY <1>7, <2>1 DEF new
  <2>2. CASE k # kind
    BY <1>5, <1>6, <2>2 DEF TemplatesInv
  <2>3. QED
    BY <2>1, <2>2
<1>9. QED
  BY <1>8 DEF TemplatesInv, Justified, Given, Same

LEMMA RemoveJustified ==
    ASSUME StoreInv, KeyInv, TemplatesInv, RemoveExtendedKey
    PROVE  TemplatesInv'
<1> DEFINE kind == Kind(xkey)
           seq == xkeys[kind]
           new == xkeys'[kind]
<1>1. kind \in Kinds /\ DOMAIN xkeys = Kinds
  BY DEF Kind, Kinds, StoreInv, StoreTypes
<1>2. PICK p \in DOMAIN seq :
         Holds(seq[p], xkey) /\ xkeys' = [xkeys EXCEPT ![kind] = RemoveAt(@, p)]
  BY DEF RemoveExtendedKey
<1>3. granted' = {g \in granted : ~(g.kind = kind /\ Holds(g, xkey))}
  BY DEF RemoveExtendedKey
<1>4. new = RemoveAt(seq, p) /\ \A k \in Kinds \ {kind} : xkeys'[k] = xkeys[k]
  BY <1>1, <1>2
<1>5. seq \in Seq(Elements(kind))
      /\ \A i, j \in DOMAIN seq : Same(seq[i], seq[j]) => i = j
  BY <1>1 DEF StoreInv, StoreTypes, UniqueInv
<1>6. ASSUME NEW k \in Kinds, NEW x, Justified(granted, k, x),
             k # kind \/ ~Same(x, seq[p])
      PROVE  Justified(granted', k, x)
  <2>1. ASSUME NEW h, h.kind = k, Same(x, h)
        PROVE  h \in granted <=> h \in granted'
    <3>1. ~(h.kind = kind /\ Holds(h, xkey))
      BY <1>2, <1>6, <2>1 DEF Holds, Same
    <3>2. QED
      BY <1>3, <3>1
  <2>2. QED
    BY <1>6, <2>1, StillJustified
<1> HIDE DEF kind, new, seq
<1>7. ASSUME NEW k \in Kinds, NEW i \in DOMAIN xkeys'[k]
      PROVE  Justified(granted', k, xkeys'[k][i])
  <2>1. CASE k = kind
    <3>1. PICK j \in DOMAIN seq : j # p /\ new[i] = seq[j]
      BY <1>4, <1>5, <2>1, RemovedFrom DEF new
    <3>2. ~Same(seq[j], seq[p]) /\ Justified(granted, kind, seq[j])
      BY <1>1, <1>5, <3>1 DEF TemplatesInv, seq
    <3>3. QED
      BY <1>6, <2>1, <3>1, <3>2 DEF new
  <2>2. CASE k # kind
    BY <1>4, <1>6, <2>2 DEF TemplatesInv
  <2>3. QED
    BY <2>1, <2>2
<1>8. QED
  BY <1>7 DEF TemplatesInv, Justified, Given, Same

LEMMA IInvInit == Init => IInv
<1>1. Init => granted = {} /\ xkeys = [kind \in Kinds |-> <<>>]
  BY DEF Init
<1>2. QED
  BY <1>1, StoreInit, KeyInit DEF IInv, GrantsInv, TemplatesInv

LEMMA IInvStep == IInv /\ [Next]_vars => IInv'
<1> SUFFICES ASSUME IInv, [Next]_vars PROVE IInv'
  OBVIOUS
<1>1. StoreInv' /\ KeyInv' /\ GrantsInv'
  BY StoreStep, KeyStep, GrantsStep DEF IInv
<1>2. StoreInv /\ KeyInv /\ TemplatesInv
  BY DEF IInv
<1>3. TemplatesInv'
  <2>1. CASE AddExtendedKey
    <3>1. PICK texts \in TemplateLists : AddKey(texts)
      BY <2>1 DEF AddExtendedKey
    <3>2. QED
      BY <1>2, <3>1, AddJustified
  <2>2. CASE RemoveExtendedKey
    BY <1>2, <2>2, RemoveJustified
  <2>3. CASE ~AddExtendedKey /\ ~RemoveExtendedKey
    <3>1. UNCHANGED <<xkeys, granted>>
      BY <2>3 DEF Next, TakeSeed, ReadBack, Derive, DerivePath, TakePub,
         AssignDerivationInfo, AddPlainKey, RemovePlainKey,
         ReplaceExternalLookup, store, vars
    <3>2. \A kind \in Kinds : \A i \in DOMAIN xkeys'[kind] :
             Justified(granted', kind, xkeys'[kind][i])
      BY <1>2, <3>1 DEF TemplatesInv
    <3>3. QED
      BY <3>2 DEF TemplatesInv, Justified, Given, Same
  <2>4. QED
    BY <2>1, <2>2, <2>3
<1>4. QED
  BY <1>1, <1>3 DEF IInv

-----------------------------------------------------------------------------
(* What the invariant means.                                                 *)

LEMMA Types == IInv => TypeOK
<1> SUFFICES ASSUME IInv PROVE TypeOK
  OBVIOUS
<1>1. StoreInv /\ KeyInv /\ KeyOk(xkey)
  BY DEF IInv, KeyInv
<1>2. settings \in Settings
  BY <1>1 DEF StoreInv, StoreTypes
<1>3. /\ xkey.master \in Masters /\ xkey.path \in Paths
      /\ xkey.priv \in BOOLEAN /\ xkey.claimed \in BOOLEAN
      /\ InfoOk(xkey.info, xkey.master, xkey.path, xkey.claimed)
  BY <1>1 DEF KeyOk
<1>4. SlotOf(xkey.info) \in Slots
  BY <1>3, SlotTypes
<1>5. xkey.info # NoInfo => Len(xkey.info.path) = Depth(xkey)
  BY <1>3 DEF InfoOk, Depth
<1>6. ASSUME NEW kind \in Kinds, NEW i \in DOMAIN xkeys[kind]
      PROVE  EntryOk(xkeys[kind][i])
  BY <1>1 DEF StoreInv, StoreTypes, Entry, EntryOk
<1>7. ASSUME NEW kind \in Kinds,
             NEW i \in DOMAIN xkeys[kind], NEW j \in DOMAIN xkeys[kind],
             [xkeys[kind][i] EXCEPT !.templates = <<>>]
             = [xkeys[kind][j] EXCEPT !.templates = <<>>]
      PROVE  i = j
  <2>1. ASSUME NEW e, Entry(e)
        PROVE  /\ [e EXCEPT !.templates = <<>>].master = e.master
               /\ [e EXCEPT !.templates = <<>>].path = e.path
               /\ [e EXCEPT !.templates = <<>>].slot = e.slot
    BY <2>1 DEF Entry
  <2>2. Entry(xkeys[kind][i]) /\ Entry(xkeys[kind][j])
    BY <1>1 DEF StoreInv, StoreTypes
  <2>3. Same(xkeys[kind][i], xkeys[kind][j])
    BY <1>7, <2>1, <2>2, ZenonT(30) DEF Same
  <2>4. QED
    BY <1>1, <2>3 DEF StoreInv, UniqueInv
<1>8. \A kind \in Kinds : plain[kind] \subseteq Masters \X Paths
  BY <1>1 DEF KeyInv
<1>9. QED
  BY <1>2, <1>3, <1>4, <1>5, <1>6, <1>7, <1>8 DEF TypeOK

\* The entry of a key leads where the key does, so the search ends with an
\* answer.
LEMMA Search ==
    ASSUME StoreInv, NEW g \in granted, NEW req, Leads(g, g.kind, req)
    PROVE  Get(g.kind, req) # "none"
<1>1. PICK i \in DOMAIN xkeys[g.kind] : Same(xkeys[g.kind][i], g)
  BY DEF StoreInv, GrantedInv
<1>2. Leads(xkeys[g.kind][i], g.kind, req)
  BY <1>1 DEF Leads, TailFrom, Same
<1>3. Leading(g.kind, req) # {}
  BY <1>2 DEF Leading
<1>4. FindByDerivation(g.kind, req) # "none"
  BY <1>3 DEF FindByDerivation
<1>5. CASE g.kind = "priv"
  BY <1>4, <1>5 DEF Get, GetPrivkey
<1>6. CASE g.kind # "priv"
  <2>1. g.kind = "pub"
    BY <1>6 DEF StoreInv, GrantedInv, Kinds
  <2>2. QED
    BY <1>4, <2>1 DEF Get, GetPubkey
<1>7. QED
  BY <1>5, <1>6

LEMMA Finds == IInv => HeldKeysAreFound
BY Search DEF IInv, HeldKeysAreFound

\* A held ancestor leads to the key by the information the two carry.
LEMMA FindsDerived == IInv => DerivedKeysAreFound
<1> SUFFICES ASSUME IInv PROVE DerivedKeysAreFound
  OBVIOUS
<1> SUFFICES ASSUME NEW g \in granted,
                    xkey.info # NoInfo, ~xkey.claimed,
                    g.slot.mfp # NoFingerprint, ~g.claimed,
                    g.master = xkey.master,
                    Len(g.path) <= Len(xkey.path),
                    g.path = SubSeq(xkey.path, 1, Len(g.path)),
                    g.kind = "pub" =>
                       \A i \in DOMAIN SubSeq(xkey.path, Len(g.path) + 1,
                                              Len(xkey.path)) :
                          ~IsHardened(SubSeq(xkey.path, Len(g.path) + 1,
                                             Len(xkey.path))[i])
             PROVE  Get(g.kind, [id |-> KeyId(xkey), mfp |-> xkey.info.mfp,
                                 indexes |-> xkey.info.path]) # "none"
  BY DEF DerivedKeysAreFound
<1> DEFINE req == [id |-> KeyId(xkey), mfp |-> xkey.info.mfp,
                   indexes |-> xkey.info.path]
           n == Len(g.path)
           path == xkey.path
           tail == SubSeq(path, n + 1, Len(path))
<1>1. /\ xkey.info = [mfp |-> Fingerprint[xkey.master], path |-> path]
      /\ path \in Seq(Index)
  BY DEF IInv, KeyInv, KeyOk, InfoOk, Paths
<1>2. g.slot = [mfp |-> Fingerprint[g.master], indexes |-> g.path]
  BY DEF IInv, GrantsInv, GrantOk
<1>3. g.path \in Seq(Index)
  <2>1. PICK i \in DOMAIN xkeys[g.kind] : Same(xkeys[g.kind][i], g)
    BY DEF IInv, StoreInv, GrantedInv
  <2>2. Entry(xkeys[g.kind][i])
    BY DEF IInv, StoreInv, StoreTypes, GrantedInv
  <2>3. QED
    BY <2>1, <2>2 DEF Same, Entry, Paths
<1>4. /\ req.mfp = Fingerprint[g.master] /\ req.indexes = path
      /\ req.id = <<g.master, path>>
  BY <1>1 DEF KeyId
<1>5. n \in Nat /\ Len(path) \in Nat /\ n <= Len(path)
  BY <1>1, <1>3
<1> HIDE DEF n, path
<1>6. \A i \in 1 .. n : g.path[i] = path[i]
  <2>1. SubSeq(path, 1, n) \in Seq(Index)
        /\ \A i \in 1 .. n : SubSeq(path, 1, n)[i] = path[i]
    BY <1>1, <1>5
  <2>2. QED
    BY <2>1 DEF n, path
<1>7. tail \in Seq(Index) /\ Len(tail) = Len(path) - n
      /\ \A i \in 1 .. Len(path) - n : tail[i] = path[n + i]
  BY <1>1, <1>5
<1> HIDE DEF tail, req
<1>8. TailFrom(g, req) = tail
  <2>1. g.slot.indexes = g.path /\ req.indexes = path
    BY <1>2, <1>4
  <2>2. QED
    BY <2>1 DEF TailFrom, tail, n
<1>9. g.path \o tail = path
  <2> DEFINE both == g.path \o tail
  <2>1. /\ both \in Seq(Index) /\ Len(both) = Len(path)
        /\ \A i \in 1 .. n : both[i] = g.path[i]
        /\ \A i \in 1 .. Len(path) - n : both[n + i] = tail[i]
    BY <1>3, <1>5, <1>7 DEF n
  <2> HIDE DEF both
  <2>2. ASSUME NEW i \in 1 .. Len(path)
        PROVE  both[i] = path[i]
    <3>1. CASE i <= n
      BY <1>5, <1>6, <2>1, <3>1
    <3>2. CASE i > n
      <4>1. i - n \in 1 .. Len(path) - n /\ n + (i - n) = i
        BY <1>5, <3>2
      <4>2. both[i] = tail[i - n] /\ tail[i - n] = path[i]
        BY <1>7, <2>1, <4>1
      <4>3. QED
        BY <4>2
    <3>3. i <= n \/ i > n
      BY <1>5
    <3>4. QED
      BY <3>1, <3>2, <3>3
  <2>3. both = path
    BY <1>1, <2>1, <2>2
  <2>4. QED
    BY <2>3 DEF both
<1>10. Leads(g, g.kind, req)
  <2>1. g.slot.mfp = req.mfp /\ g.slot.indexes = g.path
    BY <1>2, <1>4
  <2>2. Len(g.slot.indexes) <= Len(req.indexes)
        /\ \A i \in DOMAIN g.slot.indexes : g.slot.indexes[i] = req.indexes[i]
    BY <1>3, <1>4, <1>5, <1>6, <2>1 DEF n
  <2>3. g.kind = "pub" =>
           \A i \in DOMAIN TailFrom(g, req) : ~IsHardened(TailFrom(g, req)[i])
    BY <1>8 DEF tail, n, path
  <2>4. <<g.master, g.path \o TailFrom(g, req)>> = req.id
    BY <1>4, <1>8, <1>9
  <2>5. QED
    BY <2>1, <2>2, <2>3, <2>4 DEF Leads
<1>11. QED
  BY <1>10, Search DEF IInv, req, path

\* Two grants for the same key.
LEMMA SameKeySame ==
    ASSUME NEW g, NEW h, GrantOk(g), GrantOk(h), SameKey(g, h)
    PROVE  h.kind = g.kind /\ Same(g, h)
<1>1. ASSUME NEW x, GrantOk(x), NEW y
      PROVE  /\ [x EXCEPT !.texts = <<>>, !.claimed = y].kind = x.kind
             /\ [x EXCEPT !.texts = <<>>, !.claimed = y].master = x.master
             /\ [x EXCEPT !.texts = <<>>, !.claimed = y].path = x.path
             /\ [x EXCEPT !.texts = <<>>, !.claimed = y].slot = x.slot
  <2>1. DOMAIN x = {"kind", "master", "path", "slot", "claimed", "texts"}
    BY <1>1 DEF GrantOk
  <2>2. QED
    BY <2>1
<1>2. PICK f : f = FALSE
  BY Zenon
<1>3. [g EXCEPT !.texts = <<>>, !.claimed = f]
      = [h EXCEPT !.texts = <<>>, !.claimed = f]
  BY <1>2, Zenon DEF SameKey
<1> DEFINE r == [g EXCEPT !.texts = <<>>, !.claimed = f]
           q == [h EXCEPT !.texts = <<>>, !.claimed = f]
<1>4. /\ r.kind = g.kind /\ r.master = g.master /\ r.path = g.path
      /\ r.slot = g.slot /\ q.kind = h.kind /\ q.master = h.master
      /\ q.path = h.path /\ q.slot = h.slot
  BY <1>1
<1>5. r = q
  BY <1>3
<1> HIDE DEF r, q
<1>6. QED
  BY <1>4, <1>5 DEF Same

\* The entry that decides was given templates whose texts say what they match.
LEMMA Permits == IInv => OnlyPermittedKeys
<1> SUFFICES ASSUME IInv, NEW kind \in Kinds, NEW req \in Requests,
                    FindByDerivation(kind, req) = "key"
             PROVE  \E g \in granted :
                       /\ g.kind = kind /\ Leads(g, kind, req)
                       /\ \/ Allows(g, req)
                          \/ /\ ~settings.require
                             /\ \A h \in granted : SameKey(g, h) => h.texts = <<>>
  BY DEF OnlyPermittedKeys
<1> DEFINE e == xkeys[kind][FirstLeading(kind, req)]
<1>1. Leading(kind, req) # {} /\ Permitted(e, req)
  BY DEF FindByDerivation
<1>2. FirstLeading(kind, req) \in Leading(kind, req)
  <2>1. xkeys[kind] \in Seq(Elements(kind))
    BY DEF IInv, StoreInv, StoreTypes
  <2>2. Leading(kind, req) \subseteq Nat
    BY <2>1 DEF Leading
  <2>3. \E i \in Leading(kind, req) : \A j \in Leading(kind, req) : i <= j
    BY <1>1, <2>2, Least
  <2>4. QED
    BY <2>3 DEF FirstLeading
<1>3. FirstLeading(kind, req) \in DOMAIN xkeys[kind] /\ Leads(e, kind, req)
  BY <1>2 DEF Leading
<1>4. Entry(e) /\ Justified(granted, kind, e)
  BY <1>3 DEF IInv, StoreInv, StoreTypes, TemplatesInv
<1> HIDE DEF e
<1>5. ASSUME NEW g, Same(e, g)
      PROVE  Leads(g, kind, req) /\ TailFrom(g, req) = TailFrom(e, req)
  BY <1>3, <1>5 DEF Leads, TailFrom, Same
<1>6. CASE e.templates = <<>> /\ ~settings.require
  <2>1. PICK g \in Given(granted, kind, e) : TRUE
    BY <1>4 DEF Justified
  <2>2. g \in granted /\ g.kind = kind /\ Same(e, g)
    BY DEF Given
  <2>3. ASSUME NEW h \in granted, SameKey(g, h)
        PROVE  h.texts = <<>>
    <3>1. GrantOk(g) /\ GrantOk(h)
      BY <2>2 DEF IInv, GrantsInv
    <3>2. h.kind = g.kind /\ Same(g, h)
      BY <2>3, <3>1, SameKeySame
    <3>3. h \in Given(granted, kind, e)
      BY <2>2, <3>2 DEF Given, Same
    <3>4. QED
      BY <1>4, <1>6, <3>3 DEF Justified
  <2>4. QED
    BY <1>5, <1>6, <2>2, <2>3
<1>7. CASE \E n \in DOMAIN e.templates :
              MatchPath(e.templates[n], e.templates[n].full,
                        IF e.templates[n].full THEN req.indexes
                        ELSE TailFrom(e, req))
  <2>1. PICK n \in DOMAIN e.templates :
           MatchPath(e.templates[n], e.templates[n].full,
                     IF e.templates[n].full THEN req.indexes
                     ELSE TailFrom(e, req))
    BY <1>7
  <2>0. PICK g \in Given(granted, kind, e) : \E m \in DOMAIN g.texts :
           e.templates[n] = ParseTemplate(g.texts[m])
    BY <1>4 DEF Justified
  <2>2. PICK m \in DOMAIN g.texts : e.templates[n] = ParseTemplate(g.texts[m])
    BY <2>0
  <2>3. g \in granted /\ g.kind = kind /\ Same(e, g)
    BY DEF Given
  <2> DEFINE text == g.texts[m]
             way == IF text.full THEN req.indexes ELSE TailFrom(e, req)
  <2>4. ParseTemplate(text) # BadTemplate
    BY <1>4, <2>2 DEF Justified
  <2>5. TextOk(text)
    <3>1. g.texts \in Seq(Texts)
      BY <2>3 DEF IInv, GrantsInv, GrantOk
    <3>2. text \in Texts
      BY <3>1
    <3>3. QED
      BY <3>2, KeyStoreAssumption DEF Texts
  <2>6. ParseTemplate(text).full = text.full
    BY <2>4 DEF ParseTemplate
  <2>7. way \in Seq(Index)
    <3>1. req.indexes \in Seq(Index)
      BY KeyStoreAssumption
    <3>2. e.slot.indexes \in Seq(Index)
      BY <1>4 DEF Entry, Slots, Paths
    <3>3. TailFrom(e, req) \in Seq(Index)
      BY <3>1, <3>2 DEF TailFrom
    <3>4. QED
      BY <3>1, <3>3
  <2>8. MatchPath(ParseTemplate(text), text.full, way)
    BY <2>1, <2>2, <2>6
  <2> HIDE DEF way, text
  <2>9. TextPermits(text, text.full, way)
    BY <2>4, <2>5, <2>7, <2>8, TemplateSays
  <2>10. Allows(g, req)
    BY <1>5, <2>3, <2>9 DEF Allows, text, way
  <2>11. QED
    BY <1>5, <2>3, <2>10
<1>8. QED
  BY <1>1, <1>6, <1>7 DEF Permitted

-----------------------------------------------------------------------------
\* In every state the store has one well-formed entry for each extended key
\* added and not removed, the templates of an entry are those of the texts
\* given for its key, and the derivation information that nobody claimed is
\* true (KeyStore.add_key and remove_key, CExtKeyBase.derive and neuter).
THEOREM Invariance == Spec => []IInv
<1>1. QED
  BY IInvInit, IInvStep, PTL DEF Spec

\* The types of keys and store; a slot holds a key once, and with a template
\* where templates are required (KeyStore._enforce_path_templates asserts it).
THEOREM TypeCorrect == Spec => []TypeOK
<1>1. QED
  BY Invariance, Types, PTL

\* No sequence of calls of add_key and remove_key, of whatever keys and
\* templates, makes get_privkey and get_pubkey answer None for a key that an
\* extended key in the store leads to.
THEOREM KeysAreFound == Spec => []HeldKeysAreFound
<1>1. QED
  BY Invariance, Finds, PTL

\* A key derived, neutered or read back is found by the information it
\* carries wherever an ancestor is held, unless somebody claimed information
\* for one of the two (CExtKeyBase.derive, KeyStore.get_privkey).
THEOREM DerivedKeysFound == Spec => []DerivedKeysAreFound
<1>1. QED
  BY Invariance, FindsDerived, PTL

\* A key is given out only by a path that a text given for its ancestor
\* permits as written, however the texts were parsed and added to
\* (BIP32PathTemplate._index_from_str, KeyStore._enforce_path_templates).
THEOREM KeysArePermitted == Spec => []OnlyPermittedKeys
<1>1. QED
  BY Invariance, Permits, PTL
==============================================================================
