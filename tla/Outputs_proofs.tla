---------------------------- MODULE Outputs_proofs ----------------------------
(* For any keys, leaf versions, trees of any number of scripts that hold one *)
(* another to any depth, and addresses of every class on every chain.        *)
EXTENDS Outputs, SequenceTheorems, NaturalsInduction, WellFoundedInduction, TLAPS

-----------------------------------------------------------------------------
(* Numbers, functions and lists.                                             *)

\* A non-empty set of numbers has a least one.
LEMMA Least ==
    ASSUME NEW D, D \subseteq Nat, D # {}
    PROVE  \E m \in D : \A d \in D : m <= d
<1> DEFINE R == OpToRel(<, Nat)
<1>1. IsWellFoundedOn(R, Nat)
  BY NatLessThanWellFounded
<1>2. PICK m \in D : \A d \in D : <<d, m>> \notin R
  <2> HIDE DEF R
  <2>1. QED
    BY <1>1, WFMin
<1>3. ASSUME NEW d \in D PROVE m <= d
  <2>1. d \in Nat /\ m \in Nat
    OBVIOUS
  <2>2. d < m => <<d, m>> \in R
    BY <2>1 DEF OpToRel
  <2> HIDE DEF R
  <2>3. QED
    BY <1>2, <2>1, <2>2
<1>4. QED
  BY <1>3

\* A set that has each number whose predecessors it has, has all.
LEMMA Strongly ==
    ASSUME NEW T, \A i \in Nat : (\A j \in Nat : j < i => j \in T) => i \in T
    PROVE  \A i \in Nat : i \in T
<1> SUFFICES ASSUME NEW k \in Nat, k \notin T PROVE FALSE
  OBVIOUS
<1> DEFINE D == {i \in Nat : i \notin T}
<1>1. D \subseteq Nat /\ D # {}
  OBVIOUS
<1>2. PICK m \in D : \A d \in D : m <= d
  <2> HIDE DEF D
  <2>1. QED
    BY <1>1, Least
<1>3. \A j \in Nat : j < m => j \in T
  <2>1. m \in Nat
    OBVIOUS
  <2>2. \A j \in Nat : j < m => ~(m <= j)
    BY <2>1
  <2>3. QED
    BY <1>2, <2>2
<1>4. QED
  BY <1>3

\* A set that has zero, and the successor of each number it has, has all.
LEMMA Stepwise ==
    ASSUME NEW T, 0 \in T, \A i \in Nat : i \in T => i + 1 \in T
    PROVE  \A i \in Nat : i \in T
<1>1. ASSUME NEW i \in Nat, \A j \in Nat : j < i => j \in T
      PROVE  i \in T
  <2>1. CASE i = 0
    BY <2>1
  <2>2. CASE i # 0
    <3>1. i - 1 \in Nat /\ i - 1 < i /\ (i - 1) + 1 = i
      BY <2>2
    <3>2. QED
      BY <1>1, <3>1
  <2>3. QED
    BY <2>1, <2>2
<1>2. QED
  BY <1>1, Strongly

LEMMA SameFunction ==
    ASSUME NEW S, NEW f, NEW k, f = [i \in S |-> f[i]], k = [i \in S |-> k[i]],
           \A i \in S : f[i] = k[i]
    PROVE  f = k
OBVIOUS

\* A list of something.
IsList(s) == \E S : s \in Seq(S)

LEMMA JoinedLists ==
    ASSUME NEW a, NEW b, NEW S, NEW T, a \in Seq(S), b \in Seq(T)
    PROVE  a \o b \in Seq(S \union T)
<1>1. a \in Seq(S \union T) /\ b \in Seq(S \union T)
  OBVIOUS
<1>2. QED
  BY <1>1

LEMMA Joined ==
    ASSUME NEW a, NEW b, IsList(a), IsList(b)
    PROVE  /\ IsList(a \o b) /\ Len(a) \in Nat /\ Len(b) \in Nat
           /\ Len(a \o b) = Len(a) + Len(b)
           /\ \A i \in 1 .. Len(a) : (a \o b)[i] = a[i]
           /\ \A i \in 1 .. Len(b) : (a \o b)[Len(a) + i] = b[i]
<1>1. PICK S : a \in Seq(S)
  BY DEF IsList
<1>2. PICK T : b \in Seq(T)
  BY DEF IsList
<1>3. a \o b \in Seq(S \union T)
  BY <1>1, <1>2, JoinedLists
<1>4. /\ Len(a) \in Nat /\ Len(b) \in Nat /\ Len(a \o b) = Len(a) + Len(b)
      /\ \A i \in 1 .. Len(a) : (a \o b)[i] = a[i]
      /\ \A i \in 1 .. Len(b) : (a \o b)[Len(a) + i] = b[i]
  BY <1>1, <1>2
<1>5. QED
  BY <1>3, <1>4 DEF IsList

\* A list with one more at the end.
LEMMA Appended ==
    ASSUME NEW s, IsList(s), NEW x
    PROVE  /\ IsList(Append(s, x)) /\ Len(s) \in Nat
           /\ Len(Append(s, x)) = Len(s) + 1
           /\ \A i \in 1 .. Len(s) : Append(s, x)[i] = s[i]
           /\ Append(s, x)[Len(s) + 1] = x
<1>1. PICK S : s \in Seq(S)
  BY DEF IsList
<1>2. s \in Seq(S \union {x})
  BY <1>1
<1>3. Append(s, x) \in Seq(S \union {x})
  BY <1>2
<1>4. /\ Len(s) \in Nat /\ Len(Append(s, x)) = Len(s) + 1
      /\ \A i \in 1 .. Len(s) : Append(s, x)[i] = s[i]
      /\ Append(s, x)[Len(s) + 1] = x
  BY <1>2
<1>5. QED
  BY <1>3, <1>4 DEF IsList

\* A function on 1 .. n is a list.
LEMMA ListOf ==
    ASSUME NEW n \in Nat, NEW f, f = [i \in 1 .. n |-> f[i]]
    PROVE  IsList(f) /\ Len(f) = n
<1> DEFINE S == {f[i] : i \in 1 .. n}
<1>1. \A i \in 1 .. n : f[i] \in S
  OBVIOUS
<1> HIDE DEF S
<1>2. f \in Seq(S) /\ Len(f) = n
  BY <1>1
<1>3. QED
  BY <1>2 DEF IsList

LEMMA EmptyList == IsList(<<>>) /\ Len(<<>>) = 0
<1>1. <<>> \in Seq({}) /\ Len(<<>>) = 0
  OBVIOUS
<1>2. QED
  BY <1>1 DEF IsList

-----------------------------------------------------------------------------
(* Hashing along a path.                                                     *)

ClimbBy(f, h, p, n) ==
    f = [i \in 0 .. n |-> IF i = 0 THEN h ELSE BranchHash(f[i - 1], p[i])]

LEMMA ClimbSteps ==
    ASSUME NEW f, NEW h, NEW p, NEW n
    PROVE  ClimbBy(f, h, p, n) <=>
             /\ f = [i \in 0 .. n |-> f[i]]
             /\ \A i \in 0 .. n : f[i] = IF i = 0 THEN h ELSE BranchHash(f[i - 1], p[i])
<1> DEFINE k == [i \in 0 .. n |-> IF i = 0 THEN h ELSE BranchHash(f[i - 1], p[i])]
<1>1. /\ k = [i \in 0 .. n |-> k[i]]
      /\ \A i \in 0 .. n : k[i] = IF i = 0 THEN h ELSE BranchHash(f[i - 1], p[i])
  OBVIOUS
<1>2. ClimbBy(f, h, p, n) <=> f = k
  BY DEF ClimbBy
<1> HIDE DEF k
<1>3. f = k <=> f = [i \in 0 .. n |-> f[i]] /\ \A i \in 0 .. n : f[i] = k[i]
  BY <1>1, SameFunction
<1>4. QED
  BY <1>1, <1>2, <1>3

LEMMA ClimbExists ==
    ASSUME NEW h, NEW p, NEW n \in Nat
    PROVE  \E f : ClimbBy(f, h, p, n)
<1> DEFINE T == {m \in Nat : \E f : ClimbBy(f, h, p, m)}
<1>1. 0 \in T
  <2> DEFINE f == [i \in 0 .. 0 |-> h]
  <2>1. f = [i \in 0 .. 0 |-> f[i]] /\ f[0] = h /\ \A i \in 0 .. 0 : i = 0
    OBVIOUS
  <2> HIDE DEF f
  <2>2. ClimbBy(f, h, p, 0)
    BY <2>1, ClimbSteps
  <2>3. QED
    BY <2>2
<1>2. ASSUME NEW m \in Nat, m \in T
      PROVE  m + 1 \in T
  <2>1. PICK f : ClimbBy(f, h, p, m)
    BY <1>2
  <2> DEFINE g == [i \in 0 .. m + 1 |-> IF i = m + 1 THEN BranchHash(f[m], p[m + 1])
                                        ELSE f[i]]
  <2>2. \A i \in 0 .. m : f[i] = IF i = 0 THEN h ELSE BranchHash(f[i - 1], p[i])
    BY <2>1, ClimbSteps
  <2>3. ASSUME NEW i \in 0 .. m + 1
        PROVE  g[i] = IF i = 0 THEN h ELSE BranchHash(g[i - 1], p[i])
    <3>1. CASE i = m + 1
      <4>1. i - 1 = m /\ m \in 0 .. m + 1 /\ m # m + 1 /\ i # 0
        BY <3>1
      <4>2. QED
        BY <3>1, <4>1
    <3>2. CASE i # m + 1
      <4>1. i \in 0 .. m
        BY <3>2
      <4>2. i # 0 => i - 1 \in 0 .. m + 1 /\ i - 1 # m + 1
        BY <4>1
      <4>3. QED
        BY <2>2, <3>2, <4>1, <4>2
    <3>3. QED
      BY <3>1, <3>2
  <2>4. g = [i \in 0 .. m + 1 |-> g[i]]
    OBVIOUS
  <2> HIDE DEF g
  <2>5. ClimbBy(g, h, p, m + 1)
    BY <2>3, <2>4, ClimbSteps
  <2>6. QED
    BY <2>5
<1> HIDE DEF T
<1>3. n \in T
  BY <1>1, <1>2, Stepwise
<1>4. QED
  BY <1>3 DEF T

\* A climb to n is determined by where it starts and the path up to n.
LEMMA SameClimb ==
    ASSUME NEW h, NEW p, NEW q, NEW m \in Nat, NEW n \in Nat, NEW f, NEW g,
           ClimbBy(f, h, p, m), ClimbBy(g, h, q, n), m <= n,
           \A i \in 1 .. m : p[i] = q[i]
    PROVE  \A i \in 0 .. m : f[i] = g[i]
<1> DEFINE T == {i \in Nat : i <= m => f[i] = g[i]}
<1>1. \A i \in 0 .. m : f[i] = IF i = 0 THEN h ELSE BranchHash(f[i - 1], p[i])
  BY ClimbSteps
<1>2. \A i \in 0 .. n : g[i] = IF i = 0 THEN h ELSE BranchHash(g[i - 1], q[i])
  BY ClimbSteps
<1>3. 0 \in T
  BY <1>1, <1>2
<1>4. ASSUME NEW i \in Nat, i \in T
      PROVE  i + 1 \in T
  <2> SUFFICES ASSUME i + 1 <= m PROVE f[i + 1] = g[i + 1]
    OBVIOUS
  <2>1. /\ i + 1 \in 0 .. m /\ i + 1 \in 0 .. n /\ i + 1 \in 1 .. m
        /\ i + 1 # 0 /\ (i + 1) - 1 = i /\ i <= m
    OBVIOUS
  <2>2. f[i] = g[i]
    BY <1>4, <2>1
  <2>3. QED
    BY <1>1, <1>2, <2>1, <2>2
<1> HIDE DEF T
<1>5. \A i \in Nat : i \in T
  BY <1>3, <1>4, Stepwise
<1>6. QED
  BY <1>5 DEF T

LEMMA ClimbIs ==
    ASSUME NEW h, NEW p, IsList(p)
    PROVE  \E f : ClimbBy(f, h, p, Len(p)) /\ Climb(h, p) = f[Len(p)]
<1> DEFINE k == Len(p)
           up == CHOOSE f : f = [n \in 0 .. k |->
                                   IF n = 0 THEN h ELSE BranchHash(f[n - 1], p[n])]
<1>1. k \in Nat
  BY DEF IsList
<1>2. Climb(h, p) = up[k]
  BY DEF Climb
<1> HIDE DEF k
<1>3. \E f : ClimbBy(f, h, p, k)
  BY <1>1, ClimbExists
<1>4. \E f : f = [n \in 0 .. k |-> IF n = 0 THEN h ELSE BranchHash(f[n - 1], p[n])]
  BY <1>3 DEF ClimbBy
<1>5. ClimbBy(up, h, p, k)
  BY <1>4, Zenon DEF ClimbBy
<1> HIDE DEF up
<1>6. QED
  BY <1>2, <1>5 DEF k

LEMMA ClimbNowhere ==
    ASSUME NEW h
    PROVE  Climb(h, <<>>) = h
<1>1. PICK f : ClimbBy(f, h, <<>>, 0) /\ Climb(h, <<>>) = f[0]
  BY ClimbIs, EmptyList
<1>2. f[0] = h
  BY <1>1, ClimbSteps
<1>3. QED
  BY <1>1, <1>2

\* Climbing a path and one more step.
LEMMA ClimbFurther ==
    ASSUME NEW h, NEW p, IsList(p), NEW x
    PROVE  Climb(h, Append(p, x)) = BranchHash(Climb(h, p), x)
<1> DEFINE q == Append(p, x)
           n == Len(p)
<1>1. /\ IsList(q) /\ n \in Nat /\ Len(q) = n + 1 /\ q[n + 1] = x
      /\ \A i \in 1 .. n : p[i] = q[i]
  BY Appended
<1> HIDE DEF q
<1>2. PICK f : ClimbBy(f, h, p, n) /\ Climb(h, p) = f[n]
  BY ClimbIs
<1>3. PICK g : ClimbBy(g, h, q, n + 1) /\ Climb(h, q) = g[n + 1]
  BY <1>1, ClimbIs
<1> HIDE DEF n
<1>4. f[n] = g[n]
  <2>1. n + 1 \in Nat /\ n <= n + 1 /\ n \in 0 .. n
    BY <1>1
  <2>2. \A i \in 0 .. n : f[i] = g[i]
    BY <1>1, <1>2, <1>3, <2>1, SameClimb
  <2>3. QED
    BY <2>1, <2>2
<1>5. g[n + 1] = BranchHash(g[n], x)
  <2>1. n + 1 \in 0 .. n + 1 /\ n + 1 # 0 /\ (n + 1) - 1 = n
    BY <1>1
  <2>2. g[n + 1] = IF n + 1 = 0 THEN h ELSE BranchHash(g[(n + 1) - 1], q[n + 1])
    BY <1>3, <2>1, ClimbSteps
  <2>3. QED
    BY <1>1, <2>1, <2>2
<1>6. QED
  BY <1>2, <1>3, <1>4, <1>5 DEF q

\* Climbing one path after another.
LEMMA ClimbOn ==
    ASSUME NEW h, NEW p, NEW q, IsList(p), IsList(q)
    PROVE  Climb(h, p \o q) = Climb(Climb(h, p), q)
<1> DEFINE r == p \o q
           m == Len(p)
           n == Len(q)
<1>1. /\ IsList(r) /\ m \in Nat /\ n \in Nat /\ Len(r) = m + n
      /\ \A i \in 1 .. m : p[i] = r[i]
      /\ \A i \in 1 .. n : r[m + i] = q[i]
  BY Joined
<1> HIDE DEF r
<1>2. PICK f : ClimbBy(f, h, p, m) /\ Climb(h, p) = f[m]
  BY ClimbIs
<1>3. PICK g : ClimbBy(g, f[m], q, n) /\ Climb(f[m], q) = g[n]
  BY ClimbIs
<1> HIDE DEF m, n
<1>4. PICK e : ClimbBy(e, h, r, m + n) /\ Climb(h, r) = e[m + n]
  <2> DEFINE k == Len(r)
  <2>1. k = m + n
    BY <1>1
  <2> HIDE DEF k
  <2>2. \E e : ClimbBy(e, h, r, k) /\ Climb(h, r) = e[k]
    BY <1>1, ClimbIs DEF k
  <2>3. QED
    BY <2>1, <2>2
<1>5. e[m] = f[m]
  <2>1. m + n \in Nat /\ m <= m + n /\ m \in 0 .. m
    BY <1>1
  <2> DEFINE k == m + n
  <2>2. ClimbBy(e, h, r, k) /\ k \in Nat /\ m <= k
    BY <1>4, <2>1
  <2> HIDE DEF k
  <2>3. ClimbBy(f, h, p, m) /\ m \in Nat /\ \A i \in 1 .. m : p[i] = r[i]
    BY <1>1, <1>2
  <2>4. \A i \in 0 .. m : f[i] = e[i]
    BY <2>2, <2>3, SameClimb
  <2>5. QED
    BY <2>1, <2>4
<1> DEFINE T == {i \in Nat : i <= n => e[m + i] = g[i]}
<1>6. 0 \in T
  <2>1. 0 \in 0 .. n /\ m + 0 = m
    BY <1>1
  <2>2. g[0] = f[m]
    BY <1>3, <2>1, ClimbSteps
  <2>3. QED
    BY <1>5, <2>1, <2>2
<1>7. ASSUME NEW i \in Nat, i \in T
      PROVE  i + 1 \in T
  <2> SUFFICES ASSUME i + 1 <= n PROVE e[m + (i + 1)] = g[i + 1]
    OBVIOUS
  <2>1. /\ i + 1 \in 0 .. n /\ i + 1 \in 1 .. n /\ i + 1 # 0 /\ (i + 1) - 1 = i
        /\ m + (i + 1) \in 0 .. m + n /\ m + (i + 1) # 0
        /\ (m + (i + 1)) - 1 = m + i /\ i <= n
    BY <1>1
  <2>2. e[m + (i + 1)] = BranchHash(e[m + i], r[m + (i + 1)])
    <3>1. \A j \in 0 .. m + n : e[j] = IF j = 0 THEN h ELSE BranchHash(e[j - 1], r[j])
      BY <1>4, ClimbSteps
    <3>2. QED
      BY <2>1, <3>1
  <2>3. g[i + 1] = BranchHash(g[i], q[i + 1])
    <3>1. \A j \in 0 .. n : g[j] = IF j = 0 THEN f[m] ELSE BranchHash(g[j - 1], q[j])
      BY <1>3, ClimbSteps
    <3>2. QED
      BY <2>1, <3>1
  <2>4. e[m + i] = g[i]
    BY <1>7, <2>1
  <2>5. QED
    BY <1>1, <2>1, <2>2, <2>3, <2>4
<1>8. e[m + n] = g[n]
  <2> HIDE DEF T
  <2>1. n \in T
    BY <1>1, <1>6, <1>7, Stepwise
  <2>2. QED
    BY <1>1, <2>1 DEF T
<1>9. QED
  BY <1>2, <1>3, <1>4, <1>8 DEF r

-----------------------------------------------------------------------------
(* The paths of _traverse.                                                   *)

PartOf(f, hs, n, a) ==
    IF n = 1 THEN [hash |-> hs[a], paths |-> << <<>> >>]
    ELSE LET split == n \div 2
             left  == f[split][a]
             right == f[n - split][a + split]
         IN [hash  |-> BranchHash(left.hash, right.hash),
             paths |-> Below(left.paths, right.hash)
                         \o Below(right.paths, left.hash)]
PartsOf(f, hs, n) == [a \in 1 .. Len(hs) - n + 1 |-> PartOf(f, hs, n, a)]
PartsBy(f, hs, m) == f = [n \in 1 .. m |-> PartsOf(f, hs, n)]

LEMMA Halves ==
    ASSUME NEW n \in Nat, n > 1
    PROVE  n \div 2 \in 1 .. n - 1 /\ n - n \div 2 \in 1 .. n - 1
OBVIOUS

LEMMA SameParts ==
    ASSUME NEW f, NEW g, NEW hs, NEW n \in Nat, n > 0,
           \A k \in 1 .. n - 1 : f[k] = g[k]
    PROVE  PartsOf(f, hs, n) = PartsOf(g, hs, n)
<1>1. ASSUME NEW a PROVE PartOf(f, hs, n, a) = PartOf(g, hs, n, a)
  <2>1. CASE n = 1
    BY <2>1 DEF PartOf
  <2>2. CASE n # 1
    <3>1. n \div 2 \in 1 .. n - 1 /\ n - n \div 2 \in 1 .. n - 1
      BY <2>2, Halves
    <3>2. f[n \div 2] = g[n \div 2] /\ f[n - n \div 2] = g[n - n \div 2]
      BY <3>1
    <3>3. QED
      BY <3>2 DEF PartOf
  <2>3. QED
    BY <2>1, <2>2
<1>2. QED
  BY <1>1 DEF PartsOf

LEMMA PartsSteps ==
    ASSUME NEW f, NEW hs, NEW m
    PROVE  PartsBy(f, hs, m) <=>
             /\ f = [n \in 1 .. m |-> f[n]]
             /\ \A n \in 1 .. m : f[n] = PartsOf(f, hs, n)
<1> DEFINE k == [n \in 1 .. m |-> PartsOf(f, hs, n)]
<1>1. k = [n \in 1 .. m |-> k[n]] /\ \A n \in 1 .. m : k[n] = PartsOf(f, hs, n)
  OBVIOUS
<1>2. PartsBy(f, hs, m) <=> f = k
  BY DEF PartsBy
<1> HIDE DEF k
<1>3. f = k <=> f = [n \in 1 .. m |-> f[n]] /\ \A n \in 1 .. m : f[n] = k[n]
  BY <1>1, SameFunction
<1>4. QED
  BY <1>1, <1>2, <1>3

LEMMA PartsExist ==
    ASSUME NEW hs, NEW m \in Nat
    PROVE  \E f : PartsBy(f, hs, m)
<1> DEFINE T == {n \in Nat : \E f : PartsBy(f, hs, n)}
<1>1. 0 \in T
  <2> DEFINE f == [n \in 1 .. 0 |-> 0]
  <2>1. f = [n \in 1 .. 0 |-> f[n]] /\ \A n \in 1 .. 0 : FALSE
    OBVIOUS
  <2> HIDE DEF f
  <2>2. PartsBy(f, hs, 0)
    BY <2>1, PartsSteps
  <2>3. QED
    BY <2>2
<1>2. ASSUME NEW n \in Nat, n \in T
      PROVE  n + 1 \in T
  <2>1. PICK f : PartsBy(f, hs, n)
    BY <1>2
  <2> DEFINE g == [k \in 1 .. n + 1 |-> IF k = n + 1 THEN PartsOf(f, hs, n + 1) ELSE f[k]]
  <2>2. \A k \in 1 .. n : f[k] = PartsOf(f, hs, k)
    BY <2>1, PartsSteps
  <2>3. /\ g = [k \in 1 .. n + 1 |-> g[k]] /\ g[n + 1] = PartsOf(f, hs, n + 1)
        /\ \A k \in 1 .. n : g[k] = f[k]
    OBVIOUS
  <2> HIDE DEF g
  <2>4. ASSUME NEW k \in 1 .. n + 1
        PROVE  g[k] = PartsOf(g, hs, k)
    <3>1. k \in Nat /\ k > 0 /\ \A i \in 1 .. k - 1 : i \in 1 .. n
      OBVIOUS
    <3>2. \A i \in 1 .. k - 1 : f[i] = g[i]
      BY <2>3, <3>1
    <3>3. PartsOf(f, hs, k) = PartsOf(g, hs, k)
      BY <3>1, <3>2, SameParts
    <3>4. k = n + 1 \/ k \in 1 .. n
      OBVIOUS
    <3>5. QED
      BY <2>2, <2>3, <3>3, <3>4
  <2>5. PartsBy(g, hs, n + 1)
    BY <2>3, <2>4, PartsSteps
  <2>6. QED
    BY <2>5
<1> HIDE DEF T
<1>3. m \in T
  BY <1>1, <1>2, Stepwise
<1>4. QED
  BY <1>3 DEF T

\* A root and a list of paths that lead to it from hashes, the a-th and on.
LeadsFrom(r, hs, a, n) ==
    /\ r.paths = [i \in 1 .. n |-> r.paths[i]]
    /\ \A i \in 1 .. n : /\ IsList(r.paths[i])
                         /\ Climb(hs[a + i - 1], r.paths[i]) = r.hash

\* n paths that lead, from the hashes from the a-th on, to top.
Lead(paths, hs, a, n, top) ==
  /\ paths = [i \in 1 .. n |-> paths[i]]
  /\ \A i \in 1 .. n : IsList(paths[i]) /\ Climb(hs[a + i - 1], paths[i]) = top

\* Of two sides of a branch, the paths of one lead through the hash of the
\* other to the hash above them.
LEMMA SideLeads ==
    ASSUME NEW r, NEW hs, NEW a, NEW n \in Nat, LeadsFrom(r, hs, a, n),
           NEW x
    PROVE  Lead(Below(r.paths, x), hs, a, n, BranchHash(r.hash, x))
<1> DEFINE p == r.paths
           top == BranchHash(r.hash, x)
<1>1. p = [i \in 1 .. n |-> p[i]]
  BY DEF LeadsFrom
<1>2. \A i \in 1 .. n : IsList(p[i]) /\ Climb(hs[a + i - 1], p[i]) = r.hash
  BY DEF LeadsFrom
<1> HIDE DEF p
<1>3. DOMAIN p = 1 .. n
  BY <1>1
<1>4. Below(p, x) = [i \in 1 .. n |-> Append(p[i], x)]
  BY <1>3 DEF Below
<1>5. ASSUME NEW i \in 1 .. n
      PROVE  /\ Below(p, x)[i] = Append(p[i], x)
             /\ IsList(Append(p[i], x))
             /\ Climb(hs[a + i - 1], Append(p[i], x)) = top
  <2>1. Below(p, x)[i] = Append(p[i], x)
    BY <1>4
  <2>2. IsList(p[i]) /\ Climb(hs[a + i - 1], p[i]) = r.hash
    BY <1>2
  <2>3. IsList(Append(p[i], x))
    BY <2>2, Appended
  <2>4. Climb(hs[a + i - 1], Append(p[i], x)) = BranchHash(Climb(hs[a + i - 1], p[i]), x)
    BY <2>2, ClimbFurther
  <2>5. QED
    BY <2>1, <2>2, <2>3, <2>4
<1>6. Below(p, x) = [i \in 1 .. n |-> Below(p, x)[i]]
  BY <1>4
<1> DEFINE y == Below(p, x)
<1> HIDE DEF top
<1>7. \A i \in 1 .. n : IsList(y[i]) /\ Climb(hs[a + i - 1], y[i]) = top
  BY <1>5
<1> HIDE DEF y
<1>8. Lead(y, hs, a, n, top)
  BY <1>6, <1>7 DEF Lead, y
<1>9. QED
  BY <1>8 DEF p, y, top

LEMMA Branches ==
    ASSUME NEW l, NEW r, NEW hs, NEW a \in Nat, NEW m \in Nat, NEW n \in Nat,
           LeadsFrom(l, hs, a, m), LeadsFrom(r, hs, a + m, n)
    PROVE  LeadsFrom([hash  |-> BranchHash(l.hash, r.hash),
                      paths |-> Below(l.paths, r.hash) \o Below(r.paths, l.hash)],
                     hs, a, m + n)
<1> DEFINE top == BranchHash(l.hash, r.hash)
           b   == Below(l.paths, r.hash)
           c   == Below(r.paths, l.hash)
           d   == b \o c
<1>1. top = BranchHash(r.hash, l.hash)
  BY DEF BranchHash
<1>2. Lead(b, hs, a, m, top)
  BY SideLeads
<1>3. Lead(c, hs, a + m, n, top)
  <2> DEFINE a2 == a + m
             other == BranchHash(r.hash, l.hash)
  <2>1. LeadsFrom(r, hs, a2, n)
    OBVIOUS
  <2> HIDE DEF a2
  <2>2. Lead(c, hs, a2, n, other)
    BY <2>1, SideLeads
  <2>3. QED
    BY <1>1, <2>2 DEF a2
<1> HIDE DEF top, b, c
<1>4. IsList(b) /\ Len(b) = m /\ IsList(c) /\ Len(c) = n
  BY <1>2, <1>3, ListOf DEF Lead
<1>5. /\ IsList(d) /\ Len(d) = m + n
      /\ \A i \in 1 .. m : d[i] = b[i]
      /\ \A i \in 1 .. n : d[m + i] = c[i]
  BY <1>4, Joined
<1> HIDE DEF d
<1>6. d = [i \in 1 .. m + n |-> d[i]]
  BY <1>5 DEF IsList
<1>7. ASSUME NEW i \in 1 .. m + n
      PROVE  IsList(d[i]) /\ Climb(hs[a + i - 1], d[i]) = top
  <2>1. CASE i \in 1 .. m
    BY <1>2, <1>5, <2>1 DEF Lead
  <2>2. CASE i \notin 1 .. m
    <3>1. i - m \in 1 .. n /\ m + (i - m) = i /\ (a + m) + (i - m) - 1 = a + i - 1
      BY <2>2
    <3>2. d[i] = c[i - m]
      BY <1>5, <3>1
    <3>3. IsList(c[i - m]) /\ Climb(hs[(a + m) + (i - m) - 1], c[i - m]) = top
      <4>1. \A j \in 1 .. n : IsList(c[j]) /\ Climb(hs[(a + m) + j - 1], c[j]) = top
        BY <1>3 DEF Lead
      <4>2. QED
        BY <4>1, <3>1
    <3>4. QED
      BY <3>1, <3>2, <3>3
  <2>3. QED
    BY <2>1, <2>2
<1> DEFINE e == [hash |-> top, paths |-> d]
<1>8. e.hash = top /\ e.paths = d
  OBVIOUS
<1> HIDE DEF e
<1>9. LeadsFrom(e, hs, a, m + n)
  BY <1>6, <1>7, <1>8 DEF LeadsFrom
<1>10. QED
  BY <1>9 DEF e, d, top, b, c

\* Every leaf's path leads from its hash to the root.
LEMMA PartsLead ==
    ASSUME NEW hs, NEW N \in Nat, N = Len(hs), NEW f, PartsBy(f, hs, N)
    PROVE  \A n \in 1 .. N : \A a \in 1 .. N - n + 1 : LeadsFrom(f[n][a], hs, a, n)
<1> DEFINE T == {n \in Nat : n \in 1 .. N =>
                   \A a \in 1 .. N - n + 1 : LeadsFrom(f[n][a], hs, a, n)}
<1>1. ASSUME NEW n \in Nat, \A j \in Nat : j < n => j \in T
      PROVE  n \in T
  <2> SUFFICES ASSUME n \in 1 .. N, NEW a \in 1 .. N - n + 1
               PROVE  LeadsFrom(f[n][a], hs, a, n)
    OBVIOUS
  <2>1. f[n] = PartsOf(f, hs, n)
    BY PartsSteps
  <2>2. f[n][a] = PartOf(f, hs, n, a)
    BY <2>1 DEF PartsOf
  <2>3. CASE n = 1
    <3> DEFINE r == [hash |-> hs[a], paths |-> << <<>> >>]
    <3>1. r.hash = hs[a] /\ r.paths = [i \in 1 .. 1 |-> r.paths[i]] /\ r.paths[1] = <<>>
      OBVIOUS
    <3> HIDE DEF r
    <3>2. \A i \in 1 .. 1 : i = 1 /\ a + i - 1 = a
      OBVIOUS
    <3>3. LeadsFrom(r, hs, a, 1)
      BY <3>1, <3>2, ClimbNowhere, EmptyList DEF LeadsFrom
    <3>4. f[n][a] = r
      BY <2>2, <2>3 DEF PartOf, r
    <3>5. QED
      BY <2>3, <3>3, <3>4
  <2>4. CASE n # 1
    <3> DEFINE k == n \div 2
               l == f[k][a]
               r == f[n - k][a + k]
    <3>1. k \in 1 .. n - 1 /\ n - k \in 1 .. n - 1
      BY <2>4, Halves
    <3>2. f[n][a] = [hash  |-> BranchHash(l.hash, r.hash),
                     paths |-> Below(l.paths, r.hash) \o Below(r.paths, l.hash)]
      BY <2>2, <2>4 DEF PartOf
    <3> HIDE DEF k
    <3>3. /\ k \in Nat /\ n - k \in Nat /\ k < n /\ n - k < n
          /\ k \in 1 .. N /\ n - k \in 1 .. N
          /\ a \in 1 .. N - k + 1 /\ a + k \in 1 .. N - (n - k) + 1
          /\ k + (n - k) = n
      BY <3>1
    <3>4. k \in T /\ n - k \in T
      BY <1>1, <3>3
    <3>5. LeadsFrom(l, hs, a, k)
      BY <3>3, <3>4
    <3>6. LeadsFrom(r, hs, a + k, n - k)
      BY <3>3, <3>4
    <3> DEFINE k2 == n - k
    <3>7. k2 \in Nat /\ a \in Nat /\ LeadsFrom(r, hs, a + k, k2)
      BY <3>3, <3>6
    <3> HIDE DEF l, r, k2
    <3>8. LeadsFrom(f[n][a], hs, a, k + k2)
      BY <3>2, <3>3, <3>5, <3>7, Branches
    <3>9. QED
      BY <3>3, <3>8 DEF k2
  <2>5. QED
    BY <2>3, <2>4
<1> HIDE DEF T
<1>2. \A n \in Nat : n \in T
  BY <1>1, Strongly
<1>3. QED
  BY <1>2 DEF T

LEMMA TraverseLeads ==
    ASSUME NEW hs, IsList(hs), Len(hs) > 0
    PROVE  LeadsFrom(Traverse(hs), hs, 1, Len(hs))
<1> DEFINE N == Len(hs)
           part == CHOOSE f : f = [n \in 1 .. N |-> [a \in 1 .. N - n + 1 |->
                                     PartOf(f, hs, n, a)]]
<1>1. N \in Nat /\ N > 0
  BY DEF IsList
<1>2. Traverse(hs) = part[N][1]
  BY DEF Traverse, PartOf
<1>3. \E f : PartsBy(f, hs, N)
  BY <1>1, PartsExist
<1>4. \E f : f = [n \in 1 .. N |-> [a \in 1 .. N - n + 1 |-> PartOf(f, hs, n, a)]]
  BY <1>3 DEF PartsBy, PartsOf
<1>5. PartsBy(part, hs, N)
  BY <1>4, Zenon DEF PartsBy, PartsOf
<1> HIDE DEF part
<1>6. N \in 1 .. N /\ 1 \in 1 .. N - N + 1
  BY <1>1
<1>7. LeadsFrom(part[N][1], hs, 1, N)
  <2>1. \A n \in 1 .. N : \A a \in 1 .. N - n + 1 : LeadsFrom(part[n][a], hs, a, n)
    BY <1>1, <1>5, PartsLead
  <2>2. QED
    BY <1>6, <2>1
<1>8. QED
  BY <1>2, <1>7

-----------------------------------------------------------------------------
(* Trees that hold trees.                                                    *)

\* A leaf of the n-th tree: a script, or a tree made before.
LeafOk(leaf, n) ==
    IF IsScript(leaf) THEN leaf = [name |-> leaf.name] ELSE leaf.tree \in 1 .. n - 1

\* The path of each leaf leads from its hash to the root.
TreeOk(t, n) ==
    /\ t.version \in Versions /\ IsList(t.leaves)
    /\ \A i \in 1 .. Len(t.leaves) :
          /\ LeafOk(t.leaves[i], n) /\ IsList(t.paths[i])
          /\ Climb(HashOf(t.leaves[i], t.version), t.paths[i]) = t.root

TreesInv == IsList(trees) /\ \A n \in 1 .. Len(trees) : TreeOk(trees[n], n)

LEMMA FirstIsOne ==
    ASSUME NEW sets, NEW x \in First(sets)
    PROVE  \E i \in DOMAIN sets : x \in sets[i]
BY DEF First

LEMMA FirstThereIs ==
    ASSUME NEW sets, DOMAIN sets \subseteq Nat, NEW i \in DOMAIN sets, sets[i] # {}
    PROVE  First(sets) # {}
<1> DEFINE D == {j \in DOMAIN sets : sets[j] # {}}
<1>1. D \subseteq Nat /\ D # {}
  OBVIOUS
<1>2. PICK m \in D : \A d \in D : m <= d
  <2> HIDE DEF D
  <2>1. QED
    BY <1>1, Least
<1>3. m \in {j \in DOMAIN sets : \A h \in DOMAIN sets : sets[h] # {} => j <= h}
  BY <1>2
<1>4. PICK x : x \in sets[m]
  BY <1>2
<1>5. QED
  BY <1>3, <1>4 DEF First

-----------------------------------------------------------------------------
(* The search for a script.                                                  *)

LeafFinds(f, t, i, name) ==
    IF IsScript(t.leaves[i])
    THEN IF t.leaves[i].name = name
         THEN {[script |-> t.leaves[i], path |-> t.paths[i], version |-> t.version]}
         ELSE {}
    ELSE {[s EXCEPT !.path = @ \o t.paths[i]] : s \in f[t.leaves[i].tree]}
Finds(f, t, name) == First([i \in DOMAIN t.leaves |-> LeafFinds(f, t, i, name)])
FindBy(f, name, m) == f = [n \in 1 .. m |-> Finds(f, trees[n], name)]

LeafNames(f, leaf) == IF IsScript(leaf) THEN {leaf.name} ELSE f[leaf.tree]
NamesIn(f, t) == UNION {LeafNames(f, leaf) : leaf \in ToSet(t.leaves)}
NamesBy(f, m) == f = [n \in 1 .. m |-> NamesIn(f, trees[n])]

LEMMA LeavesOf ==
    ASSUME NEW t, NEW n, TreeOk(t, n)
    PROVE  /\ DOMAIN t.leaves = 1 .. Len(t.leaves)
           /\ ToSet(t.leaves) = {t.leaves[i] : i \in 1 .. Len(t.leaves)}
<1>1. PICK S : t.leaves \in Seq(S)
  BY DEF TreeOk, IsList
<1>2. DOMAIN t.leaves = 1 .. Len(t.leaves)
  BY <1>1
<1>3. QED
  BY <1>2 DEF ToSet

\* What is found, and named, in the n-th tree depends on the trees before it.
LEMMA SameFinds ==
    ASSUME NEW f, NEW g, NEW name, NEW n \in Nat, NEW t, TreeOk(t, n),
           \A k \in 1 .. n - 1 : f[k] = g[k]
    PROVE  Finds(f, t, name) = Finds(g, t, name)
<1>1. ASSUME NEW i \in 1 .. Len(t.leaves)
      PROVE  LeafFinds(f, t, i, name) = LeafFinds(g, t, i, name)
  <2>1. CASE IsScript(t.leaves[i])
    BY <2>1 DEF LeafFinds
  <2>2. CASE ~IsScript(t.leaves[i])
    <3>1. t.leaves[i].tree \in 1 .. n - 1
      BY <2>2 DEF TreeOk, LeafOk
    <3>2. f[t.leaves[i].tree] = g[t.leaves[i].tree]
      BY <3>1
    <3>3. QED
      BY <2>2, <3>2 DEF LeafFinds
  <2>3. QED
    BY <2>1, <2>2
<1>2. [i \in DOMAIN t.leaves |-> LeafFinds(f, t, i, name)]
      = [i \in DOMAIN t.leaves |-> LeafFinds(g, t, i, name)]
  BY <1>1, LeavesOf
<1>3. QED
  BY <1>2 DEF Finds

LEMMA SameNames ==
    ASSUME NEW f, NEW g, NEW n \in Nat, NEW t, TreeOk(t, n),
           \A k \in 1 .. n - 1 : f[k] = g[k]
    PROVE  NamesIn(f, t) = NamesIn(g, t)
<1>1. ASSUME NEW leaf \in ToSet(t.leaves)
      PROVE  LeafNames(f, leaf) = LeafNames(g, leaf)
  <2>0. ToSet(t.leaves) = {t.leaves[i] : i \in 1 .. Len(t.leaves)}
    BY LeavesOf
  <2>1. PICK i \in 1 .. Len(t.leaves) : leaf = t.leaves[i]
    BY <2>0
  <2>2. CASE IsScript(leaf)
    BY <2>2 DEF LeafNames
  <2>3. CASE ~IsScript(leaf)
    <3>1. leaf.tree \in 1 .. n - 1
      BY <2>1, <2>3 DEF TreeOk, LeafOk
    <3>2. f[leaf.tree] = g[leaf.tree]
      BY <3>1
    <3>3. QED
      BY <2>3, <3>2 DEF LeafNames
  <2>4. QED
    BY <2>2, <2>3
<1>2. QED
  BY <1>1 DEF NamesIn

LEMMA FindSteps ==
    ASSUME NEW f, NEW name, NEW m
    PROVE  FindBy(f, name, m) <=>
             /\ f = [n \in 1 .. m |-> f[n]]
             /\ \A n \in 1 .. m : f[n] = Finds(f, trees[n], name)
<1> DEFINE k == [n \in 1 .. m |-> Finds(f, trees[n], name)]
<1>1. k = [n \in 1 .. m |-> k[n]] /\ \A n \in 1 .. m : k[n] = Finds(f, trees[n], name)
  OBVIOUS
<1>2. FindBy(f, name, m) <=> f = k
  BY DEF FindBy
<1> HIDE DEF k
<1>3. f = k <=> f = [n \in 1 .. m |-> f[n]] /\ \A n \in 1 .. m : f[n] = k[n]
  BY <1>1, SameFunction
<1>4. QED
  BY <1>1, <1>2, <1>3

LEMMA NamesSteps ==
    ASSUME NEW f, NEW m
    PROVE  NamesBy(f, m) <=>
             /\ f = [n \in 1 .. m |-> f[n]]
             /\ \A n \in 1 .. m : f[n] = NamesIn(f, trees[n])
<1> DEFINE k == [n \in 1 .. m |-> NamesIn(f, trees[n])]
<1>1. k = [n \in 1 .. m |-> k[n]] /\ \A n \in 1 .. m : k[n] = NamesIn(f, trees[n])
  OBVIOUS
<1>2. NamesBy(f, m) <=> f = k
  BY DEF NamesBy
<1> HIDE DEF k
<1>3. f = k <=> f = [n \in 1 .. m |-> f[n]] /\ \A n \in 1 .. m : f[n] = k[n]
  BY <1>1, SameFunction
<1>4. QED
  BY <1>1, <1>2, <1>3

LEMMA FindExists ==
    ASSUME TreesInv, NEW name, NEW m \in Nat, m <= Len(trees)
    PROVE  \E f : FindBy(f, name, m)
<1> DEFINE T == {n \in Nat : n <= Len(trees) => \E f : FindBy(f, name, n)}
<1>1. 0 \in T
  <2> DEFINE f == [n \in 1 .. 0 |-> 0]
  <2>1. f = [n \in 1 .. 0 |-> f[n]] /\ \A n \in 1 .. 0 : FALSE
    OBVIOUS
  <2> HIDE DEF f
  <2>2. FindBy(f, name, 0)
    BY <2>1, FindSteps
  <2>3. QED
    BY <2>2
<1>2. ASSUME NEW n \in Nat, n \in T
      PROVE  n + 1 \in T
  <2> SUFFICES ASSUME n + 1 <= Len(trees) PROVE \E f : FindBy(f, name, n + 1)
    OBVIOUS
  <2>0. Len(trees) \in Nat /\ n <= Len(trees)
    BY DEF TreesInv, IsList
  <2>1. PICK f : FindBy(f, name, n)
    BY <1>2, <2>0
  <2> DEFINE g == [k \in 1 .. n + 1 |-> IF k = n + 1 THEN Finds(f, trees[n + 1], name)
                                        ELSE f[k]]
  <2>2. \A k \in 1 .. n : f[k] = Finds(f, trees[k], name)
    BY <2>1, FindSteps
  <2>3. /\ g = [k \in 1 .. n + 1 |-> g[k]] /\ g[n + 1] = Finds(f, trees[n + 1], name)
        /\ \A k \in 1 .. n : g[k] = f[k]
    OBVIOUS
  <2> HIDE DEF g
  <2>4. ASSUME NEW k \in 1 .. n + 1
        PROVE  g[k] = Finds(g, trees[k], name)
    <3>1. k \in Nat /\ k \in 1 .. Len(trees) /\ \A i \in 1 .. k - 1 : i \in 1 .. n
      BY <2>0
    <3>2. (\A i \in 1 .. k - 1 : f[i] = g[i]) /\ TreeOk(trees[k], k)
      BY <2>3, <3>1 DEF TreesInv
    <3>3. Finds(f, trees[k], name) = Finds(g, trees[k], name)
      BY <3>1, <3>2, SameFinds
    <3>4. k = n + 1 \/ k \in 1 .. n
      OBVIOUS
    <3>5. QED
      BY <2>2, <2>3, <3>3, <3>4
  <2>5. FindBy(g, name, n + 1)
    BY <2>3, <2>4, FindSteps
  <2>6. QED
    BY <2>5
<1> HIDE DEF T
<1>3. m \in T
  BY <1>1, <1>2, Stepwise
<1>4. QED
  BY <1>3 DEF T

LEMMA NamesExist ==
    ASSUME TreesInv, NEW m \in Nat, m <= Len(trees)
    PROVE  \E f : NamesBy(f, m)
<1> DEFINE T == {n \in Nat : n <= Len(trees) => \E f : NamesBy(f, n)}
<1>1. 0 \in T
  <2> DEFINE f == [n \in 1 .. 0 |-> 0]
  <2>1. f = [n \in 1 .. 0 |-> f[n]] /\ \A n \in 1 .. 0 : FALSE
    OBVIOUS
  <2> HIDE DEF f
  <2>2. NamesBy(f, 0)
    BY <2>1, NamesSteps
  <2>3. QED
    BY <2>2
<1>2. ASSUME NEW n \in Nat, n \in T
      PROVE  n + 1 \in T
  <2> SUFFICES ASSUME n + 1 <= Len(trees) PROVE \E f : NamesBy(f, n + 1)
    OBVIOUS
  <2>0. Len(trees) \in Nat /\ n <= Len(trees)
    BY DEF TreesInv, IsList
  <2>1. PICK f : NamesBy(f, n)
    BY <1>2, <2>0
  <2> DEFINE g == [k \in 1 .. n + 1 |-> IF k = n + 1 THEN NamesIn(f, trees[n + 1])
                                        ELSE f[k]]
  <2>2. \A k \in 1 .. n : f[k] = NamesIn(f, trees[k])
    BY <2>1, NamesSteps
  <2>3. /\ g = [k \in 1 .. n + 1 |-> g[k]] /\ g[n + 1] = NamesIn(f, trees[n + 1])
        /\ \A k \in 1 .. n : g[k] = f[k]
    OBVIOUS
  <2> HIDE DEF g
  <2>4. ASSUME NEW k \in 1 .. n + 1
        PROVE  g[k] = NamesIn(g, trees[k])
    <3>1. k \in Nat /\ k \in 1 .. Len(trees) /\ \A i \in 1 .. k - 1 : i \in 1 .. n
      BY <2>0
    <3>2. (\A i \in 1 .. k - 1 : f[i] = g[i]) /\ TreeOk(trees[k], k)
      BY <2>3, <3>1 DEF TreesInv
    <3>3. NamesIn(f, trees[k]) = NamesIn(g, trees[k])
      BY <3>1, <3>2, SameNames
    <3>4. k = n + 1 \/ k \in 1 .. n
      OBVIOUS
    <3>5. QED
      BY <2>2, <2>3, <3>3, <3>4
  <2>5. NamesBy(g, n + 1)
    BY <2>3, <2>4, NamesSteps
  <2>6. QED
    BY <2>5
<1> HIDE DEF T
<1>3. m \in T
  BY <1>1, <1>2, Stepwise
<1>4. QED
  BY <1>3 DEF T

-----------------------------------------------------------------------------
(* What the search finds.                                                    *)

\* A script of that name with a path from its hash to the n-th root.
FoundOk(s, name, n) ==
    /\ s = [script |-> [name |-> name], path |-> s.path, version |-> s.version]
    /\ IsList(s.path) /\ s.version \in Versions
    /\ Climb(LeafHash(s.script, s.version), s.path) = trees[n].root

LEMMA LeafSound ==
    ASSUME NEW n \in 1 .. Len(trees), NEW t, t = trees[n], TreeOk(t, n),
           NEW i \in 1 .. Len(t.leaves), NEW f, NEW name,
           \A k \in 1 .. n - 1 : \A s \in f[k] : FoundOk(s, name, k),
           NEW s \in LeafFinds(f, t, i, name)
    PROVE  FoundOk(s, name, n)
<1> DEFINE leaf == t.leaves[i]
           path == t.paths[i]
<1>1. /\ LeafOk(leaf, n) /\ IsList(path) /\ t.version \in Versions
      /\ Climb(HashOf(leaf, t.version), path) = trees[n].root
  BY DEF TreeOk
<1>2. CASE IsScript(leaf)
  <2>1. s = [script |-> leaf, path |-> path, version |-> t.version] /\ leaf.name = name
    BY <1>2 DEF LeafFinds
  <2>2. leaf = [name |-> name]
    BY <1>1, <1>2, <2>1 DEF LeafOk
  <2>3. Climb(LeafHash(leaf, t.version), path) = trees[n].root
    BY <1>1, <1>2 DEF HashOf
  <2> HIDE DEF leaf, path
  <2>4. QED
    BY <1>1, <2>1, <2>2, <2>3 DEF FoundOk
<1>3. CASE ~IsScript(leaf)
  <2> DEFINE k == leaf.tree
  <2>1. k \in 1 .. n - 1
    BY <1>1, <1>3 DEF LeafOk
  <2>2. PICK r \in f[k] : s = [r EXCEPT !.path = @ \o path]
    BY <1>3 DEF LeafFinds
  <2>3. Climb(trees[k].root, path) = trees[n].root
    BY <1>1, <1>3 DEF HashOf
  <2> HIDE DEF k, path
  <2>4. FoundOk(r, name, k)
    BY <2>1, <2>2
  <2>5. PICK p, v : /\ r = [script |-> [name |-> name], path |-> p, version |-> v]
                    /\ IsList(p) /\ v \in Versions
                    /\ Climb(LeafHash([name |-> name], v), p) = trees[k].root
    <3>1. r.script = [name |-> name]
      BY <2>4 DEF FoundOk
    <3>2. QED
      BY <2>4, <3>1, Zenon DEF FoundOk
  <2>6. s = [script |-> [name |-> name], path |-> p \o path, version |-> v]
    BY <2>2, <2>5
  <2>7. IsList(p \o path)
    BY <1>1, <2>5, Joined
  <2>8. Climb(LeafHash([name |-> name], v), p \o path) = trees[n].root
    BY <1>1, <2>3, <2>5, ClimbOn
  <2>9. QED
    BY <2>5, <2>6, <2>7, <2>8 DEF FoundOk
<1>4. QED
  BY <1>2, <1>3

LEMMA FindSound ==
    ASSUME TreesInv, NEW name, NEW m \in Nat, m <= Len(trees), NEW f, FindBy(f, name, m)
    PROVE  \A n \in 1 .. m : \A s \in f[n] : FoundOk(s, name, n)
<1> DEFINE T == {n \in Nat : n \in 1 .. m => \A s \in f[n] : FoundOk(s, name, n)}
<1>0. Len(trees) \in Nat
  BY DEF TreesInv, IsList
<1>1. ASSUME NEW n \in Nat, \A j \in Nat : j < n => j \in T
      PROVE  n \in T
  <2> SUFFICES ASSUME n \in 1 .. m, NEW s \in f[n] PROVE FoundOk(s, name, n)
    OBVIOUS
  <2>1. n \in 1 .. Len(trees) /\ \A k \in 1 .. n - 1 : k \in Nat /\ k < n /\ k \in 1 .. m
    BY <1>0
  <2> DEFINE t == trees[n]
  <2>2. TreeOk(t, n)
    BY <2>1 DEF TreesInv
  <2>3. f[n] = Finds(f, t, name)
    BY FindSteps
  <2>4. \A k \in 1 .. n - 1 : \A r \in f[k] : FoundOk(r, name, k)
    BY <1>1, <2>1
  <2>5. t = trees[n]
    OBVIOUS
  <2> HIDE DEF t
  <2> DEFINE sets == [i \in DOMAIN t.leaves |-> LeafFinds(f, t, i, name)]
  <2>6. s \in First(sets)
    BY <2>3 DEF Finds
  <2>7. DOMAIN sets = 1 .. Len(t.leaves)
    BY <2>2, LeavesOf
  <2>8. \A i \in DOMAIN sets : sets[i] = LeafFinds(f, t, i, name)
    OBVIOUS
  <2> HIDE DEF sets
  <2>9. PICK i \in DOMAIN sets : s \in sets[i]
    BY <2>6, FirstIsOne
  <2>10. QED
    BY <2>1, <2>2, <2>4, <2>5, <2>7, <2>8, <2>9, LeafSound
<1> HIDE DEF T
<1>2. \A n \in Nat : n \in T
  BY <1>1, Strongly
<1>3. QED
  BY <1>2 DEF T

LEMMA LeafComplete ==
    ASSUME NEW n \in Nat, NEW t, TreeOk(t, n), NEW i \in 1 .. Len(t.leaves),
           NEW f, NEW g, NEW name, \A k \in 1 .. n - 1 : name \in g[k] => f[k] # {},
           name \in LeafNames(g, t.leaves[i])
    PROVE  LeafFinds(f, t, i, name) # {}
<1>1. CASE IsScript(t.leaves[i])
  BY <1>1 DEF LeafFinds, LeafNames
<1>2. CASE ~IsScript(t.leaves[i])
  <2>1. t.leaves[i].tree \in 1 .. n - 1 /\ name \in g[t.leaves[i].tree]
    BY <1>2 DEF TreeOk, LeafOk, LeafNames
  <2>2. PICK r : r \in f[t.leaves[i].tree]
    BY <2>1
  <2>3. QED
    BY <1>2, <2>2 DEF LeafFinds
<1>3. QED
  BY <1>1, <1>2

LEMMA FindComplete ==
    ASSUME TreesInv, NEW name, NEW m \in Nat, m <= Len(trees),
           NEW f, FindBy(f, name, m), NEW g, NamesBy(g, m)
    PROVE  \A n \in 1 .. m : name \in g[n] => f[n] # {}
<1> DEFINE T == {n \in Nat : n \in 1 .. m => (name \in g[n] => f[n] # {})}
<1>0. Len(trees) \in Nat
  BY DEF TreesInv, IsList
<1>1. ASSUME NEW n \in Nat, \A j \in Nat : j < n => j \in T
      PROVE  n \in T
  <2> SUFFICES ASSUME n \in 1 .. m, name \in g[n] PROVE f[n] # {}
    OBVIOUS
  <2>1. n \in 1 .. Len(trees) /\ \A k \in 1 .. n - 1 : k \in Nat /\ k < n /\ k \in 1 .. m
    BY <1>0
  <2> DEFINE t == trees[n]
  <2>2. TreeOk(t, n)
    BY <2>1 DEF TreesInv
  <2>3. f[n] = Finds(f, t, name) /\ g[n] = NamesIn(g, t)
    BY FindSteps, NamesSteps
  <2>4. \A k \in 1 .. n - 1 : name \in g[k] => f[k] # {}
    BY <1>1, <2>1
  <2> HIDE DEF t
  <2>5. PICK leaf \in ToSet(t.leaves) : name \in LeafNames(g, leaf)
    BY <2>3 DEF NamesIn
  <2>6. /\ DOMAIN t.leaves = 1 .. Len(t.leaves)
        /\ ToSet(t.leaves) = {t.leaves[i] : i \in 1 .. Len(t.leaves)}
    BY <2>2, LeavesOf
  <2>7. PICK i \in 1 .. Len(t.leaves) : leaf = t.leaves[i]
    BY <2>6
  <2>8. LeafFinds(f, t, i, name) # {}
    BY <2>2, <2>4, <2>5, <2>7, LeafComplete
  <2> DEFINE sets == [j \in DOMAIN t.leaves |-> LeafFinds(f, t, j, name)]
  <2>9. DOMAIN sets = 1 .. Len(t.leaves) /\ i \in DOMAIN sets /\ sets[i] # {}
    BY <2>6, <2>8
  <2>10. f[n] = First(sets)
    BY <2>3 DEF Finds
  <2> HIDE DEF sets
  <2>11. DOMAIN sets \subseteq Nat
    BY <2>9
  <2>12. QED
    BY <2>9, <2>10, <2>11, FirstThereIs
<1> HIDE DEF T
<1>2. \A n \in Nat : n \in T
  BY <1>1, Strongly
<1>3. QED
  BY <1>2 DEF T

\* Every script of a tree is found, and what is found has its path.
LEMMA ScriptsFound ==
    ASSUME TreesInv, NEW k \in 1 .. Len(trees), NEW name \in Names(k)
    PROVE  /\ ScriptWithPath(k, name) # {}
           /\ \A s \in ScriptWithPath(k, name) : FoundOk(s, name, k)
<1> DEFINE find == CHOOSE f : f = [n \in 1 .. k |-> Finds(f, trees[n], name)]
           names == CHOOSE f : f = [n \in 1 .. k |-> NamesIn(f, trees[n])]
<1>1. k \in Nat /\ k <= Len(trees) /\ k \in 1 .. k
  BY DEF TreesInv, IsList
<1>2. ScriptWithPath(k, name) = find[k]
  BY DEF ScriptWithPath, Finds, LeafFinds
<1>3. Names(k) = names[k]
  BY DEF Names, NamesIn, LeafNames
<1>4. \E f : f = [n \in 1 .. k |-> Finds(f, trees[n], name)]
  BY <1>1, FindExists DEF FindBy
<1>5. \E f : f = [n \in 1 .. k |-> NamesIn(f, trees[n])]
  BY <1>1, NamesExist DEF NamesBy
<1>6. FindBy(find, name, k)
  BY <1>4, Zenon DEF FindBy
<1>7. NamesBy(names, k)
  BY <1>5, Zenon DEF NamesBy
<1> HIDE DEF find, names
<1>8. \A n \in 1 .. k : \A s \in find[n] : FoundOk(s, name, n)
  BY <1>1, <1>6, FindSound
<1>9. \A n \in 1 .. k : name \in names[n] => find[n] # {}
  BY <1>1, <1>6, <1>7, FindComplete
<1>10. QED
  BY <1>1, <1>2, <1>3, <1>8, <1>9

-----------------------------------------------------------------------------
(* The invariant.                                                            *)

KeysInv ==
    /\ trees = <<>> => internal = None
    /\ output = IF internal = None THEN {}
                ELSE TapTweakPubkey(internal, Last(trees).root)

AddressOk(a) == a \in [chain : Chains, kind : Kinds, data : {a.data}]
TextOk(t) ==
    IF IsBase58(t)
    THEN t = [base58 |-> t.base58, length |-> t.length, data |-> t.data]
    ELSE t = [hrp |-> t.hrp, witver |-> t.witver, checksum |-> t.checksum,
              length |-> t.length, data |-> t.data]

AddressInv ==
    /\ address # None => AddressOk(address) /\ Text(address) = text
    /\ text # None => TextOk(text)

IInv == TreesInv /\ KeysInv /\ AddressInv

\* A new tree is made as the others are, and changes none of them.
LEMMA PlantStep ==
    ASSUME TreesInv, NEW before, before = <<>> \/ before = trees,
           NEW leaves, IsList(leaves), NEW version \in Versions,
           \A i \in 1 .. Len(leaves) : LeafOk(leaves[i], Len(before) + 1),
           Plant(before, leaves, version)
    PROVE  TreesInv'
<1> DEFINE m  == Len(before)
           n  == Len(leaves)
           hs == [i \in DOMAIN leaves |-> HashOf(leaves[i], version)]
           r  == Traverse(hs)
           t  == [version |-> version, leaves |-> leaves, root |-> r.hash,
                  paths |-> r.paths]
<1>1. IsList(before) /\ m \in Nat /\ \A k \in 1 .. m : TreeOk(before[k], k) /\ before[k] = trees[k]
  <2>1. CASE before = <<>>
    <3>1. m = 0 /\ \A k \in 1 .. 0 : FALSE
      BY <2>1
    <3>2. QED
      BY <2>1, <3>1, EmptyList
  <2>2. CASE before = trees
    BY <2>2 DEF TreesInv, IsList
  <2>3. QED
    BY <2>1, <2>2
<1>2. trees' = Append(before, t) /\ n > 0
  BY DEF Plant
<1>3. n \in Nat /\ DOMAIN leaves = 1 .. n
  BY DEF IsList
<1>4. /\ hs = [i \in 1 .. n |-> hs[i]]
      /\ \A i \in 1 .. n : hs[i] = HashOf(leaves[i], version)
  BY <1>3
<1> HIDE DEF hs
<1>5. IsList(hs) /\ Len(hs) = n
  BY <1>3, <1>4, ListOf
<1>6. LeadsFrom(r, hs, 1, n)
  BY <1>2, <1>5, TraverseLeads
<1> HIDE DEF r
<1>7. t.version = version /\ t.leaves = leaves /\ t.root = r.hash /\ t.paths = r.paths
  OBVIOUS
<1> HIDE DEF t
<1>8. /\ IsList(trees') /\ Len(trees') = m + 1
      /\ \A k \in 1 .. m : trees'[k] = before[k]
      /\ trees'[m + 1] = t
  BY <1>1, <1>2, Appended
<1>9. ASSUME NEW k \in 1 .. m + 1, NEW leaf, LeafOk(leaf, k), NEW v
      PROVE  LeafOk(leaf, k)' /\ HashOf(leaf, v)' = HashOf(leaf, v)
  <2>1. LeafOk(leaf, k)'
    BY <1>9 DEF LeafOk, IsScript
  <2>2. CASE IsScript(leaf)
    BY <2>1, <2>2 DEF HashOf, IsScript
  <2>3. CASE ~IsScript(leaf)
    <3>1. leaf.tree \in 1 .. m
      BY <1>1, <1>9, <2>3 DEF LeafOk
    <3>2. trees'[leaf.tree] = trees[leaf.tree]
      BY <1>1, <1>8, <3>1
    <3>3. QED
      BY <2>1, <2>3, <3>2 DEF HashOf, IsScript
  <2>4. QED
    BY <2>1, <2>2, <2>3
<1>10. ASSUME NEW k \in 1 .. m
       PROVE  TreeOk(trees[k], k)'
  <2> DEFINE b == before[k]
  <2>1. TreeOk(b, k) /\ trees'[k] = b /\ k \in 1 .. m + 1
    BY <1>1, <1>8
  <2> HIDE DEF b
  <2>2. ASSUME NEW i \in 1 .. Len(b.leaves)
        PROVE  /\ LeafOk(b.leaves[i], k)' /\ IsList(b.paths[i])
               /\ Climb(HashOf(b.leaves[i], b.version)', b.paths[i]) = b.root
    <3>1. /\ LeafOk(b.leaves[i], k) /\ IsList(b.paths[i])
          /\ Climb(HashOf(b.leaves[i], b.version), b.paths[i]) = b.root
      BY <2>1 DEF TreeOk
    <3>2. LeafOk(b.leaves[i], k)' /\ HashOf(b.leaves[i], b.version)' = HashOf(b.leaves[i], b.version)
      BY <1>9, <2>1, <3>1
    <3>3. QED
      BY <3>1, <3>2
  <2>3. b.version \in Versions /\ IsList(b.leaves)
    BY <2>1 DEF TreeOk
  <2>4. QED
    BY <2>1, <2>2, <2>3 DEF TreeOk, IsList
<1>11. TreeOk(trees[m + 1], m + 1)'
  <2>1. ASSUME NEW i \in 1 .. n
        PROVE  /\ LeafOk(leaves[i], m + 1)' /\ IsList(r.paths[i])
               /\ Climb(HashOf(leaves[i], version)', r.paths[i]) = r.hash
    <3>1. LeafOk(leaves[i], m + 1) /\ m + 1 \in 1 .. m + 1 /\ 1 + i - 1 = i
      BY <1>1
    <3>2. LeafOk(leaves[i], m + 1)' /\ HashOf(leaves[i], version)' = HashOf(leaves[i], version)
      BY <1>9, <3>1
    <3>3. IsList(r.paths[i]) /\ Climb(hs[1 + i - 1], r.paths[i]) = r.hash
      BY <1>6 DEF LeadsFrom
    <3>4. QED
      BY <1>4, <3>1, <3>2, <3>3
  <2>2. QED
    BY <1>7, <1>8, <2>1 DEF TreeOk, IsList
<1>12. \A k \in 1 .. m + 1 : k \in 1 .. m \/ k = m + 1
  BY <1>1
<1>13. QED
  BY <1>8, <1>10, <1>11, <1>12 DEF TreesInv, IsList

\* Scripts, and scripts with a tree among them, are leaves.
LEMMA ScriptLeaves ==
    ASSUME NEW k, NEW n \in Nat, NEW m
    PROVE  /\ IsList(Scripts(k, n))
           /\ \A i \in 1 .. Len(Scripts(k, n)) : LeafOk(Scripts(k, n)[i], m)
<1> DEFINE s == Scripts(k, n)
<1>1. s = [i \in 1 .. n |-> s[i]] /\ \A i \in 1 .. n : s[i] = [name |-> <<k, i>>]
  BY DEF Scripts
<1> HIDE DEF s
<1>2. IsList(s) /\ Len(s) = n
  BY <1>1, ListOf
<1>3. ASSUME NEW x PROVE LeafOk([name |-> x], m)
  BY DEF LeafOk, IsScript
<1>4. QED
  BY <1>1, <1>2, <1>3 DEF s

LEMMA InsertedLeaves ==
    ASSUME NEW k, NEW n \in Nat, NEW at \in 1 .. n + 1, NEW m \in Nat, NEW j \in 1 .. m - 1
    PROVE  LET s == InsertAt(Scripts(k, n), at, [tree |-> j])
           IN IsList(s) /\ \A i \in 1 .. Len(s) : LeafOk(s[i], m)
<1> DEFINE s == Scripts(k, n)
           e == [tree |-> j]
           L == {[name |-> <<k, i>>] : i \in 1 .. n} \union {e}
           a == SubSeq(s, 1, at - 1)
           b == SubSeq(s, at, Len(s))
<1>1. s = [i \in 1 .. n |-> s[i]] /\ \A i \in 1 .. n : s[i] \in L
  BY DEF Scripts
<1>2. ASSUME NEW leaf \in L PROVE LeafOk(leaf, m)
  <2>1. CASE leaf = e
    BY <2>1 DEF LeafOk, IsScript
  <2>2. CASE leaf # e
    <3>1. PICK i \in 1 .. n : leaf = [name |-> <<k, i>>]
      BY <1>2, <2>2
    <3>2. leaf.name = <<k, i>> /\ "name" \in DOMAIN leaf
      BY <3>1
    <3>3. QED
      BY <3>1, <3>2 DEF LeafOk, IsScript
  <2>3. QED
    BY <2>1, <2>2
<1>3. e \in L
  OBVIOUS
<1> HIDE DEF s, e, L
<1>4. s \in Seq(L) /\ Len(s) = n
  BY <1>1
<1>5. a \in Seq(L) /\ b \in Seq(L)
  BY <1>4, SubSeqProperties
<1> HIDE DEF a, b
<1>6. <<e>> \in Seq(L)
  BY <1>3
<1>7. a \o <<e>> \o b \in Seq(L)
  BY <1>5, <1>6
<1>8. InsertAt(s, at, e) = a \o <<e>> \o b
  BY DEF InsertAt, a, b
<1> DEFINE r == InsertAt(s, at, e)
<1>9. r \in Seq(L)
  BY <1>7, <1>8
<1> HIDE DEF r
<1>10. IsList(r) /\ \A i \in 1 .. Len(r) : r[i] \in L
  BY <1>9 DEF IsList
<1>11. QED
  BY <1>2, <1>10 DEF r, s, e

LEMMA PlantKeeps ==
    ASSUME NEW before, NEW leaves, NEW version, Plant(before, leaves, version),
           IsList(before)
    PROVE  KeysInv' /\ AddressInv'
<1>1. /\ internal' = None /\ output' = {} /\ address' = None /\ text' = None
  BY DEF Plant
<1>2. KeysInv'
  BY <1>1 DEF KeysInv
<1>3. AddressInv'
  BY <1>1 DEF AddressInv
<1>4. QED
  BY <1>2, <1>3

LEMMA PlantScriptsStep ==
    ASSUME IInv, NEW n \in 1 .. MaxScripts, NEW v \in Versions, PlantScripts(n, v)
    PROVE  IInv'
<1> DEFINE s == Scripts(1, n)
<1>1. Plant(<<>>, s, v) /\ n \in Nat
  BY OutputsAssumption DEF PlantScripts
<1>2. IsList(s) /\ \A i \in 1 .. Len(s) : LeafOk(s[i], Len(<<>>) + 1)
  BY <1>1, ScriptLeaves
<1> HIDE DEF s
<1>3. TreesInv'
  BY <1>1, <1>2, PlantStep DEF IInv
<1>4. QED
  BY <1>1, <1>3, PlantKeeps, EmptyList DEF IInv

LEMMA EncloseStep ==
    ASSUME IInv, NEW n \in 1 .. MaxScripts, NEW k \in DOMAIN trees, NEW v \in Versions,
           NEW at \in 1 .. n + 1, Enclose(n, at, k, v)
    PROVE  IInv'
<1> DEFINE m == Len(trees) + 1
           s == InsertAt(Scripts(m, n), at, [tree |-> k])
<1>1. Plant(trees, s, v) /\ n \in Nat
  BY OutputsAssumption DEF Enclose
<1>2. IsList(trees) /\ m \in Nat /\ k \in 1 .. m - 1
  BY DEF IInv, TreesInv, IsList
<1> HIDE DEF m
<1>3. IsList(s) /\ \A i \in 1 .. Len(s) : LeafOk(s[i], m)
  BY <1>1, <1>2, InsertedLeaves
<1> HIDE DEF s
<1>4. TreesInv'
  BY <1>1, <1>3, PlantStep DEF IInv, m
<1>5. QED
  BY <1>1, <1>2, <1>4, PlantKeeps DEF IInv

LEMMA SameTrees ==
    ASSUME TreesInv, trees' = trees
    PROVE  TreesInv'
<1>1. ASSUME NEW leaf, NEW n
      PROVE  (LeafOk(leaf, n)' <=> LeafOk(leaf, n)) /\ \A v : HashOf(leaf, v)' = HashOf(leaf, v)
  BY DEF LeafOk, HashOf, IsScript
<1>2. ASSUME NEW t, NEW n, TreeOk(t, n)
      PROVE  TreeOk(t, n)'
  BY <1>1, <1>2 DEF TreeOk, IsList
<1>3. ASSUME NEW n \in 1 .. Len(trees)
      PROVE  TreeOk(trees[n], n)'
  <2>1. PICK t : t = trees[n]
    OBVIOUS
  <2>2. TreeOk(t, n) /\ trees'[n] = t
    BY <2>1 DEF TreesInv
  <2>3. TreeOk(t, n)'
    BY <1>2, <2>2
  <2>4. QED
    BY <2>2, <2>3 DEF TreeOk, IsList
<1>4. QED
  BY <1>3 DEF TreesInv, IsList

LEMMA SetKeyStep ==
    ASSUME IInv, NEW k, SetInternalPubkey(k)
    PROVE  IInv'
<1>1. /\ trees' = trees /\ trees # <<>> /\ internal' = k
      /\ output' = IF k = None THEN {} ELSE TapTweakPubkey(k, Last(trees).root)
      /\ address' = None /\ text' = None
  BY DEF SetInternalPubkey
<1>2. TreesInv'
  BY <1>1, SameTrees DEF IInv
<1>3. KeysInv'
  BY <1>1 DEF KeysInv, TapTweakPubkey, TweakAdd, ComputeTapTweakHash, Last
<1>4. AddressInv'
  BY <1>1 DEF AddressInv
<1>5. QED
  BY <1>2, <1>3, <1>4 DEF IInv

\* Everything but the address stays.
LEMMA SameKeys ==
    ASSUME TreesInv, KeysInv, UNCHANGED <<trees, internal, output>>
    PROVE  TreesInv' /\ KeysInv'
<1>1. TreesInv'
  BY SameTrees
<1>2. KeysInv'
  BY DEF KeysInv, TapTweakPubkey, TweakAdd, ComputeTapTweakHash, Last
<1>3. QED
  BY <1>1, <1>2

LEMMA MakeStep ==
    ASSUME IInv, NEW a, NEW t, Make(a, t), AddressOk(a), Text(a) = t, TextOk(t)
    PROVE  IInv'
<1>1. address' = a /\ text' = t /\ UNCHANGED <<trees, internal, output>>
  BY DEF Make
<1>2. AddressInv'
  BY <1>1 DEF AddressInv, AddressOk, TextOk, Text
<1>3. QED
  BY <1>1, <1>2, SameKeys DEF IInv

-----------------------------------------------------------------------------
(* Addresses and their texts.                                                *)

LEMMA AddressParts ==
    ASSUME NEW c \in Chains, NEW k \in Kinds, NEW d
    PROVE  LET a == [chain |-> c, kind |-> k, data |-> d]
           IN AddressOk(a) /\ a.chain = c /\ a.kind = k /\ a.data = d
BY DEF AddressOk

LEMMA AddressFields ==
    ASSUME NEW a, AddressOk(a)
    PROVE  /\ a.chain \in Chains /\ a.kind \in Kinds
           /\ a = [chain |-> a.chain, kind |-> a.kind, data |-> a.data]
BY DEF AddressOk

LEMMA TextFits ==
    ASSUME NEW a, AddressOk(a)
    PROVE  TextOk(Text(a))
<1>1. ASSUME NEW x, NEW y, NEW z
      PROVE  /\ TextOk([base58 |-> x, length |-> y, data |-> z])
             /\ \A v, w : TextOk([hrp |-> v, witver |-> w, checksum |-> x, length |-> y, data |-> z])
  BY DEF TextOk, IsBase58
<1>2. QED
  BY <1>1 DEF Text

\* The texts of two kinds differ, whatever the chain.
LEMMA KindOfText ==
    ASSUME NEW a, AddressOk(a), NEW c \in Chains, NEW x \in Kinds, Matches(c, x, Text(a))
    PROVE  x = a.kind
<1>1. a.kind \in Kinds /\ a.chain \in Chains
  BY AddressFields
<1>2. CASE a.kind \in Base58Kinds
  <2>1. /\ "base58" \in DOMAIN Text(a)
        /\ Text(a).base58 = Base58Prefix(a.chain, a.kind)
    BY <1>2 DEF Text
  <2>2. x \in Base58Kinds /\ Base58Prefix(a.chain, a.kind) = Base58Prefix(c, x)
    BY <2>1 DEF Matches, IsBase58
  <2>3. QED
    BY <1>1, <1>2, <2>2 DEF Base58Prefix, Base58Kinds, Chains
<1>3. CASE a.kind \notin Base58Kinds
  <2>1. /\ "base58" \notin DOMAIN Text(a)
        /\ Text(a).witver = WitnessVersion(a.kind) /\ Text(a).length = DataLength(a.kind)
    BY <1>3 DEF Text
  <2>2. /\ x \in Bech32Kinds /\ WitnessVersion(a.kind) = WitnessVersion(x)
        /\ DataLength(a.kind) = DataLength(x)
    BY <2>1 DEF Matches, IsBase58, MatchesProgram
  <2>3. QED
    BY <1>1, <1>3, <2>2 DEF WitnessVersion, DataLength, Kinds, Bech32Kinds
<1>4. QED
  BY <1>2, <1>3

LEMMA ReadsItself ==
    ASSUME NEW a, AddressOk(a)
    PROVE  Matches(a.chain, a.kind, Text(a)) /\ Text(a).data = a.data
<1>1. a.kind \in Kinds
  BY AddressFields
<1>2. CASE a.kind \in Base58Kinds
  <2>1. /\ "base58" \in DOMAIN Text(a) /\ Text(a).data = a.data
        /\ Text(a).base58 = Base58Prefix(a.chain, a.kind)
        /\ Text(a).length = DataLength(a.kind)
    BY <1>2 DEF Text
  <2>2. QED
    BY <1>2, <2>1 DEF Matches, IsBase58
<1>3. CASE a.kind \notin Base58Kinds
  <2>1. /\ "base58" \notin DOMAIN Text(a) /\ Text(a).data = a.data
        /\ Text(a).hrp = Bech32Hrp(a.chain)
        /\ Text(a).witver = WitnessVersion(a.kind)
        /\ Text(a).checksum = IF WitnessVersion(a.kind) = 0 THEN "bech32" ELSE "bech32m"
        /\ Text(a).length = DataLength(a.kind)
    BY <1>3 DEF Text
  <2>2. /\ WitnessVersion(a.kind) \in {0, 1} /\ DataLength(a.kind) \in {20, 32}
    BY DEF WitnessVersion, DataLength
  <2>3. /\ WitnessVersion(a.kind) <= 16 /\ DataLength(a.kind) \in 2 .. 40
    BY <2>2
  <2>4. Decodes(Bech32Hrp(a.chain), Text(a))
    BY <2>1, <2>2, <2>3 DEF Decodes
  <2>5. QED
    BY <1>1, <1>3, <2>1, <2>4 DEF Matches, IsBase58, MatchesProgram, Kinds
<1>4. QED
  BY <1>2, <1>3

\* What a text is read as is written so.
LEMMA ReadIsWritten ==
    ASSUME NEW t, TextOk(t), NEW c \in Chains, NEW k \in Kinds, Matches(c, k, t)
    PROVE  Text([chain |-> c, kind |-> k, data |-> t.data]) = t
<1> DEFINE a == [chain |-> c, kind |-> k, data |-> t.data]
<1>1. a.chain = c /\ a.kind = k /\ a.data = t.data
  OBVIOUS
<1> HIDE DEF a
<1>2. CASE IsBase58(t)
  <2>1. t = [base58 |-> t.base58, length |-> t.length, data |-> t.data]
    BY <1>2 DEF TextOk, IsBase58
  <2>2. k \in Base58Kinds /\ t.base58 = Base58Prefix(c, k) /\ t.length = DataLength(k)
    BY <1>2 DEF Matches
  <2>3. Text(a) = [base58 |-> Base58Prefix(c, k), length |-> DataLength(k), data |-> t.data]
    BY <1>1, <2>2 DEF Text
  <2>4. QED
    BY <2>1, <2>2, <2>3 DEF a
<1>3. CASE ~IsBase58(t)
  <2>1. t = [hrp |-> t.hrp, witver |-> t.witver, checksum |-> t.checksum,
             length |-> t.length, data |-> t.data]
    BY <1>3 DEF TextOk, IsBase58
  <2>2. /\ k \in Bech32Kinds /\ t.hrp = Bech32Hrp(c)
        /\ t.checksum = IF t.witver = 0 THEN "bech32" ELSE "bech32m"
        /\ t.length = DataLength(k) /\ t.witver = WitnessVersion(k)
    BY <1>3 DEF Matches, Decodes, MatchesProgram
  <2>3. k \notin Base58Kinds
    BY <2>2 DEF Base58Kinds, Bech32Kinds
  <2>4. Text(a) = [hrp |-> Bech32Hrp(c), witver |-> WitnessVersion(k),
                   checksum |-> IF WitnessVersion(k) = 0 THEN "bech32" ELSE "bech32m",
                   length |-> DataLength(k), data |-> t.data]
    BY <1>1, <2>3 DEF Text
  <2>5. QED
    BY <2>1, <2>2, <2>4 DEF a
<1>4. QED
  BY <1>2, <1>3

\* A scriptPubKey is of one kind, and holds what the address does.
LEMMA KindOfScript ==
    ASSUME NEW a, AddressOk(a), NEW x \in Kinds
    PROVE  /\ IsOfKind(x, ToScriptPubKey(a)) <=> x = a.kind
           /\ (IF x = "p2pkh" THEN ToScriptPubKey(a)[4] ELSE ToScriptPubKey(a)[3]) = a.data
              \/ x # a.kind
<1> DEFINE s == ToScriptPubKey(a)
<1>1. a.kind \in Kinds
  BY AddressFields
<1>2. CASE a.kind = "p2pkh"
  <2>1. s = <<"DUP", "HASH160", 20, a.data, "EQUALVERIFY", "CHECKSIG">>
    BY <1>2 DEF ToScriptPubKey
  <2> HIDE DEF s
  <2>2. /\ Len(s) = 6 /\ s[1] = "DUP" /\ s[2] = "HASH160" /\ s[3] = 20 /\ s[4] = a.data
        /\ s[5] = "EQUALVERIFY" /\ s[6] = "CHECKSIG"
    BY <2>1
  <2>3. QED
    BY <1>2, <2>2 DEF IsOfKind, IsP2PKH, IsP2SH, IsWitness, s
<1>3. CASE a.kind = "p2sh"
  <2>1. s = <<"HASH160", 20, a.data, "EQUAL">>
    BY <1>3 DEF ToScriptPubKey
  <2> HIDE DEF s
  <2>2. /\ Len(s) = 4 /\ s[1] = "HASH160" /\ s[2] = 20 /\ s[3] = a.data /\ s[4] = "EQUAL"
    BY <2>1
  <2>3. QED
    BY <1>3, <2>2 DEF IsOfKind, IsP2PKH, IsP2SH, IsWitness, s
<1>4. CASE a.kind \in Bech32Kinds
  <2>1. s = <<WitnessVersion(a.kind), DataLength(a.kind), a.data>>
    BY <1>4 DEF ToScriptPubKey, Bech32Kinds
  <2> HIDE DEF s
  <2>2. /\ Len(s) = 3 /\ s[1] = WitnessVersion(a.kind) /\ s[2] = DataLength(a.kind)
        /\ s[3] = a.data
    BY <2>1
  <2>3. CASE x \in Base58Kinds
    BY <1>4, <2>2, <2>3 DEF IsOfKind, IsP2PKH, IsP2SH, Base58Kinds, Bech32Kinds, s
  <2>4. CASE x \in Bech32Kinds
    <3>1. IsOfKind(x, s) <=> WitnessVersion(a.kind) = WitnessVersion(x)
                             /\ DataLength(a.kind) = DataLength(x)
      BY <2>2, <2>4 DEF IsOfKind, IsWitness, Bech32Kinds
    <3>2. WitnessVersion(a.kind) = WitnessVersion(x) /\ DataLength(a.kind) = DataLength(x)
          <=> x = a.kind
      BY <1>4, <2>4 DEF WitnessVersion, DataLength, Bech32Kinds
    <3>3. x # "p2pkh"
      BY <2>4 DEF Bech32Kinds
    <3>4. QED
      BY <2>2, <3>1, <3>2, <3>3 DEF s
  <2>5. QED
    BY <2>3, <2>4 DEF Kinds
<1>5. QED
  BY <1>1, <1>2, <1>3, <1>4 DEF Kinds, Base58Kinds

-----------------------------------------------------------------------------
(* The steps that make addresses.                                            *)

LEMMA MakeNewStep ==
    ASSUME IInv, NEW c \in Chains, NEW k \in Kinds, NEW d, MakeNew(c, k, d)
    PROVE  IInv'
<1> DEFINE a == [chain |-> c, kind |-> k, data |-> d]
<1>1. AddressOk(a)
  BY AddressParts
<1>2. Make(a, Text(a))
  BY DEF MakeNew
<1> HIDE DEF a
<1>3. TextOk(Text(a))
  BY <1>1, TextFits
<1>4. QED
  BY <1>1, <1>2, <1>3, MakeStep

LEMMA ReadTextStep ==
    ASSUME IInv, NEW c \in Chains, NEW classes \in SUBSET Kinds, NEW t, TextOk(t),
           ReadText(c, classes, t)
    PROVE  IInv'
<1>1. PICK a \in ReadAddress(c, classes, t) : Make(a, t)
  BY DEF ReadText
<1>2. PICK k \in classes : Matches(c, k, t) /\ a = [chain |-> c, kind |-> k, data |-> t.data]
  BY <1>1 DEF ReadAddress
<1>3. AddressOk(a)
  BY <1>2, AddressParts
<1>4. Text(a) = t
  BY <1>2, ReadIsWritten
<1>5. QED
  BY <1>1, <1>3, <1>4, MakeStep

LEMMA ForeignTexts == \A t \in Foreign : TextOk(t)
<1> DEFINE A == [base58 : {0, 5, 111, 196}, length : {19, 20}, data : {<<"Hash160", 0>>}]
           B == [hrp : {"bc", "tb"}, witver : {0, 1, 2}, checksum : {"bech32", "bech32m"},
                 length : {20, 32}, data : {<<"SHA256", 0>>}]
<1>1. \A t \in A : /\ IsBase58(t)
                  /\ t = [base58 |-> t.base58, length |-> t.length, data |-> t.data]
  BY DEF IsBase58
<1>2. \A t \in B : /\ ~IsBase58(t)
                  /\ t = [hrp |-> t.hrp, witver |-> t.witver, checksum |-> t.checksum,
                          length |-> t.length, data |-> t.data]
  BY DEF IsBase58
<1>3. Foreign = A \union B
  BY DEF Foreign
<1> HIDE DEF A, B
<1>4. QED
  BY <1>1, <1>2, <1>3 DEF TextOk

LEMMA IInvStep == IInv /\ [Next]_vars => IInv'
<1> SUFFICES ASSUME IInv, [Next]_vars PROVE IInv'
  OBVIOUS
<1>1. ASSUME NEW n \in 1 .. MaxScripts, NEW v \in Versions, PlantScripts(n, v)
      PROVE  IInv'
  BY <1>1, PlantScriptsStep
<1>2. ASSUME NEW n \in 1 .. MaxScripts, NEW k \in DOMAIN trees, NEW v \in Versions,
             NEW at \in 1 .. n + 1, Enclose(n, at, k, v)
      PROVE  IInv'
  BY <1>2, EncloseStep
<1>3. ASSUME NEW k, SetInternalPubkey(k)
      PROVE  IInv'
  BY <1>3, SetKeyStep
<1>4. ASSUME NEW c \in Chains, FromScriptTree(c)
      PROVE  IInv'
  <2>1. PICK out \in output : MakeNew(c, "p2tr", out.key)
    BY <1>4 DEF FromScriptTree
  <2>2. "p2tr" \in Kinds
    BY DEF Kinds, Bech32Kinds
  <2>3. QED
    BY <2>1, <2>2, MakeNewStep
<1>5. ASSUME NEW c \in Chains, NEW kind \in Kinds, NEW k, NEW compressed, NEW accept,
             FromPubkey(c, kind, k, compressed, accept)
      PROVE  IInv'
  <2>1. PICK d : MakeNew(c, kind, d)
    BY <1>5 DEF FromPubkey
  <2>2. QED
    BY <2>1, MakeNewStep
<1>6. ASSUME NEW c \in Chains, NEW kind \in Kinds, NEW size,
             FromRedeemScript(c, kind, size)
      PROVE  IInv'
  <2>1. PICK d : MakeNew(c, kind, d)
    BY <1>6 DEF FromRedeemScript
  <2>2. QED
    BY <2>1, MakeNewStep
<1>7. ASSUME NEW c \in Chains, NEW classes \in {Kinds} \union {{kind} : kind \in Kinds},
             text # None /\ ReadText(c, classes, text)
      PROVE  IInv'
  <2>1. TextOk(text) /\ classes \in SUBSET Kinds
    BY <1>7 DEF IInv, AddressInv
  <2>2. PICK t : t = text
    OBVIOUS
  <2>3. TextOk(t) /\ ReadText(c, classes, t)
    BY <1>7, <2>1, <2>2
  <2>4. QED
    BY <2>1, <2>3, ReadTextStep
<1>8. ASSUME NEW c \in Chains, NEW classes \in {Kinds} \union {{kind} : kind \in Kinds},
             NEW t \in Foreign, ReadText(c, classes, t)
      PROVE  IInv'
  <2>1. TextOk(t) /\ classes \in SUBSET Kinds
    BY ForeignTexts
  <2>2. QED
    BY <1>8, <2>1, ReadTextStep
<1>9. CASE UNCHANGED vars
  <2>1. UNCHANGED <<trees, internal, output>> /\ UNCHANGED <<address, text>>
    BY <1>9 DEF vars
  <2>2. TreesInv' /\ KeysInv'
    BY <2>1, SameKeys DEF IInv
  <2>3. AddressInv'
    BY <2>1 DEF IInv, AddressInv, AddressOk, TextOk, Text
  <2>4. QED
    BY <2>2, <2>3 DEF IInv
<1>10. QED
  BY <1>1, <1>2, <1>3, <1>4, <1>5, <1>6, <1>7, <1>8, <1>9 DEF Next

LEMMA IInvInit == Init => IInv
<1> SUFFICES ASSUME Init PROVE IInv
  OBVIOUS
<1>1. trees = <<>> /\ internal = None /\ output = {} /\ address = None /\ text = None
  BY DEF Init
<1>2. TreesInv
  <2>1. IsList(trees) /\ Len(trees) = 0 /\ \A n \in 1 .. 0 : FALSE
    BY <1>1, EmptyList
  <2>2. QED
    BY <2>1 DEF TreesInv
<1>3. KeysInv /\ AddressInv
  BY <1>1 DEF KeysInv, AddressInv
<1>4. QED
  BY <1>2, <1>3 DEF IInv

-----------------------------------------------------------------------------
(* What the invariant means.                                                 *)

LEMMA TreesSpend == IInv => OutputsCanBeSpent
<1> SUFFICES ASSUME IInv, trees # <<>>, NEW name \in Names(Len(trees))
             PROVE  /\ output # {} <=> ScriptWithControlBlock(name) # {}
                    /\ \A out \in output :
                         /\ \A s \in ScriptWithControlBlock(name) :
                              s.script.name = name /\ Commits(s, out.key)
                         /\ SignSchnorr(internal, {Last(trees).root}) = {out.key}
  BY DEF OutputsCanBeSpent
<1> DEFINE k == Len(trees)
           root == Last(trees).root
           found == ScriptWithPath(k, name)
<1>1. k \in 1 .. Len(trees) /\ root = trees[k].root
  <2>1. PICK S : trees \in Seq(S)
    BY DEF IInv, TreesInv, IsList
  <2>2. Len(trees) \in Nat /\ Len(trees) # 0
    BY <2>1
  <2>3. QED
    BY <2>2 DEF Last
<1>2. found # {} /\ \A s \in found : FoundOk(s, name, k)
  BY <1>1, ScriptsFound DEF IInv
<1>3. output = IF internal = None THEN {} ELSE TapTweakPubkey(internal, root)
  BY DEF IInv, KeysInv
<1> HIDE DEF k, root, found
<1>4. ScriptWithControlBlock(name) =
        IF internal = None THEN {}
        ELSE {[script |-> s.script,
               block  |-> [first |-> s.version + (IF out.odd THEN 1 ELSE 0),
                           key |-> internal, path |-> s.path]] :
                out \in output, s \in found}
  BY DEF ScriptWithControlBlock, found, k
<1>5. output # {} <=> ScriptWithControlBlock(name) # {}
  <2>1. CASE internal = None
    BY <1>3, <1>4, <2>1
  <2>2. CASE internal # None
    <3>1. PICK s : s \in found
      BY <1>2
    <3>2. ASSUME NEW out \in output PROVE ScriptWithControlBlock(name) # {}
      <4> DEFINE given(o, f) ==
                   [script |-> f.script,
                    block  |-> [first |-> f.version + (IF o.odd THEN 1 ELSE 0),
                                key |-> internal, path |-> f.path]]
      <4>1. ScriptWithControlBlock(name) = {given(o, f) : o \in output, f \in found}
        BY <1>4, <2>2
      <4> HIDE DEF given
      <4>2. given(out, s) \in ScriptWithControlBlock(name)
        BY <3>1, <4>1
      <4>3. QED
        BY <4>2
    <3>3. output = {} => ScriptWithControlBlock(name) = {}
      BY <1>4
    <3>4. QED
      BY <3>2, <3>3
  <2>3. QED
    BY <2>1, <2>2
<1>6. ASSUME NEW out \in output
      PROVE  /\ internal \in Keys /\ output = {out}
             /\ out = TweakAdd(internal, ComputeTapTweakHash(internal, root))
  BY <1>3, <1>6 DEF TapTweakPubkey
<1>7. ASSUME NEW out \in output, NEW s \in ScriptWithControlBlock(name)
      PROVE  s.script.name = name /\ Commits(s, out.key)
  <2>1. PICK o \in output, f \in found :
          s = [script |-> f.script,
               block  |-> [first |-> f.version + (IF o.odd THEN 1 ELSE 0),
                           key |-> internal, path |-> f.path]]
    BY <1>4, <1>7
  <2>2. /\ o = out /\ internal \in Keys /\ output = {out}
        /\ out = TweakAdd(internal, ComputeTapTweakHash(internal, root))
    BY <1>6
  <2>3. /\ f.script = [name |-> name] /\ f.version \in Versions
        /\ Climb(LeafHash(f.script, f.version), f.path) = root
    BY <1>1, <1>2 DEF FoundOk
  <2> DEFINE bit == IF out.odd THEN 1 ELSE 0
  <2>4. s.script = f.script /\ s.script.name = name
    BY <2>1, <2>3
  <2>5. /\ s.block.first = f.version + bit /\ s.block.key = internal
        /\ s.block.path = f.path
    BY <2>1, <2>2
  <2>6. out = [key |-> out.key, odd |-> bit = 1] /\ bit \in {0, 1}
    <3>1. out = [key |-> <<internal, ComputeTapTweakHash(internal, root)>>,
                 odd |-> internal \in Odd]
      BY <2>2 DEF TweakAdd
    <3> DEFINE odd == internal \in Odd
               one == bit = 1
    <3>2. CASE odd
      <4>1. odd = TRUE
        BY <3>2, Zenon
      <4> HIDE DEF odd
      <4>2. out = [key |-> <<internal, ComputeTapTweakHash(internal, root)>>, odd |-> TRUE]
        BY <3>1, <4>1 DEF odd
      <4>3. out.odd /\ out = [key |-> out.key, odd |-> TRUE]
        BY <4>2
      <4>4. bit = 1
        BY <4>3
      <4>5. one = TRUE
        BY <4>4, Zenon
      <4> HIDE DEF one
      <4>6. out = [key |-> out.key, odd |-> one] /\ bit \in {0, 1}
        BY <4>3, <4>4, <4>5
      <4>7. QED
        BY <4>6 DEF one
    <3>3. CASE ~odd
      <4>0. odd \in BOOLEAN
        OBVIOUS
      <4>1. odd = FALSE
        BY <3>3, <4>0
      <4> HIDE DEF odd
      <4>2. out = [key |-> <<internal, ComputeTapTweakHash(internal, root)>>, odd |-> FALSE]
        BY <3>1, <4>1 DEF odd
      <4>3. ~out.odd /\ out = [key |-> out.key, odd |-> FALSE]
        BY <4>2
      <4>4. bit = 0
        BY <4>3
      <4>5. one = FALSE
        <5>1. bit # 1
          BY <4>4
        <5>2. QED
          BY <5>1, Zenon
      <4> HIDE DEF one
      <4>6. out = [key |-> out.key, odd |-> one] /\ bit \in {0, 1}
        BY <4>3, <4>4, <4>5
      <4>7. QED
        BY <4>6 DEF one
    <3>4. QED
      BY <3>2, <3>3
  <2>7. f.version \in Nat /\ f.version % 2 = 0
    <3>1. \A v \in Versions : v \in Nat /\ v % 2 = 0
      BY OutputsAssumption
    <3>2. QED
      BY <2>3, <3>1
  <2> HIDE DEF bit
  <2>8. (f.version + bit) % 2 = bit /\ (f.version + bit) - bit = f.version
    BY <2>6, <2>7
  <2>9. s.block.first % 2 = bit
        /\ Climb(LeafHash(s.script, s.block.first - bit), s.block.path) = root
    BY <2>3, <2>4, <2>5, <2>8
  <2>10. TapTweakPubkey(internal, root) = {[key |-> out.key, odd |-> bit = 1]}
    BY <2>2, <2>6 DEF TapTweakPubkey
  <2>11. Commits(s, out.key)
    BY <2>5, <2>9, <2>10 DEF Commits
  <2>12. QED
    BY <2>4, <2>11
<1>8. ASSUME NEW out \in output
      PROVE  SignSchnorr(internal, {root}) = {out.key}
  <2>1. out.key = TweakAdd(internal, ComputeTapTweakHash(internal, root)).key
    BY <1>6
  <2>2. QED
    BY <2>1 DEF SignSchnorr
<1>9. QED
  BY <1>5, <1>7, <1>8 DEF root

LEMMA AddressesMean == IInv => AddressMeansItsScript
<1> SUFFICES ASSUME IInv, address # None PROVE AddressMeansItsScript
  BY DEF AddressMeansItsScript
<1> DEFINE spk == ToScriptPubKey(address)
<1>1. AddressOk(address) /\ Text(address) = text
  BY DEF IInv, AddressInv
<1>2. /\ address.chain \in Chains /\ address.kind \in Kinds
      /\ address = [chain |-> address.chain, kind |-> address.kind, data |-> address.data]
  BY <1>1, AddressFields
<1>3. text.data = address.data
  BY <1>1, ReadsItself
<1>4. ASSUME NEW c \in Chains, NEW a \in ReadAddress(c, Kinds, text)
      PROVE  a = [chain |-> c, kind |-> address.kind, data |-> address.data]
  <2>1. PICK x \in Kinds : /\ Matches(c, x, text)
                           /\ a = [chain |-> c, kind |-> x, data |-> text.data]
    BY <1>4 DEF ReadAddress
  <2>2. x = address.kind
    BY <1>1, <2>1, KindOfText
  <2>3. QED
    BY <1>3, <2>1, <2>2
<1>5. ReadAddress(address.chain, Kinds, text) = {address}
  <2>1. Matches(address.chain, address.kind, text)
    BY <1>1, ReadsItself
  <2>2. address \in ReadAddress(address.chain, Kinds, text)
    BY <1>2, <1>3, <2>1 DEF ReadAddress
  <2>3. \A a \in ReadAddress(address.chain, Kinds, text) : a = address
    BY <1>2, <1>4
  <2>4. QED
    BY <2>2, <2>3
<1>6. ASSUME NEW c \in Chains, NEW a \in ReadAddress(c, Kinds, text)
      PROVE  ToScriptPubKey(a) = spk
  <2>1. a = [chain |-> c, kind |-> address.kind, data |-> address.data]
    BY <1>4
  <2>2. a.kind = address.kind /\ a.data = address.data
    BY <2>1
  <2>3. QED
    BY <2>2 DEF ToScriptPubKey
<1>7. ASSUME NEW c \in Chains
      PROVE  FromScriptPubKey(c, spk) = {[address EXCEPT !.chain = c]}
  <2> DEFINE data(x) == IF x = "p2pkh" THEN spk[4] ELSE spk[3]
             made(x) == [chain |-> c, kind |-> x, data |-> data(x)]
  <2>1. \A x \in Kinds : IsOfKind(x, spk) <=> x = address.kind
    BY <1>1, KindOfScript
  <2>2. data(address.kind) = address.data
    BY <1>1, <1>2, KindOfScript
  <2>3. [address EXCEPT !.chain = c]
        = [chain |-> c, kind |-> address.kind, data |-> address.data]
    BY <1>2
  <2>4. FromScriptPubKey(c, spk) = {made(x) : x \in {y \in Kinds : IsOfKind(y, spk)}}
    BY DEF FromScriptPubKey
  <2> HIDE DEF spk
  <2>5. {y \in Kinds : IsOfKind(y, spk)} = {address.kind}
    BY <1>2, <2>1
  <2>6. FromScriptPubKey(c, spk) = {made(address.kind)}
    BY <2>4, <2>5
  <2>7. QED
    BY <2>2, <2>3, <2>6
<1>8. QED
  BY <1>1, <1>5, <1>6, <1>7 DEF AddressMeansItsScript

-----------------------------------------------------------------------------
(* The inductive invariant: each tree's paths lead to its root, the output   *)
(* is that of the key and the last tree, and the text is the address's.      *)
THEOREM Invariance == Spec => []IInv
BY IInvInit, IInvStep, PTL DEF Spec

(* Every script of a tree, in however many trees within it, and the key of   *)
(* the tree can spend the output (TaprootScriptTree, core/script.py).        *)
THEOREM TreesSpendable == Spec => []OutputsCanBeSpent
BY Invariance, TreesSpend, PTL

(* An address text means one script under every chain that accepts it, and   *)
(* is the address's own (wallet.py, base58.py, segwit_addr.py).              *)
THEOREM AddressesMeanScripts == Spec => []AddressMeansItsScript
BY Invariance, AddressesMean, PTL

=============================================================================
