---------------------------- MODULE CoreTx_proofs ----------------------------
(* For any number of transactions, inputs and data: what an immutable object *)
(* says never changes, what is made is of the class that was asked, and what *)
(* is edited in one transaction is not seen in another.                      *)
EXTENDS CoreTx, FiniteSetTheorems, SequenceTheorems, NaturalsInduction,
        WellFoundedInduction, TLAPS

-----------------------------------------------------------------------------
(* Heaps.                                                                    *)

LeafKinds == {"outpoint", "output", "inwit"}

\* o is an object of a kind, and s a list of such.
Is(h, o, of)     == o \in DOMAIN h /\ h[o].of = of
AreAll(h, s, of) == s \in Seq(Nat) /\ \A i \in 1 .. Len(s) : Is(h, s[i], of)

IsLeaf(r) ==
    /\ r.of \in LeafKinds
    /\ r = [of |-> r.of, data |-> r.data, mutable |-> r.mutable]

IsInput(h, r) ==
    /\ r.of = "input"
    /\ r = [of |-> "input", prevout |-> r.prevout, mutable |-> r.mutable]
    /\ Is(h, r.prevout, "outpoint")

IsWitness(h, r) ==
    /\ r.of = "witness"
    /\ r = [of |-> "witness", vtxinwit |-> r.vtxinwit, mutable |-> r.mutable]
    /\ AreAll(h, r.vtxinwit, "inwit")

IsTx(h, r) ==
    /\ r.of = "transaction"
    /\ r = [of |-> "transaction", vin |-> r.vin, vout |-> r.vout,
            wit |-> r.wit, mutable |-> r.mutable]
    /\ AreAll(h, r.vin, "input") /\ AreAll(h, r.vout, "output")
    /\ Is(h, r.wit, "witness")

\* An object of one of the classes, with parts of the right classes, ...
Fits(h, r) ==
    /\ r.mutable \in BOOLEAN
    /\ IsLeaf(r) \/ IsInput(h, r) \/ IsWitness(h, r) \/ IsTx(h, r)

\* ... and if it is immutable, so are its parts.
Firm(h, r) == ~r.mutable => \A c \in Children(r) : ~h[c].mutable

Heap(h) ==
    /\ IsFiniteSet(DOMAIN h) /\ DOMAIN h \subseteq Nat
    /\ \A o \in DOMAIN h : Fits(h, h[o]) /\ Firm(h, h[o])

\* g is h and objects made since; a mutable one has no part that was there.
Extends(h, g) == DOMAIN h \subseteq DOMAIN g /\ \A o \in DOMAIN h : g[o] = h[o]
Fresh(h, g) ==
    \A o \in DOMAIN g \ DOMAIN h :
      g[o].mutable => Children(g[o]) \intersect DOMAIN h = {}
Grows(h, g) == Heap(g) /\ Extends(h, g) /\ Fresh(h, g)

\* What a constructor gives: an object of the class asked for, new if mutable.
Makes(h, m, of, r) ==
    /\ Grows(h, r.heap) /\ Is(r.heap, r.id, of)
    /\ r.heap[r.id].mutable = m
    /\ m => r.id \notin DOMAIN h

\* The same of a list of n objects.
MakesAll(h, m, of, n, w) ==
    /\ Grows(h, w.heap) /\ AreAll(w.heap, w.ids, of) /\ Len(w.ids) = n
    /\ \A i \in 1 .. n : /\ w.heap[w.ids[i]].mutable = m
                         /\ m => w.ids[i] \notin DOMAIN h

\* The parts of an object, by kind; they are objects.
LEMMA PartsOf ==
    ASSUME NEW h, NEW r, Fits(h, r)
    PROVE  /\ IsLeaf(r) => Children(r) = {}
           /\ IsInput(h, r) => Children(r) = {r.prevout}
           /\ IsWitness(h, r) =>
                Children(r) = {r.vtxinwit[i] : i \in 1 .. Len(r.vtxinwit)}
           /\ IsTx(h, r) =>
                Children(r) = {r.vin[i] : i \in 1 .. Len(r.vin)}
                                \union {r.vout[i] : i \in 1 .. Len(r.vout)}
                                \union {r.wit}
           /\ Children(r) \subseteq DOMAIN h
<1>1. IsLeaf(r) => Children(r) = {}
  BY DEF IsLeaf, LeafKinds, Children
<1>2. IsInput(h, r) => Children(r) = {r.prevout}
  BY DEF IsInput, Children
<1>3. IsWitness(h, r) =>
        Children(r) = {r.vtxinwit[i] : i \in 1 .. Len(r.vtxinwit)}
  BY DEF IsWitness, Children, ToSet, AreAll
<1>4. IsTx(h, r) =>
        Children(r) = {r.vin[i] : i \in 1 .. Len(r.vin)}
                        \union {r.vout[i] : i \in 1 .. Len(r.vout)}
                        \union {r.wit}
  <2>1. SUFFICES ASSUME IsTx(h, r)
                 PROVE  Children(r) = {r.vin[i] : i \in 1 .. Len(r.vin)}
                          \union {r.vout[i] : i \in 1 .. Len(r.vout)}
                          \union {r.wit}
    OBVIOUS
  <2>2. Children(r) = ToSet(r.vin) \union ToSet(r.vout) \union {r.wit}
    BY <2>1 DEF IsTx, Children
  <2>3. DOMAIN r.vin = 1 .. Len(r.vin) /\ DOMAIN r.vout = 1 .. Len(r.vout)
    BY <2>1 DEF IsTx, AreAll
  <2>4. QED
    BY <2>2, <2>3 DEF ToSet
<1>5. Children(r) \subseteq DOMAIN h
  <2>1. IsLeaf(r) => Children(r) \subseteq DOMAIN h
    BY <1>1
  <2>2. IsInput(h, r) => Children(r) \subseteq DOMAIN h
    BY <1>2 DEF IsInput, Is
  <2>3. IsWitness(h, r) => Children(r) \subseteq DOMAIN h
    BY <1>3 DEF IsWitness, AreAll, Is
  <2>4. IsTx(h, r) => Children(r) \subseteq DOMAIN h
    BY <1>4 DEF IsTx, AreAll, Is
  <2>5. QED
    BY <2>1, <2>2, <2>3, <2>4 DEF Fits
<1>6. QED
  BY <1>1, <1>2, <1>3, <1>4, <1>5

\* An object keeps its kind, and fits, when the heap grows.
LEMMA FitsOn ==
    ASSUME NEW h, NEW g, Extends(h, g), NEW r, Fits(h, r)
    PROVE  /\ Fits(g, r)
           /\ Firm(h, r) => Firm(g, r)
<1>1. \A o, of : Is(h, o, of) => Is(g, o, of)
  BY DEF Is, Extends
<1>2. \A s, of : AreAll(h, s, of) => AreAll(g, s, of)
  BY <1>1 DEF AreAll
<1>3. Fits(g, r)
  BY <1>1, <1>2 DEF Fits, IsInput, IsWitness, IsTx
<1>4. ASSUME Firm(h, r) PROVE Firm(g, r)
  <2>1. Children(r) \subseteq DOMAIN h
    BY PartsOf
  <2>2. QED
    BY <1>4, <2>1 DEF Firm, Extends
<1>5. QED
  BY <1>3, <1>4

LEMMA GrowsOn ==
    ASSUME NEW h, NEW g, NEW k, Grows(h, g), Grows(g, k)
    PROVE  Grows(h, k)
<1>1. Heap(k) /\ Extends(h, k)
  BY DEF Grows, Extends
<1>2. ASSUME NEW o \in DOMAIN k \ DOMAIN h, k[o].mutable
      PROVE  Children(k[o]) \intersect DOMAIN h = {}
  <2>1. CASE o \in DOMAIN g
    <3>1. k[o] = g[o]
      BY <2>1 DEF Grows, Extends
    <3>2. QED
      BY <1>2, <2>1, <3>1 DEF Grows, Fresh
  <2>2. CASE o \notin DOMAIN g
    <3>1. Children(k[o]) \intersect DOMAIN g = {}
      BY <1>2, <2>2 DEF Grows, Fresh
    <3>2. QED
      BY <3>1 DEF Grows, Extends
  <2>3. QED
    BY <2>1, <2>2
<1>3. QED
  BY <1>1, <1>2 DEF Grows, Fresh

LEMMA GrowsStill ==
    ASSUME NEW h, Heap(h)
    PROVE  Grows(h, h)
BY DEF Grows, Extends, Fresh

\* A new object has an identity of its own, and changes no other.
LEMMA NewIsNew ==
    ASSUME NEW h, Heap(h), NEW r
    PROVE  LET n == New(h, r)
           IN /\ n.id \in Nat \ DOMAIN h
              /\ DOMAIN n.heap = DOMAIN h \union {n.id}
              /\ n.heap[n.id] = r
              /\ \A o \in DOMAIN h : n.heap[o] = h[o]
<1> DEFINE C == Cardinality(DOMAIN h)
           S == {n \in 1 .. C + 1 : n \notin DOMAIN h}
           o == CHOOSE n \in 1 .. C + 1 : n \notin DOMAIN h
<1>1. C \in Nat
  BY FS_CardinalityType DEF Heap
<1>2. \E n \in 1 .. C + 1 : n \notin DOMAIN h
  <2>1. SUFFICES ASSUME 1 .. C + 1 \subseteq DOMAIN h PROVE FALSE
    OBVIOUS
  <2>2. Cardinality(1 .. C + 1) <= C
    BY <2>1, FS_Subset DEF Heap
  <2>3. Cardinality(1 .. C + 1) = C + 1
    <3> HIDE DEF C
    <3>1. QED
      BY <1>1, FS_Interval
  <2> HIDE DEF C
  <2>4. QED
    BY <1>1, <2>2, <2>3
<1>3. o \in 1 .. C + 1 /\ o \notin DOMAIN h
  <2> HIDE DEF C
  <2>1. QED
    BY <1>2
<1>4. New(h, r) =
        [heap |-> [x \in DOMAIN h \union {o} |-> IF x = o THEN r ELSE h[x]],
         id   |-> o]
  BY DEF New
<1>5. o \in Nat
  <2> HIDE DEF C, o
  <2>1. QED
    BY <1>1, <1>3
<1> HIDE DEF o
<1>6. QED
  BY <1>3, <1>4, <1>5

\* What New makes of a record that fits a heap grown from h0.
LEMMA NewMakes ==
    ASSUME NEW h0, NEW h, Grows(h0, h), NEW r, Fits(h, r), Firm(h, r),
           r.mutable => Children(r) \intersect DOMAIN h0 = {}
    PROVE  Makes(h0, r.mutable, r.of, New(h, r))
<1> DEFINE n == New(h, r)
<1>1. Heap(h)
  BY DEF Grows
<1>2. /\ n.id \in Nat \ DOMAIN h
      /\ DOMAIN n.heap = DOMAIN h \union {n.id}
      /\ n.heap[n.id] = r
      /\ \A o \in DOMAIN h : n.heap[o] = h[o]
  BY <1>1, NewIsNew
<1> HIDE DEF n
<1>3. Extends(h, n.heap)
  BY <1>2 DEF Extends
<1>4. Heap(n.heap)
  <2>1. IsFiniteSet(DOMAIN n.heap) /\ DOMAIN n.heap \subseteq Nat
    BY <1>1, <1>2, FS_AddElement DEF Heap
  <2>2. ASSUME NEW o \in DOMAIN n.heap
        PROVE  Fits(n.heap, n.heap[o]) /\ Firm(n.heap, n.heap[o])
    <3>1. n.heap[o] = r \/ (o \in DOMAIN h /\ n.heap[o] = h[o])
      BY <1>2
    <3>2. Fits(h, n.heap[o]) /\ Firm(h, n.heap[o])
      BY <1>1, <3>1 DEF Heap
    <3>3. QED
      BY <1>3, <3>2, FitsOn
  <2>3. QED
    BY <2>1, <2>2 DEF Heap
<1>5. Extends(h0, n.heap)
  BY <1>3 DEF Grows, Extends
<1>6. ASSUME NEW o \in DOMAIN n.heap \ DOMAIN h0, n.heap[o].mutable
      PROVE  Children(n.heap[o]) \intersect DOMAIN h0 = {}
  <2>1. CASE o \in DOMAIN h
    BY <1>2, <1>6, <2>1 DEF Grows, Fresh
  <2>2. CASE o \notin DOMAIN h
    BY <1>2, <1>6, <2>2
  <2>3. QED
    BY <2>1, <2>2
<1>7. Grows(h0, n.heap)
  BY <1>4, <1>5, <1>6 DEF Grows, Fresh
<1>8. n.id \notin DOMAIN h0
  BY <1>2 DEF Grows, Extends
<1>9. Is(n.heap, n.id, r.of)
  BY <1>2 DEF Is
<1>10. Makes(h0, r.mutable, r.of, n)
  BY <1>2, <1>7, <1>8, <1>9 DEF Makes
<1>11. QED
  BY <1>10 DEF n

\* What is made of a later heap is made of an earlier one.
LEMMA MakesOn ==
    ASSUME NEW h, NEW g, Grows(h, g), NEW m, NEW of, NEW r, Makes(g, m, of, r)
    PROVE  Makes(h, m, of, r)
<1>1. Grows(h, r.heap)
  BY GrowsOn DEF Makes
<1>2. m => r.id \notin DOMAIN h
  BY DEF Makes, Grows, Extends
<1>3. QED
  BY <1>1, <1>2 DEF Makes

LEMMA KeptOn ==
    ASSUME NEW h, NEW g, Extends(h, g)
    PROVE  /\ \A o, of : Is(h, o, of) => Is(g, o, of)
           /\ \A s, of : AreAll(h, s, of) => AreAll(g, s, of)
           /\ \A o \in DOMAIN h : g[o] = h[o]
BY DEF Extends, Is, AreAll

\* Keeping an immutable object makes an immutable object.
LEMMA KeepMakes ==
    ASSUME NEW h, Heap(h), NEW m \in BOOLEAN, NEW of, NEW o, Is(h, o, of),
           Unconverted(h, m, o)
    PROVE  Makes(h, m, of, [heap |-> h, id |-> o])
<1>1. Grows(h, h)
  BY GrowsStill
<1>2. h[o].mutable \in BOOLEAN
  BY DEF Heap, Fits, Is
<1>3. h[o].mutable = m /\ ~m
  BY <1>2 DEF Unconverted, IsMutable
<1>4. QED
  BY <1>1, <1>3 DEF Makes

-----------------------------------------------------------------------------
(* The constructors.                                                         *)

LEMMA LeafMakes ==
    ASSUME NEW h, Heap(h), NEW m \in BOOLEAN, NEW of \in LeafKinds, NEW d
    PROVE  Makes(h, m, of, Leaf(h, m, of, d))
<1> DEFINE r == [of |-> of, data |-> d, mutable |-> m]
<1>1. r.of = of /\ r.mutable = m
  OBVIOUS
<1>2. IsLeaf(r)
  BY DEF IsLeaf
<1>3. Leaf(h, m, of, d) = New(h, r)
  BY DEF Leaf
<1> HIDE DEF r
<1>4. Fits(h, r)
  BY <1>1, <1>2 DEF Fits
<1>5. Children(r) = {}
  BY <1>2, <1>4, PartsOf
<1>6. Firm(h, r)
  BY <1>5 DEF Firm
<1>7. Makes(h, r.mutable, r.of, New(h, r))
  BY <1>4, <1>5, <1>6, GrowsStill, NewMakes
<1>8. QED
  BY <1>1, <1>3, <1>7

LEMMA LeafFromMakes ==
    ASSUME NEW h, Heap(h), NEW m \in BOOLEAN, NEW of \in LeafKinds,
           NEW o, Is(h, o, of)
    PROVE  Makes(h, m, of, LeafFrom(h, m, o))
<1>1. CASE Unconverted(h, m, o)
  BY <1>1, KeepMakes DEF LeafFrom
<1>2. CASE ~Unconverted(h, m, o)
  <2>1. LeafFrom(h, m, o) = Leaf(h, m, of, h[o].data)
    BY <1>2 DEF LeafFrom, Is
  <2>2. QED
    BY <2>1, LeafMakes
<1>3. QED
  BY <1>1, <1>2

\* CTxIn(prevout)
LEMMA NewInputMakes ==
    ASSUME NEW h, Heap(h), NEW m \in BOOLEAN,
           NEW prevout, Is(h, prevout, "outpoint")
    PROVE  Makes(h, m, "input", NewInput(h, m, prevout))
<1> DEFINE p == IF m \/ IsMutable(h, prevout) THEN LeafFrom(h, m, prevout)
                ELSE [heap |-> h, id |-> prevout]
           r == [of |-> "input", prevout |-> p.id, mutable |-> m]
<1>1. Makes(h, m, "outpoint", p)
  <2>1. CASE m \/ IsMutable(h, prevout)
    BY <2>1, LeafFromMakes DEF LeafKinds
  <2>2. CASE ~(m \/ IsMutable(h, prevout))
    BY <2>2, KeepMakes DEF Unconverted
  <2>3. QED
    BY <2>1, <2>2
<1>2. NewInput(h, m, prevout) = New(p.heap, r)
  BY DEF NewInput
<1> HIDE DEF p
<1>3. r.of = "input" /\ r.mutable = m /\ r.prevout = p.id
  OBVIOUS
<1>4. r = [of |-> "input", prevout |-> r.prevout, mutable |-> r.mutable]
  OBVIOUS
<1> HIDE DEF r
<1>5. IsInput(p.heap, r)
  BY <1>1, <1>3, <1>4 DEF IsInput, Makes
<1>6. Fits(p.heap, r)
  BY <1>3, <1>5 DEF Fits
<1>7. Children(r) = {p.id}
  BY <1>3, <1>5, <1>6, PartsOf
<1>8. Firm(p.heap, r)
  BY <1>1, <1>3, <1>7 DEF Firm, Makes
<1>9. r.mutable => Children(r) \intersect DOMAIN h = {}
  BY <1>1, <1>3, <1>7 DEF Makes
<1>10. Makes(h, r.mutable, r.of, New(p.heap, r))
  BY <1>1, <1>6, <1>8, <1>9, NewMakes DEF Makes
<1>11. QED
  BY <1>2, <1>3, <1>10

\* CTxIn.from_txin(o)
LEMMA InputFromMakes ==
    ASSUME NEW h, Heap(h), NEW m \in BOOLEAN, NEW o, Is(h, o, "input")
    PROVE  Makes(h, m, "input", InputFrom(h, m, o))
<1> DEFINE p == LeafFrom(h, m, h[o].prevout)
<1>1. Fits(h, h[o])
  BY DEF Heap, Is
<1>2. Is(h, h[o].prevout, "outpoint")
  BY <1>1 DEF Fits, Is, IsLeaf, LeafKinds, IsInput, IsWitness, IsTx
<1>3. Makes(h, m, "outpoint", p)
  BY <1>2, LeafFromMakes DEF LeafKinds
<1>4. InputFrom(h, m, o) = IF Unconverted(h, m, o)
                           THEN [heap |-> h, id |-> o]
                           ELSE NewInput(p.heap, m, p.id)
  BY DEF InputFrom
<1> HIDE DEF p
<1>5. CASE Unconverted(h, m, o)
  BY <1>4, <1>5, KeepMakes
<1>6. CASE ~Unconverted(h, m, o)
  <2>1. Heap(p.heap) /\ Is(p.heap, p.id, "outpoint") /\ Grows(h, p.heap)
    BY <1>3 DEF Makes, Grows
  <2>2. Makes(p.heap, m, "input", NewInput(p.heap, m, p.id))
    BY <2>1, NewInputMakes
  <2>3. Makes(h, m, "input", NewInput(p.heap, m, p.id))
    BY <2>1, <2>2, MakesOn
  <2>4. QED
    BY <1>4, <1>6, <2>3
<1>7. QED
  BY <1>5, <1>6

-----------------------------------------------------------------------------
(* Lists of parts.                                                           *)

\* A non-empty set of numbers has a least one.
LEMMA Least ==
    ASSUME NEW D, D \subseteq Nat, D # {}
    PROVE  \E m \in D : \A d \in D : m <= d
<1> DEFINE R == OpToRel(<, Nat)
<1>1. IsWellFoundedOn(R, Nat)
  BY NatLessThanWellFounded
<1>2. PICK m \in D : \A d \in D : <<d, m>> \notin R
  <2> HIDE DEF R
  <2>1. QED
    BY <1>1, WFMin
<1>3. ASSUME NEW d \in D PROVE m <= d
  <2>1. d \in Nat /\ m \in Nat
    OBVIOUS
  <2>2. d < m => <<d, m>> \in R
    BY <2>1 DEF OpToRel
  <2> HIDE DEF R
  <2>3. QED
    BY <1>2, <2>1, <2>2
<1>4. QED
  BY <1>3

\* Induction up to n, over a set.
LEMMA Upto ==
    ASSUME NEW n \in Nat, NEW T, 0 \in T,
           \A i \in 1 .. n : i - 1 \in T => i \in T
    PROVE  \A i \in 0 .. n : i \in T
<1> SUFFICES ASSUME NEW j \in 0 .. n, j \notin T PROVE FALSE
  OBVIOUS
<1> DEFINE D == {i \in 0 .. n : i \notin T}
<1>1. D \subseteq Nat /\ D # {}
  OBVIOUS
<1>2. PICK m \in D : \A d \in D : m <= d
  <2> HIDE DEF D
  <2>1. QED
    BY <1>1, Least
<1>3. m \in 1 .. n /\ m \notin T
  BY <1>2
<1>4. m - 1 \in 0 .. n /\ ~(m <= m - 1)
  BY <1>3
<1>5. m - 1 \in T
  BY <1>2, <1>4
<1>6. QED
  BY <1>3, <1>5

\* The ways in which parts are made, and one more part of a list.
Make(how, h, m, x) ==
    CASE how = "copy"  -> LeafFrom(h, m, x)
      [] how = "input" -> InputFrom(h, m, x)
      [] how = "spend" -> NewInput(h, m, x)
      [] OTHER         -> Leaf(h, m, how, x)

Start(h) == [heap |-> h, ids |-> <<>>]

More(how, m, w, x) ==
    [heap |-> Make(how, w.heap, m, x).heap,
     ids  |-> Append(w.ids, Make(how, w.heap, m, x).id)]

MadeBy(f, how, h, m, parts, n) ==
    f = [i \in 0 .. n |-> IF i = 0 THEN Start(h)
                          ELSE More(how, m, f[i - 1], parts[i])]

LEMMA MadeExists ==
    ASSUME NEW how, NEW h, NEW m, NEW parts, NEW len \in Nat
    PROVE  \E f : MadeBy(f, how, h, m, parts, len)
<1> DEFINE F(f, n) == MadeBy(f, how, h, m, parts, n)
           T == {n \in 0 .. len : \E f : F(f, n)}
<1>1. 0 \in T
  <2>1. F([i \in 0 .. 0 |-> Start(h)], 0)
    BY DEF MadeBy
  <2> HIDE DEF F
  <2>2. QED
    BY <2>1
<1>2. ASSUME NEW n \in 1 .. len, n - 1 \in T
      PROVE  n \in T
  <2>1. PICK f : F(f, n - 1)
    BY <1>2
  <2> DEFINE g == [i \in 0 .. n |-> IF i = n THEN More(how, m, f[n - 1], parts[n])
                                    ELSE f[i]]
  <2>2. ASSUME NEW i \in 0 .. n
        PROVE  g[i] = IF i = 0 THEN Start(h) ELSE More(how, m, g[i - 1], parts[i])
    <3>1. CASE i = n
      <4>1. n - 1 \in 0 .. n /\ n # 0 /\ n - 1 # n
        OBVIOUS
      <4>2. QED
        BY <3>1, <4>1
    <3>2. CASE i # n
      <4>1. i \in 0 .. n - 1
        BY <3>2
      <4>2. f[i] = IF i = 0 THEN Start(h) ELSE More(how, m, f[i - 1], parts[i])
        BY <2>1, <4>1 DEF MadeBy
      <4>3. i # 0 => i - 1 \in 0 .. n /\ i - 1 # n
        BY <4>1
      <4>4. QED
        BY <3>2, <4>2, <4>3
    <3>3. QED
      BY <3>1, <3>2
  <2>3. F(g, n)
    <3> DEFINE k == [i \in 0 .. n |-> IF i = 0 THEN Start(h)
                                      ELSE More(how, m, g[i - 1], parts[i])]
    <3>1. \A i \in 0 .. n : g[i] = k[i]
      BY <2>2
    <3>2. /\ DOMAIN g = 0 .. n /\ g = [i \in 0 .. n |-> g[i]]
          /\ DOMAIN k = 0 .. n /\ k = [i \in 0 .. n |-> k[i]]
      OBVIOUS
    <3> HIDE DEF k, g
    <3>3. g = k
      BY <3>1, <3>2
    <3>4. QED
      BY <3>3 DEF k, MadeBy
  <2> HIDE DEF g, F
  <2>4. QED
    BY <2>3
<1>3. \A n \in 0 .. len : n \in T
  <2> HIDE DEF T
  <2>1. QED
    BY <1>1, <1>2, Upto
<1>4. len \in T
  <2> HIDE DEF T
  <2>1. QED
    BY <1>3
<1>5. QED
  BY <1>4

\* One more part.
LEMMA OneMore ==
    ASSUME NEW h, NEW m \in BOOLEAN, NEW of, NEW n \in Nat,
           NEW w, MakesAll(h, m, of, n, w), NEW r, Makes(w.heap, m, of, r)
    PROVE  MakesAll(h, m, of, n + 1, [heap |-> r.heap, ids |-> Append(w.ids, r.id)])
<1> DEFINE ids == Append(w.ids, r.id)
<1>1. Grows(h, r.heap)
  BY GrowsOn DEF MakesAll, Makes
<1>2. Extends(w.heap, r.heap) /\ Extends(h, w.heap)
  BY DEF MakesAll, Makes, Grows
<1>3. r.id \in Nat
  BY DEF Makes, Grows, Heap, Is
<1>4. w.ids \in Seq(Nat) /\ Len(w.ids) = n
  BY DEF MakesAll, AreAll
<1>5. /\ ids \in Seq(Nat) /\ Len(ids) = n + 1 /\ ids[n + 1] = r.id
      /\ \A i \in 1 .. n : ids[i] = w.ids[i]
  BY <1>3, <1>4
<1> HIDE DEF ids
<1>6. ASSUME NEW i \in 1 .. n + 1
      PROVE  /\ Is(r.heap, ids[i], of)
             /\ r.heap[ids[i]].mutable = m
             /\ m => ids[i] \notin DOMAIN h
  <2>1. CASE i = n + 1
    <3>1. m => r.id \notin DOMAIN h
      BY <1>2 DEF Makes, Extends
    <3>2. QED
      BY <1>5, <2>1, <3>1 DEF Makes
  <2>2. CASE i # n + 1
    <3>1. i \in 1 .. n
      BY <2>2
    <3>2. /\ Is(w.heap, w.ids[i], of) /\ w.heap[w.ids[i]].mutable = m
          /\ m => w.ids[i] \notin DOMAIN h
      BY <1>4, <3>1 DEF MakesAll, AreAll
    <3>3. r.heap[w.ids[i]] = w.heap[w.ids[i]] /\ Is(r.heap, w.ids[i], of)
      BY <1>2, <3>2 DEF Extends, Is
    <3>4. QED
      BY <1>5, <3>1, <3>2, <3>3
  <2>3. QED
    BY <2>1, <2>2
<1>7. AreAll(r.heap, ids, of)
  BY <1>5, <1>6 DEF AreAll
<1>8. QED
  BY <1>1, <1>5, <1>6, <1>7 DEF MakesAll, ids

LEMMA AllMade ==
    ASSUME NEW h, Heap(h), NEW m \in BOOLEAN, NEW how, NEW of,
           NEW parts, NEW len \in Nat,
           NEW f, MadeBy(f, how, h, m, parts, len),
           \A g : \A i \in 1 .. len :
             Heap(g) /\ Extends(h, g) => Makes(g, m, of, Make(how, g, m, parts[i]))
    PROVE  MakesAll(h, m, of, len, f[len])
<1> DEFINE T == {n \in 0 .. len : MakesAll(h, m, of, n, f[n])}
<1>1. 0 \in T
  <2>1. f[0] = Start(h)
    BY DEF MadeBy
  <2>2. MakesAll(h, m, of, 0, Start(h))
    BY GrowsStill DEF MakesAll, Start, AreAll
  <2>3. QED
    BY <2>1, <2>2
<1>2. ASSUME NEW n \in 1 .. len, n - 1 \in T
      PROVE  n \in T
  <2> DEFINE w == f[n - 1]
             r == Make(how, w.heap, m, parts[n])
  <2>1. MakesAll(h, m, of, n - 1, w)
    BY <1>2
  <2>2. Heap(w.heap) /\ Extends(h, w.heap)
    BY <2>1 DEF MakesAll, Grows
  <2>3. Makes(w.heap, m, of, r)
    BY <2>2
  <2>4. f[n] = [heap |-> r.heap, ids |-> Append(w.ids, r.id)]
    <3>1. n \in 0 .. len /\ n # 0
      OBVIOUS
    <3>2. f[n] = More(how, m, f[n - 1], parts[n])
      BY <3>1 DEF MadeBy
    <3>3. QED
      BY <3>2 DEF More
  <2> HIDE DEF w, r
  <2>5. n - 1 \in Nat /\ n - 1 + 1 = n
    OBVIOUS
  <2>6. MakesAll(h, m, of, n, f[n])
    BY <2>1, <2>3, <2>4, <2>5, OneMore
  <2>7. QED
    BY <2>6
<1>3. \A n \in 0 .. len : n \in T
  <2> HIDE DEF T
  <2>1. QED
    BY <1>1, <1>2, Upto
<1>4. QED
  BY <1>3

LEMMA SameFunction ==
    ASSUME NEW S, NEW f, NEW k, f = [i \in S |-> f[i]], k = [i \in S |-> k[i]],
           \A i \in S : f[i] = k[i]
    PROVE  f = k
OBVIOUS

LEMMA MadeByParts ==
    ASSUME NEW f, NEW how, NEW h, NEW m, NEW parts, NEW n
    PROVE  MadeBy(f, how, h, m, parts, n) <=>
             /\ f = [i \in 0 .. n |-> f[i]]
             /\ \A i \in 0 .. n : f[i] = IF i = 0 THEN Start(h)
                                         ELSE More(how, m, f[i - 1], parts[i])
<1> DEFINE k == [i \in 0 .. n |-> IF i = 0 THEN Start(h)
                                  ELSE More(how, m, f[i - 1], parts[i])]
<1>1. /\ k = [i \in 0 .. n |-> k[i]]
      /\ \A i \in 0 .. n : k[i] = IF i = 0 THEN Start(h)
                                  ELSE More(how, m, f[i - 1], parts[i])
  OBVIOUS
<1>2. MadeBy(f, how, h, m, parts, n) <=> f = k
  BY DEF MadeBy
<1> HIDE DEF k
<1>3. f = k <=> f = [i \in 0 .. n |-> f[i]] /\ \A i \in 0 .. n : f[i] = k[i]
  BY <1>1, SameFunction
<1>4. QED
  BY <1>1, <1>2, <1>3

\* CTxOut.from_txout and the like, for each of a list.
LEMMA LeafFromAllMakes ==
    ASSUME NEW h, Heap(h), NEW m \in BOOLEAN, NEW of \in LeafKinds,
           NEW parts, AreAll(h, parts, of)
    PROVE  MakesAll(h, m, of, Len(parts), FromAll(h, m, parts, LeafFrom))
<1> DEFINE len == Len(parts)
           F(f) == f = [n \in 0 .. len |->
                          IF n = 0 THEN [heap |-> h, ids |-> <<>>]
                          ELSE [heap |-> LeafFrom(f[n - 1].heap, m, parts[n]).heap,
                                ids  |-> Append(f[n - 1].ids,
                                                LeafFrom(f[n - 1].heap, m, parts[n]).id)]]
           made == CHOOSE f : F(f)
<1>1. len \in Nat
  BY DEF AreAll
<1>2. FromAll(h, m, parts, LeafFrom) = made[len]
  BY DEF FromAll
<1>3. \A g, x : Make("copy", g, m, x) = LeafFrom(g, m, x)
  BY DEF Make
<1>0. ASSUME NEW f
      PROVE  MadeBy(f, "copy", h, m, parts, len) <=> F(f)
  <2> DEFINE k == [n \in 0 .. len |->
                     IF n = 0 THEN [heap |-> h, ids |-> <<>>]
                     ELSE [heap |-> LeafFrom(f[n - 1].heap, m, parts[n]).heap,
                           ids  |-> Append(f[n - 1].ids,
                                           LeafFrom(f[n - 1].heap, m, parts[n]).id)]]
  <2>1. /\ k = [i \in 0 .. len |-> k[i]]
        /\ \A i \in 0 .. len : k[i] = IF i = 0 THEN Start(h)
                                      ELSE More("copy", m, f[i - 1], parts[i])
    <3> HIDE DEF len
    <3>1. QED
      BY <1>3 DEF More, Start
  <2>2. F(f) <=> f = k
    OBVIOUS
  <2> HIDE DEF k, F, len
  <2>3. f = k <=> f = [i \in 0 .. len |-> f[i]] /\ \A i \in 0 .. len : f[i] = k[i]
    BY <2>1, SameFunction
  <2>4. QED
    BY <2>1, <2>2, <2>3, MadeByParts
<1>4. \E f : F(f)
  <2>1. PICK f : MadeBy(f, "copy", h, m, parts, len)
    <3> HIDE DEF len
    <3>1. QED
      BY <1>1, MadeExists
  <2>2. F(f)
    <3> HIDE DEF F, len
    <3>1. QED
      BY <1>0, <2>1
  <2> HIDE DEF F
  <2>3. QED
    BY <2>2
<1>5. MadeBy(made, "copy", h, m, parts, len)
  <2> HIDE DEF F, len
  <2>1. QED
    BY <1>0, <1>4
<1>7. ASSUME NEW g, NEW i \in 1 .. len, Heap(g), Extends(h, g)
      PROVE  Makes(g, m, of, Make("copy", g, m, parts[i]))
  <2>1. Is(g, parts[i], of)
    BY <1>7, KeptOn DEF AreAll
  <2>2. QED
    BY <1>3, <1>7, <2>1, LeafFromMakes
<1> HIDE DEF made, len
<1>8. MakesAll(h, m, of, len, made[len])
  BY <1>1, <1>5, <1>7, AllMade
<1>9. QED
  BY <1>2, <1>8 DEF len

\* CTxIn.from_txin, for each of a list.
LEMMA InputFromAllMakes ==
    ASSUME NEW h, Heap(h), NEW m \in BOOLEAN, NEW parts, AreAll(h, parts, "input")
    PROVE  MakesAll(h, m, "input", Len(parts), FromAll(h, m, parts, InputFrom))
<1> DEFINE len == Len(parts)
           F(f) == f = [n \in 0 .. len |->
                          IF n = 0 THEN [heap |-> h, ids |-> <<>>]
                          ELSE [heap |-> InputFrom(f[n - 1].heap, m, parts[n]).heap,
                                ids  |-> Append(f[n - 1].ids,
                                                InputFrom(f[n - 1].heap, m, parts[n]).id)]]
           made == CHOOSE f : F(f)
<1>1. len \in Nat
  BY DEF AreAll
<1>2. FromAll(h, m, parts, InputFrom) = made[len]
  BY DEF FromAll
<1>3. \A g, x : Make("input", g, m, x) = InputFrom(g, m, x)
  BY DEF Make
<1>0. ASSUME NEW f
      PROVE  MadeBy(f, "input", h, m, parts, len) <=> F(f)
  <2> DEFINE k == [n \in 0 .. len |->
                     IF n = 0 THEN [heap |-> h, ids |-> <<>>]
                     ELSE [heap |-> InputFrom(f[n - 1].heap, m, parts[n]).heap,
                           ids  |-> Append(f[n - 1].ids,
                                           InputFrom(f[n - 1].heap, m, parts[n]).id)]]
  <2>1. /\ k = [i \in 0 .. len |-> k[i]]
        /\ \A i \in 0 .. len : k[i] = IF i = 0 THEN Start(h)
                                      ELSE More("input", m, f[i - 1], parts[i])
    <3> HIDE DEF len
    <3>1. QED
      BY <1>3 DEF More, Start
  <2>2. F(f) <=> f = k
    OBVIOUS
  <2> HIDE DEF k, F, len
  <2>3. f = k <=> f = [i \in 0 .. len |-> f[i]] /\ \A i \in 0 .. len : f[i] = k[i]
    BY <2>1, SameFunction
  <2>4. QED
    BY <2>1, <2>2, <2>3, MadeByParts
<1>4. \E f : F(f)
  <2>1. PICK f : MadeBy(f, "input", h, m, parts, len)
    <3> HIDE DEF len
    <3>1. QED
      BY <1>1, MadeExists
  <2>2. F(f)
    <3> HIDE DEF F, len
    <3>1. QED
      BY <1>0, <2>1
  <2> HIDE DEF F
  <2>3. QED
    BY <2>2
<1>5. MadeBy(made, "input", h, m, parts, len)
  <2> HIDE DEF F, len
  <2>1. QED
    BY <1>0, <1>4
<1>7. ASSUME NEW g, NEW i \in 1 .. len, Heap(g), Extends(h, g)
      PROVE  Makes(g, m, "input", Make("input", g, m, parts[i]))
  <2>1. Is(g, parts[i], "input")
    BY <1>7, KeptOn DEF AreAll
  <2>2. QED
    BY <1>3, <1>7, <2>1, InputFromMakes
<1> HIDE DEF made, len
<1>8. MakesAll(h, m, "input", len, made[len])
  BY <1>1, <1>5, <1>7, AllMade
<1>9. QED
  BY <1>2, <1>8 DEF len

\* CTxIn(prevout), for each of a list.
LEMMA NewInputAllMakes ==
    ASSUME NEW h, Heap(h), NEW m \in BOOLEAN, NEW parts, AreAll(h, parts, "outpoint")
    PROVE  MakesAll(h, m, "input", Len(parts), FromAll(h, m, parts, NewInput))
<1> DEFINE len == Len(parts)
           F(f) == f = [n \in 0 .. len |->
                          IF n = 0 THEN [heap |-> h, ids |-> <<>>]
                          ELSE [heap |-> NewInput(f[n - 1].heap, m, parts[n]).heap,
                                ids  |-> Append(f[n - 1].ids,
                                                NewInput(f[n - 1].heap, m, parts[n]).id)]]
           made == CHOOSE f : F(f)
<1>1. len \in Nat
  BY DEF AreAll
<1>2. FromAll(h, m, parts, NewInput) = made[len]
  BY DEF FromAll
<1>3. \A g, x : Make("spend", g, m, x) = NewInput(g, m, x)
  BY DEF Make
<1>0. ASSUME NEW f
      PROVE  MadeBy(f, "spend", h, m, parts, len) <=> F(f)
  <2> DEFINE k == [n \in 0 .. len |->
                     IF n = 0 THEN [heap |-> h, ids |-> <<>>]
                     ELSE [heap |-> NewInput(f[n - 1].heap, m, parts[n]).heap,
                           ids  |-> Append(f[n - 1].ids,
                                           NewInput(f[n - 1].heap, m, parts[n]).id)]]
  <2>1. /\ k = [i \in 0 .. len |-> k[i]]
        /\ \A i \in 0 .. len : k[i] = IF i = 0 THEN Start(h)
                                      ELSE More("spend", m, f[i - 1], parts[i])
    <3> HIDE DEF len
    <3>1. QED
      BY <1>3 DEF More, Start
  <2>2. F(f) <=> f = k
    OBVIOUS
  <2> HIDE DEF k, F, len
  <2>3. f = k <=> f = [i \in 0 .. len |-> f[i]] /\ \A i \in 0 .. len : f[i] = k[i]
    BY <2>1, SameFunction
  <2>4. QED
    BY <2>1, <2>2, <2>3, MadeByParts
<1>4. \E f : F(f)
  <2>1. PICK f : MadeBy(f, "spend", h, m, parts, len)
    <3> HIDE DEF len
    <3>1. QED
      BY <1>1, MadeExists
  <2>2. F(f)
    <3> HIDE DEF F, len
    <3>1. QED
      BY <1>0, <2>1
  <2> HIDE DEF F
  <2>3. QED
    BY <2>2
<1>5. MadeBy(made, "spend", h, m, parts, len)
  <2> HIDE DEF F, len
  <2>1. QED
    BY <1>0, <1>4
<1>7. ASSUME NEW g, NEW i \in 1 .. len, Heap(g), Extends(h, g)
      PROVE  Makes(g, m, "input", Make("spend", g, m, parts[i]))
  <2>1. Is(g, parts[i], "outpoint")
    BY <1>7, KeptOn DEF AreAll
  <2>2. QED
    BY <1>3, <1>7, <2>1, NewInputMakes
<1> HIDE DEF made, len
<1>8. MakesAll(h, m, "input", len, made[len])
  BY <1>1, <1>5, <1>7, AllMade
<1>9. QED
  BY <1>2, <1>8 DEF len

\* Leaves of data.
LEMMA LeavesMake ==
    ASSUME NEW h, Heap(h), NEW m \in BOOLEAN, NEW of \in LeafKinds,
           NEW parts, Len(parts) \in Nat
    PROVE  MakesAll(h, m, of, Len(parts), Leaves(h, m, of, parts))
<1> DEFINE len == Len(parts)
           F(f) == f = [n \in 0 .. len |->
                          IF n = 0 THEN [heap |-> h, ids |-> <<>>]
                          ELSE [heap |-> Leaf(f[n - 1].heap, m, of, parts[n]).heap,
                                ids  |-> Append(f[n - 1].ids,
                                                Leaf(f[n - 1].heap, m, of, parts[n]).id)]]
           made == CHOOSE f : F(f)
<1>1. len \in Nat
  OBVIOUS
<1>2. Leaves(h, m, of, parts) = made[len]
  BY DEF Leaves, FromAll
<1>3. \A g, x : Make(of, g, m, x) = Leaf(g, m, of, x)
  BY DEF Make, LeafKinds
<1>0. ASSUME NEW f
      PROVE  MadeBy(f, of, h, m, parts, len) <=> F(f)
  <2> DEFINE k == [n \in 0 .. len |->
                     IF n = 0 THEN [heap |-> h, ids |-> <<>>]
                     ELSE [heap |-> Leaf(f[n - 1].heap, m, of, parts[n]).heap,
                           ids  |-> Append(f[n - 1].ids,
                                           Leaf(f[n - 1].heap, m, of, parts[n]).id)]]
  <2>1. /\ k = [i \in 0 .. len |-> k[i]]
        /\ \A i \in 0 .. len : k[i] = IF i = 0 THEN Start(h)
                                      ELSE More(of, m, f[i - 1], parts[i])
    <3> HIDE DEF len
    <3>1. QED
      BY <1>3 DEF More, Start
  <2>2. F(f) <=> f = k
    OBVIOUS
  <2> HIDE DEF k, F, len
  <2>3. f = k <=> f = [i \in 0 .. len |-> f[i]] /\ \A i \in 0 .. len : f[i] = k[i]
    BY <2>1, SameFunction
  <2>4. QED
    BY <2>1, <2>2, <2>3, MadeByParts
<1>4. \E f : F(f)
  <2>1. PICK f : MadeBy(f, of, h, m, parts, len)
    <3> HIDE DEF len
    <3>1. QED
      BY <1>1, MadeExists
  <2>2. F(f)
    <3> HIDE DEF F, len
    <3>1. QED
      BY <1>0, <2>1
  <2> HIDE DEF F
  <2>3. QED
    BY <2>2
<1>5. MadeBy(made, of, h, m, parts, len)
  <2> HIDE DEF F, len
  <2>1. QED
    BY <1>0, <1>4
<1>7. ASSUME NEW g, NEW i \in 1 .. len, Heap(g), Extends(h, g)
      PROVE  Makes(g, m, of, Make(of, g, m, parts[i]))
  BY <1>3, <1>7, LeafMakes
<1> HIDE DEF made, len
<1>8. MakesAll(h, m, of, len, made[len])
  BY <1>1, <1>5, <1>7, AllMade
<1>9. QED
  BY <1>2, <1>8 DEF len

-----------------------------------------------------------------------------
(* Witnesses and transactions.                                               *)

\* What was made stays as it is when more is made.
LEMMA StillMade ==
    ASSUME NEW h, NEW m, NEW of, NEW r, Makes(h, m, of, r),
           NEW g, Extends(r.heap, g)
    PROVE  /\ Is(g, r.id, of) /\ g[r.id].mutable = m
           /\ m => r.id \notin DOMAIN h
BY DEF Makes, Extends, Is

LEMMA StillAllMade ==
    ASSUME NEW h, NEW m, NEW of, NEW n, NEW w, MakesAll(h, m, of, n, w),
           NEW g, Extends(w.heap, g)
    PROVE  /\ AreAll(g, w.ids, of) /\ Len(w.ids) = n
           /\ \A i \in 1 .. n : g[w.ids[i]].mutable = m
           /\ m => \A i \in 1 .. n : w.ids[i] \notin DOMAIN h
<1>1. AreAll(g, w.ids, of)
  BY KeptOn DEF MakesAll
<1>2. \A i \in 1 .. n : w.ids[i] \in DOMAIN w.heap
  BY DEF MakesAll, AreAll, Is
<1>3. QED
  BY <1>1, <1>2 DEF MakesAll, Extends

LEMMA MakesAllOn ==
    ASSUME NEW h, NEW g, Grows(h, g), NEW m, NEW of, NEW n,
           NEW w, MakesAll(g, m, of, n, w)
    PROVE  MakesAll(h, m, of, n, w)
<1>1. Grows(h, w.heap)
  BY GrowsOn DEF MakesAll
<1>2. \A i \in 1 .. n : m => w.ids[i] \notin DOMAIN h
  BY DEF MakesAll, Grows, Extends
<1>3. QED
  BY <1>1, <1>2 DEF MakesAll

\* CTxWitness(vtxinwit)
LEMMA NewWitnessMakes ==
    ASSUME NEW h, Heap(h), NEW m \in BOOLEAN,
           NEW vtxinwit, AreAll(h, vtxinwit, "inwit")
    PROVE  Makes(h, m, "witness", NewWitness(h, m, vtxinwit))
<1> DEFINE w == FromAll(h, m, vtxinwit, LeafFrom)
           r == [of |-> "witness", vtxinwit |-> w.ids, mutable |-> m]
           n == Len(vtxinwit)
<1>1. MakesAll(h, m, "inwit", n, w)
  BY LeafFromAllMakes DEF LeafKinds
<1>2. NewWitness(h, m, vtxinwit) = New(w.heap, r)
  BY DEF NewWitness
<1> HIDE DEF w
<1>3. /\ r.of = "witness" /\ r.mutable = m /\ r.vtxinwit = w.ids
      /\ r = [of |-> "witness", vtxinwit |-> r.vtxinwit, mutable |-> r.mutable]
  OBVIOUS
<1> HIDE DEF r, n
<1>4. Grows(h, w.heap) /\ AreAll(w.heap, w.ids, "inwit") /\ Len(w.ids) = n
  BY <1>1 DEF MakesAll
<1>5. IsWitness(w.heap, r)
  BY <1>3, <1>4 DEF IsWitness
<1>6. Fits(w.heap, r)
  BY <1>3, <1>5 DEF Fits
<1>7. Children(r) = {w.ids[i] : i \in 1 .. n}
  <2>1. Children(r) = {r.vtxinwit[i] : i \in 1 .. Len(r.vtxinwit)}
    BY <1>5, <1>6, PartsOf
  <2>2. QED
    BY <2>1, <1>3, <1>4
<1>8. Firm(w.heap, r)
  BY <1>1, <1>3, <1>7 DEF Firm, MakesAll
<1>9. r.mutable => Children(r) \intersect DOMAIN h = {}
  BY <1>1, <1>3, <1>7 DEF MakesAll
<1>10. Makes(h, r.mutable, r.of, New(w.heap, r))
  BY <1>4, <1>6, <1>8, <1>9, NewMakes
<1>11. QED
  BY <1>2, <1>3, <1>10

\* CTxWitness.from_witness(o)
LEMMA WitnessFromMakes ==
    ASSUME NEW h, Heap(h), NEW m \in BOOLEAN, NEW o, Is(h, o, "witness")
    PROVE  Makes(h, m, "witness", WitnessFrom(h, m, o))
<1>1. CASE Unconverted(h, m, o)
  BY <1>1, KeepMakes DEF WitnessFrom
<1>2. CASE ~Unconverted(h, m, o)
  <2>1. Fits(h, h[o])
    BY DEF Heap, Is
  <2>2. AreAll(h, h[o].vtxinwit, "inwit")
    BY <2>1 DEF Fits, Is, IsLeaf, LeafKinds, IsInput, IsWitness, IsTx
  <2>3. QED
    BY <1>2, <2>2, NewWitnessMakes DEF WitnessFrom
<1>3. QED
  BY <1>1, <1>2

LEMMA EmptyWitnessMakes ==
    ASSUME NEW h, Heap(h), NEW m \in BOOLEAN, NEW n \in Nat
    PROVE  Makes(h, m, "witness", EmptyWitness(h, m, n))
<1> DEFINE s   == [i \in 1 .. (IF m THEN n ELSE 0) |-> "empty"]
           all == Leaves(h, m, "inwit", s)
<1>1. Len(s) \in Nat
  OBVIOUS
<1>2. EmptyWitness(h, m, n) = NewWitness(all.heap, m, all.ids)
  BY DEF EmptyWitness
<1> HIDE DEF s
<1>3. MakesAll(h, m, "inwit", Len(s), all)
  BY <1>1, LeavesMake DEF LeafKinds
<1> HIDE DEF all
<1>4. Grows(h, all.heap) /\ Heap(all.heap) /\ AreAll(all.heap, all.ids, "inwit")
  BY <1>3 DEF MakesAll, Grows
<1>5. Makes(all.heap, m, "witness", NewWitness(all.heap, m, all.ids))
  BY <1>4, NewWitnessMakes
<1>6. QED
  BY <1>2, <1>4, <1>5, MakesOn

IsWitnessArg(h, wit) == wit = NoObject \/ Is(h, wit, "witness")

LEMMA WitnessOfMakes ==
    ASSUME NEW h, Heap(h), NEW m \in BOOLEAN, NEW vin, Len(vin) \in Nat,
           NEW wit, IsWitnessArg(h, wit)
    PROVE  Makes(h, m, "witness", WitnessOf(h, m, vin, wit))
<1> DEFINE Empty == wit = NoObject \/ (m /\ WitnessIsNull(h, wit))
<1>1. CASE Empty
  BY <1>1, EmptyWitnessMakes DEF WitnessOf
<1>2. CASE ~Empty
  BY <1>2, WitnessFromMakes DEF WitnessOf, IsWitnessArg
<1>3. QED
  BY <1>1, <1>2

\* CTransaction(vin, vout, witness=wit)
LEMMA NewTxMakes ==
    ASSUME NEW h, Heap(h), NEW m \in BOOLEAN, NEW vin, AreAll(h, vin, "input"),
           NEW vout, AreAll(h, vout, "output"), NEW wit, IsWitnessArg(h, wit),
           NEW once
    PROVE  Makes(h, m, "transaction", NewTx(h, m, vin, vout, wit, once))
<1> DEFINE left(s) == IF Exhausted(h, m, wit, once) THEN <<>> ELSE s
           vin_  == left(vin)
           vout_ == left(vout)
           w     == WitnessOf(h, m, vin, wit)
           ins   == FromAll(w.heap, m, vin_, InputFrom)
           outs  == FromAll(ins.heap, m, vout_, LeafFrom)
           r     == [of |-> "transaction", vin |-> ins.ids, vout |-> outs.ids,
                     wit |-> w.id, mutable |-> m]
<1>1. NewTx(h, m, vin, vout, wit, once) = New(outs.heap, r)
  BY DEF NewTx
<1>2. AreAll(h, vin_, "input") /\ AreAll(h, vout_, "output")
  <2>1. AreAll(h, <<>>, "input") /\ AreAll(h, <<>>, "output")
    BY DEF AreAll
  <2>2. QED
    BY <2>1
<1> HIDE DEF vin_, vout_
<1>3. Makes(h, m, "witness", w)
  BY WitnessOfMakes DEF AreAll
<1> HIDE DEF w
<1>4. Grows(h, w.heap) /\ Heap(w.heap) /\ Extends(h, w.heap)
  BY <1>3 DEF Makes, Grows
<1>5. MakesAll(w.heap, m, "input", Len(vin_), ins)
  BY <1>2, <1>4, KeptOn, InputFromAllMakes
<1> HIDE DEF ins
<1>6. /\ Grows(w.heap, ins.heap) /\ Heap(ins.heap) /\ Extends(w.heap, ins.heap)
      /\ Grows(h, ins.heap) /\ Extends(h, ins.heap)
  BY <1>4, <1>5, GrowsOn DEF MakesAll, Grows
<1>7. MakesAll(ins.heap, m, "output", Len(vout_), outs)
  BY <1>2, <1>6, KeptOn, LeafFromAllMakes DEF LeafKinds
<1> HIDE DEF outs
<1>8. Grows(ins.heap, outs.heap) /\ Extends(ins.heap, outs.heap)
  BY <1>7 DEF MakesAll, Grows
<1>9. Grows(h, outs.heap) /\ Extends(w.heap, outs.heap)
  BY <1>6, <1>8, GrowsOn DEF Grows, Extends
<1>10. /\ Is(outs.heap, w.id, "witness") /\ outs.heap[w.id].mutable = m
       /\ m => w.id \notin DOMAIN h
  BY <1>3, <1>9, StillMade
<1>11. /\ AreAll(outs.heap, ins.ids, "input")
       /\ \A i \in 1 .. Len(ins.ids) : outs.heap[ins.ids[i]].mutable = m
       /\ m => \A i \in 1 .. Len(ins.ids) : ins.ids[i] \notin DOMAIN h
  <2>1. MakesAll(h, m, "input", Len(vin_), ins)
    BY <1>4, <1>5, MakesAllOn
  <2>2. /\ AreAll(outs.heap, ins.ids, "input") /\ Len(ins.ids) = Len(vin_)
        /\ \A i \in 1 .. Len(vin_) : outs.heap[ins.ids[i]].mutable = m
        /\ m => \A i \in 1 .. Len(vin_) : ins.ids[i] \notin DOMAIN h
    BY <2>1, <1>8, StillAllMade
  <2>3. QED
    BY <2>2
<1>12. /\ AreAll(outs.heap, outs.ids, "output")
       /\ \A i \in 1 .. Len(outs.ids) : outs.heap[outs.ids[i]].mutable = m
       /\ m => \A i \in 1 .. Len(outs.ids) : outs.ids[i] \notin DOMAIN h
  <2>1. MakesAll(h, m, "output", Len(vout_), outs)
    BY <1>6, <1>7, MakesAllOn
  <2>2. QED
    BY <2>1 DEF MakesAll
<1>13. /\ r.of = "transaction" /\ r.mutable = m /\ r.vin = ins.ids
       /\ r.vout = outs.ids /\ r.wit = w.id
       /\ r = [of |-> "transaction", vin |-> r.vin, vout |-> r.vout,
               wit |-> r.wit, mutable |-> r.mutable]
  OBVIOUS
<1> HIDE DEF r
<1>14. IsTx(outs.heap, r)
  BY <1>10, <1>11, <1>12, <1>13 DEF IsTx
<1>15. Fits(outs.heap, r)
  BY <1>13, <1>14 DEF Fits
<1>16. Children(r) = {ins.ids[i] : i \in 1 .. Len(ins.ids)}
                       \union {outs.ids[i] : i \in 1 .. Len(outs.ids)}
                       \union {w.id}
  <2>1. Children(r) = {r.vin[i] : i \in 1 .. Len(r.vin)}
                        \union {r.vout[i] : i \in 1 .. Len(r.vout)}
                        \union {r.wit}
    BY <1>14, <1>15, PartsOf
  <2>2. QED
    BY <2>1, <1>13
<1>17. Firm(outs.heap, r)
  BY <1>10, <1>11, <1>12, <1>13, <1>16 DEF Firm
<1>18. r.mutable => Children(r) \intersect DOMAIN h = {}
  BY <1>10, <1>11, <1>12, <1>13, <1>16
<1>19. Makes(h, r.mutable, r.of, New(outs.heap, r))
  BY <1>9, <1>15, <1>17, <1>18, NewMakes
<1>20. QED
  BY <1>1, <1>13, <1>19

\* The parts of a transaction.
LEMMA TxParts ==
    ASSUME NEW h, Heap(h), NEW o, Is(h, o, "transaction")
    PROVE  /\ AreAll(h, h[o].vin, "input") /\ AreAll(h, h[o].vout, "output")
           /\ Is(h, h[o].wit, "witness")
<1>1. Fits(h, h[o])
  BY DEF Heap, Is
<1>2. QED
  BY <1>1 DEF Fits, Is, IsLeaf, LeafKinds, IsInput, IsWitness, IsTx

\* CTransaction.from_tx(o)
LEMMA TxFromMakes ==
    ASSUME NEW h, Heap(h), NEW m \in BOOLEAN, NEW o, Is(h, o, "transaction")
    PROVE  Makes(h, m, "transaction", TxFrom(h, m, o))
<1> DEFINE ins  == FromAll(h, m, h[o].vin, InputFrom)
           outs == FromAll(ins.heap, m, h[o].vout, LeafFrom)
           w    == WitnessFrom(outs.heap, m, h[o].wit)
           made == NewTx(w.heap, m, ins.ids, outs.ids, w.id, FALSE)
<1>1. TxFrom(h, m, o) = IF Unconverted(h, m, o) THEN [heap |-> h, id |-> o]
                        ELSE made
  BY DEF TxFrom
<1>2. CASE Unconverted(h, m, o)
  BY <1>1, <1>2, KeepMakes
<1>3. CASE ~Unconverted(h, m, o)
  <2> DEFINE vin  == h[o].vin
             vout == h[o].vout
  <2>1. AreAll(h, vin, "input") /\ AreAll(h, vout, "output")
        /\ Is(h, h[o].wit, "witness")
    BY TxParts
  <2> HIDE DEF vin, vout
  <2>2. MakesAll(h, m, "input", Len(vin), ins)
    BY <2>1, InputFromAllMakes DEF vin
  <2> HIDE DEF ins
  <2>3. Grows(h, ins.heap) /\ Heap(ins.heap) /\ Extends(h, ins.heap)
    BY <2>2 DEF MakesAll, Grows
  <2>4. MakesAll(ins.heap, m, "output", Len(vout), outs)
    BY <2>1, <2>3, KeptOn, LeafFromAllMakes DEF vout, LeafKinds
  <2> HIDE DEF outs
  <2>5. /\ Grows(ins.heap, outs.heap) /\ Heap(outs.heap)
        /\ Extends(ins.heap, outs.heap) /\ Extends(h, outs.heap)
    BY <2>3, <2>4, GrowsOn DEF MakesAll, Grows
  <2>6. Makes(outs.heap, m, "witness", w)
    BY <2>1, <2>5, KeptOn, WitnessFromMakes
  <2> HIDE DEF w
  <2>7. /\ Grows(outs.heap, w.heap) /\ Heap(w.heap) /\ Extends(outs.heap, w.heap)
        /\ Is(w.heap, w.id, "witness")
    BY <2>6 DEF Makes, Grows
  <2>8. Extends(ins.heap, w.heap)
    BY <2>5, <2>7 DEF Extends
  <2>9. AreAll(w.heap, ins.ids, "input") /\ AreAll(w.heap, outs.ids, "output")
    BY <2>2, <2>4, <2>7, <2>8, StillAllMade
  <2>10. Makes(w.heap, m, "transaction", made)
    BY <2>7, <2>9, NewTxMakes DEF IsWitnessArg
  <2>11. Grows(h, w.heap)
    BY <2>3, <2>5, <2>7, GrowsOn
  <2> HIDE DEF made
  <2>12. Makes(h, m, "transaction", made)
    BY <2>10, <2>11, MakesOn
  <2>13. QED
    BY <1>1, <1>3, <2>12
<1>4. QED
  BY <1>2, <1>3

\* CTransaction.deserialize
LEMMA TxOfValueMakes ==
    ASSUME NEW h, Heap(h), NEW m \in BOOLEAN,
           NEW v, Len(v[1]) \in Nat, Len(v[2]) \in Nat, Len(v[3]) \in Nat
    PROVE  Makes(h, m, "transaction", TxOfValue(h, m, v))
<1> DEFINE points == Leaves(h, m, "outpoint", v[1])
           ins    == FromAll(points.heap, m, points.ids, NewInput)
           outs   == Leaves(ins.heap, m, "output", v[2])
           inwits == Leaves(outs.heap, m, "inwit", v[3])
           w      == NewWitness(inwits.heap, m, inwits.ids)
           wit    == IF v[3] = <<>> THEN NoObject ELSE w.id
           made   == NewTx(w.heap, m, ins.ids, outs.ids, wit, FALSE)
<1>1. TxOfValue(h, m, v) = made
  BY DEF TxOfValue
<1>2. MakesAll(h, m, "outpoint", Len(v[1]), points)
  BY LeavesMake DEF LeafKinds
<1> HIDE DEF points
<1>3. /\ Grows(h, points.heap) /\ Heap(points.heap)
      /\ AreAll(points.heap, points.ids, "outpoint")
  BY <1>2 DEF MakesAll, Grows
<1>4. MakesAll(points.heap, m, "input", Len(points.ids), ins)
  BY <1>3, NewInputAllMakes
<1> HIDE DEF ins
<1>5. Grows(points.heap, ins.heap) /\ Heap(ins.heap)
  BY <1>4 DEF MakesAll, Grows
<1>6. MakesAll(ins.heap, m, "output", Len(v[2]), outs)
  BY <1>5, LeavesMake DEF LeafKinds
<1> HIDE DEF outs
<1>7. Grows(ins.heap, outs.heap) /\ Heap(outs.heap) /\ Extends(ins.heap, outs.heap)
  BY <1>6 DEF MakesAll, Grows
<1>8. MakesAll(outs.heap, m, "inwit", Len(v[3]), inwits)
  BY <1>7, LeavesMake DEF LeafKinds
<1> HIDE DEF inwits
<1>9. /\ Grows(outs.heap, inwits.heap) /\ Heap(inwits.heap)
      /\ AreAll(inwits.heap, inwits.ids, "inwit") /\ Extends(outs.heap, inwits.heap)
  BY <1>8 DEF MakesAll, Grows
<1>10. Makes(inwits.heap, m, "witness", w)
  BY <1>9, NewWitnessMakes
<1> HIDE DEF w
<1>11. /\ Grows(inwits.heap, w.heap) /\ Heap(w.heap) /\ Is(w.heap, w.id, "witness")
       /\ Extends(inwits.heap, w.heap)
  BY <1>10 DEF Makes, Grows
<1>12. Extends(outs.heap, w.heap) /\ Extends(ins.heap, w.heap)
  BY <1>7, <1>9, <1>11 DEF Extends
<1>13. AreAll(w.heap, ins.ids, "input") /\ AreAll(w.heap, outs.ids, "output")
  BY <1>4, <1>6, <1>12, StillAllMade
<1>14. IsWitnessArg(w.heap, wit)
  BY <1>11 DEF IsWitnessArg
<1> HIDE DEF wit
<1>15. Makes(w.heap, m, "transaction", made)
  BY <1>11, <1>13, <1>14, NewTxMakes
<1>16. Grows(h, w.heap)
  BY <1>3, <1>5, <1>7, <1>9, <1>11, GrowsOn
<1> HIDE DEF made
<1>17. QED
  BY <1>1, <1>15, <1>16, MakesOn

-----------------------------------------------------------------------------
(* Garbage collection and edits.                                             *)

IsRoot(h, o) == Is(h, o, "transaction") \/ Is(h, o, "input")

\* What the parts of a root hold has no parts.
LEMMA TwoLevels ==
    ASSUME NEW h, Heap(h), NEW o, IsRoot(h, o), NEW c \in Children(h[o]),
           NEW x \in Children(h[c])
    PROVE  x \in DOMAIN h /\ Children(h[x]) = {}
<1>1. o \in DOMAIN h /\ Fits(h, h[o])
  BY DEF IsRoot, Is, Heap
<1>2. c \in DOMAIN h /\ Fits(h, h[c])
  BY <1>1, PartsOf DEF Heap
<1>3. x \in DOMAIN h /\ Fits(h, h[x])
  BY <1>2, PartsOf DEF Heap
<1>4. IsLeaf(h[c]) \/ IsInput(h, h[c]) \/ IsWitness(h, h[c])
  <2>1. CASE h[o].of = "input"
    <3>1. IsInput(h, h[o])
      BY <1>1, <2>1 DEF Fits, IsLeaf, LeafKinds, IsWitness, IsTx
    <3>2. Is(h, c, "outpoint")
      BY <1>1, <3>1, PartsOf DEF IsInput
    <3>3. QED
      BY <1>2, <3>2 DEF Is, Fits, IsInput, IsWitness, IsTx
  <2>2. CASE h[o].of = "transaction"
    <3>1. IsTx(h, h[o])
      BY <1>1, <2>2 DEF Fits, IsLeaf, LeafKinds, IsWitness, IsInput
    <3>2. Children(h[o]) = {h[o].vin[i] : i \in 1 .. Len(h[o].vin)}
            \union {h[o].vout[i] : i \in 1 .. Len(h[o].vout)} \union {h[o].wit}
      BY <1>1, <3>1, PartsOf
    <3>3. Is(h, c, "input") \/ Is(h, c, "output") \/ Is(h, c, "witness")
      BY <3>1, <3>2 DEF IsTx, AreAll
    <3>4. QED
      BY <1>2, <3>3 DEF Is, Fits, IsTx
  <2>3. QED
    BY <2>1, <2>2 DEF IsRoot, Is
<1>5. ~IsLeaf(h[c])
  BY <1>2, PartsOf
<1>6. Is(h, x, "outpoint") \/ Is(h, x, "inwit")
  <2>1. CASE IsInput(h, h[c])
    BY <1>2, <2>1, PartsOf DEF IsInput
  <2>2. CASE IsWitness(h, h[c])
    <3>1. Children(h[c]) = {h[c].vtxinwit[i] : i \in 1 .. Len(h[c].vtxinwit)}
      BY <1>2, <2>2, PartsOf
    <3>2. QED
      BY <2>2, <3>1 DEF IsWitness, AreAll
  <2>3. QED
    BY <1>4, <1>5, <2>1, <2>2
<1>7. IsLeaf(h[x])
  BY <1>3, <1>6 DEF Is, Fits, IsInput, IsWitness, IsTx
<1>8. QED
  BY <1>3, <1>7, PartsOf

\* g is a part of h.
PartOf(g, h) == \A o \in DOMAIN g : o \in DOMAIN h /\ g[o] = h[o]

LEMMA FitsWithin ==
    ASSUME NEW h, NEW g, PartOf(g, h), NEW r, Fits(h, r),
           Children(r) \subseteq DOMAIN g
    PROVE  Fits(g, r) /\ (Firm(h, r) => Firm(g, r))
<1>1. \A o \in Children(r) : \A of : Is(h, o, of) => Is(g, o, of)
  BY DEF Is, PartOf
<1>2. Firm(h, r) => Firm(g, r)
  BY DEF Firm, PartOf
<1>3. CASE IsLeaf(r)
  BY <1>3, <1>2 DEF Fits
<1>4. CASE IsInput(h, r)
  <2>1. Children(r) = {r.prevout}
    BY <1>4, PartsOf
  <2>2. IsInput(g, r)
    BY <1>1, <1>4, <2>1 DEF IsInput
  <2>3. QED
    BY <1>2, <2>2 DEF Fits
<1>5. CASE IsWitness(h, r)
  <2>1. Children(r) = {r.vtxinwit[i] : i \in 1 .. Len(r.vtxinwit)}
    BY <1>5, PartsOf
  <2>2. IsWitness(g, r)
    BY <1>1, <1>5, <2>1 DEF IsWitness, AreAll
  <2>3. QED
    BY <1>2, <2>2 DEF Fits
<1>6. CASE IsTx(h, r)
  <2>1. Children(r) = {r.vin[i] : i \in 1 .. Len(r.vin)}
          \union {r.vout[i] : i \in 1 .. Len(r.vout)} \union {r.wit}
    BY <1>6, PartsOf
  <2>2. AreAll(g, r.vin, "input")
    BY <1>1, <1>6, <2>1 DEF IsTx, AreAll
  <2>3. AreAll(g, r.vout, "output")
    BY <1>1, <1>6, <2>1 DEF IsTx, AreAll
  <2>4. Is(g, r.wit, "witness")
    BY <1>1, <1>6, <2>1 DEF IsTx
  <2>5. IsTx(g, r)
    BY <1>6, <2>2, <2>3, <2>4 DEF IsTx
  <2>6. QED
    BY <1>2, <2>5 DEF Fits
<1>7. QED
  BY <1>3, <1>4, <1>5, <1>6 DEF Fits

\* What is left when what the roots do not reach has been collected.
LEMMA Collect ==
    ASSUME NEW h, Heap(h), NEW R, \A r \in R \ {NoObject} : IsRoot(h, r)
    PROVE  LET g == Live(h, R)
           IN Heap(g) /\ PartOf(g, h) /\ R \ {NoObject} \subseteq DOMAIN g
<1> DEFINE S == R \ {NoObject}
           P == UNION {Children(h[x]) : x \in S}
           Q == UNION {Children(h[x]) : x \in P}
           g == Live(h, R)
<1>1. DOMAIN g = S \union P \union Q /\ \A o \in DOMAIN g : g[o] = h[o]
  BY DEF Live, ReachAll
<1> HIDE DEF g
<1>2. S \subseteq DOMAIN h
  BY DEF IsRoot, Is
<1>3. P \subseteq DOMAIN h
  <2>1. ASSUME NEW x \in S PROVE Children(h[x]) \subseteq DOMAIN h
    <3>1. Fits(h, h[x])
      BY <1>2, <2>1 DEF Heap
    <3>2. QED
      BY <3>1, PartsOf
  <2> HIDE DEF S
  <2>2. QED
    BY <2>1
<1>4. \A x \in Q : x \in DOMAIN h /\ Children(h[x]) = {}
  BY TwoLevels
<1>5. PartOf(g, h)
  <2> HIDE DEF S, P, Q
  <2>1. QED
    BY <1>1, <1>2, <1>3, <1>4 DEF PartOf
<1>6. ASSUME NEW o \in DOMAIN g
      PROVE  Fits(g, g[o]) /\ Firm(g, g[o])
  <2>1. Children(h[o]) \subseteq DOMAIN g
    <3>1. o \in S => Children(h[o]) \subseteq P
      OBVIOUS
    <3>2. o \in P => Children(h[o]) \subseteq Q
      OBVIOUS
    <3> HIDE DEF S, P, Q
    <3>3. QED
      BY <1>1, <1>4, <3>1, <3>2
  <2>2. Fits(h, h[o]) /\ Firm(h, h[o]) /\ g[o] = h[o]
    BY <1>5 DEF PartOf, Heap
  <2>3. QED
    BY <1>5, <2>1, <2>2, FitsWithin
<1>7. DOMAIN g \subseteq DOMAIN h
  BY <1>5 DEF PartOf
<1>8. IsFiniteSet(DOMAIN g) /\ DOMAIN g \subseteq Nat
  BY <1>7, FS_Subset DEF Heap
<1>9. Heap(g)
  BY <1>6, <1>8 DEF Heap
<1>10. S \subseteq DOMAIN g
  <2> HIDE DEF S, P, Q
  <2>1. QED
    BY <1>1
<1>11. QED
  BY <1>5, <1>9, <1>10 DEF g

\* A part of a heap reaches what the heap reaches.
LEMMA ReachWithin ==
    ASSUME NEW h, NEW g, Heap(g), PartOf(g, h), NEW o \in DOMAIN g
    PROVE  Reach(g, o) = Reach(h, o)
<1> DEFINE P(k) == UNION {Children(k[x]) : x \in {o}}
           Q(k) == UNION {Children(k[x]) : x \in P(k)}
<1>1. Reach(g, o) = {o} \union P(g) \union Q(g)
  BY DEF Reach, ReachAll
<1>2. Reach(h, o) = {o} \union P(h) \union Q(h)
  BY DEF Reach, ReachAll
<1>3. P(g) = Children(g[o]) /\ P(h) = Children(h[o])
  OBVIOUS
<1>4. g[o] = h[o] /\ Children(g[o]) \subseteq DOMAIN g
  BY PartsOf DEF Heap, PartOf
<1>5. P(g) = P(h) /\ \A x \in P(g) : g[x] = h[x]
  BY <1>3, <1>4 DEF PartOf
<1>6. Q(g) = Q(h)
  <2> HIDE DEF P
  <2>1. QED
    BY <1>5
<1>7. QED
  <2> HIDE DEF P, Q
  <2>1. QED
    BY <1>1, <1>2, <1>5, <1>6

\* What is made reaches nothing mutable that was there.
LEMMA MadeApart ==
    ASSUME NEW h, Heap(h), NEW m \in BOOLEAN, NEW of, NEW r, Makes(h, m, of, r),
           NEW x \in Reach(r.heap, r.id), x \in DOMAIN h
    PROVE  ~h[x].mutable
<1> DEFINE g == r.heap
           Apart(y) == y \in DOMAIN g /\ (g[y].mutable => y \notin DOMAIN h)
<1>1. Heap(g) /\ Extends(h, g) /\ Fresh(h, g)
  BY DEF Makes, Grows
<1>2. Apart(r.id)
  BY DEF Makes, Is
<1>3. ASSUME NEW y, Apart(y), NEW c \in Children(g[y])
      PROVE  Apart(c)
  <2>1. Fits(g, g[y]) /\ Firm(g, g[y])
    BY <1>1, <1>3 DEF Heap
  <2>2. c \in DOMAIN g
    BY <2>1, PartsOf
  <2>3. CASE g[y].mutable
    BY <1>1, <1>3, <2>2, <2>3 DEF Fresh
  <2>4. CASE ~g[y].mutable
    BY <2>1, <2>2, <2>4 DEF Firm
  <2>5. QED
    BY <2>3, <2>4
<1>4. \/ x = r.id
      \/ x \in Children(g[r.id])
      \/ \E c \in Children(g[r.id]) : x \in Children(g[c])
  BY DEF Reach, ReachAll
<1>5. Apart(x)
  <2> HIDE DEF Apart, g
  <2>1. QED
    BY <1>2, <1>3, <1>4
<1>6. QED
  BY <1>1, <1>5 DEF Extends

\* What an immutable object reaches is immutable.
LEMMA ReachFirm ==
    ASSUME NEW h, Heap(h), NEW o \in DOMAIN h, ~h[o].mutable,
           NEW x \in Reach(h, o)
    PROVE  x \in DOMAIN h /\ ~h[x].mutable
<1> DEFINE Good(y) == y \in DOMAIN h /\ ~h[y].mutable
<1>1. ASSUME NEW y, Good(y), NEW c \in Children(h[y])
      PROVE  Good(c)
  <2>1. Fits(h, h[y]) /\ Firm(h, h[y])
    BY <1>1 DEF Heap
  <2>2. QED
    BY <1>1, <2>1, PartsOf DEF Firm
<1>2. \/ x = o
      \/ x \in Children(h[o])
      \/ \E c \in Children(h[o]) : x \in Children(h[c])
  BY DEF Reach, ReachAll
<1>3. Good(o)
  OBVIOUS
<1>4. Good(x)
  <2> HIDE DEF Good
  <2>1. QED
    BY <1>1, <1>2, <1>3
<1>5. QED
  BY <1>4

\* Nothing immutable that is in both heaps has changed.
Keeps(h, g) ==
    \A o \in DOMAIN h \intersect DOMAIN g : ~h[o].mutable => g[o] = h[o]

\* g is h with changes to the attributes of mutable objects.
Edits(h, g) ==
    /\ Heap(g) /\ DOMAIN h \subseteq DOMAIN g
    /\ \A o \in DOMAIN h : /\ g[o].of = h[o].of /\ g[o].mutable = h[o].mutable
                           /\ ~h[o].mutable => g[o] = h[o]

\* A mutable object may hold any other parts of the right kinds.
LEMMA EditOne ==
    ASSUME NEW h, Heap(h), NEW x \in DOMAIN h, h[x].mutable,
           NEW r, Fits(h, r), r.of = h[x].of, r.mutable = h[x].mutable,
           NEW g, DOMAIN g = DOMAIN h, g[x] = r,
           \A o \in DOMAIN h \ {x} : g[o] = h[o]
    PROVE  Edits(h, g)
<1>1. \A o \in DOMAIN h : g[o].of = h[o].of /\ g[o].mutable = h[o].mutable
  OBVIOUS
<1>2. /\ \A o, of : Is(h, o, of) => Is(g, o, of)
      /\ \A s, of : AreAll(h, s, of) => AreAll(g, s, of)
  BY <1>1 DEF Is, AreAll
<1>3. \A q : Fits(h, q) => Fits(g, q)
  BY <1>2 DEF Fits, IsInput, IsWitness, IsTx
<1>4. ASSUME NEW q, Fits(h, q), Firm(h, q)
      PROVE  Firm(g, q)
  <2>1. Children(q) \subseteq DOMAIN h
    BY <1>4, PartsOf
  <2>2. QED
    BY <1>1, <1>4, <2>1 DEF Firm
<1>5. Firm(h, r)
  BY DEF Firm
<1>6. \A o \in DOMAIN h : Fits(h, g[o]) /\ Firm(h, g[o])
  BY <1>5 DEF Heap
<1>7. Heap(g)
  BY <1>3, <1>4, <1>6 DEF Heap
<1>8. QED
  BY <1>1, <1>7 DEF Edits

\* An immutable object whose parts are as before says what it said.
LEMMA SaysTheSame ==
    ASSUME NEW h, Heap(h), NEW g, Heap(g), Keeps(h, g),
           NEW o \in DOMAIN h \intersect DOMAIN g, ~h[o].mutable
    PROVE  Value(g, o) = Value(h, o)
<1> DEFINE Same(y) == /\ y \in DOMAIN h \intersect DOMAIN g
                      /\ ~h[y].mutable /\ g[y] = h[y]
<1>1. Same(o)
  BY DEF Keeps
<1>2. ASSUME NEW y, Same(y), NEW c \in Children(h[y])
      PROVE  Same(c)
  <2>1. Fits(h, h[y]) /\ Firm(h, h[y]) /\ Fits(g, h[y])
    BY <1>2 DEF Heap
  <2>2. c \in DOMAIN h /\ c \in DOMAIN g
    BY <2>1, PartsOf
  <2>3. ~h[c].mutable
    BY <1>2, <2>1 DEF Firm
  <2>4. QED
    BY <2>2, <2>3 DEF Keeps
<1> DEFINE r == h[o]
<1>3. g[o] = r /\ Fits(h, r) /\ \A c \in Children(r) : Same(c)
  <2> HIDE DEF Same
  <2>1. \A c \in Children(h[o]) : Same(c)
    BY <1>1, <1>2
  <2>2. QED
    BY <1>1, <2>1 DEF Heap, Same
<1> HIDE DEF r
<1>4. ASSUME NEW c, Same(c), IsInput(h, h[c])
      PROVE  Spends(g, c) = Spends(h, c)
  <2>1. Children(h[c]) = {h[c].prevout}
    BY <1>4, PartsOf DEF Heap
  <2>2. Same(h[c].prevout)
    <3> HIDE DEF Same
    <3>1. QED
      BY <1>2, <1>4, <2>1
  <2>3. QED
    BY <1>4, <2>2 DEF Spends, Datum
<1>5. ASSUME NEW c, Same(c), IsWitness(h, h[c])
      PROVE  Witnesses(g, c) = Witnesses(h, c)
  <2>1. Children(h[c]) = {h[c].vtxinwit[i] : i \in 1 .. Len(h[c].vtxinwit)}
    BY <1>5, PartsOf DEF Heap
  <2>2. \A i \in 1 .. Len(h[c].vtxinwit) : Same(h[c].vtxinwit[i])
    <3> HIDE DEF Same
    <3>1. QED
      BY <1>2, <1>5, <2>1
  <2>3. DOMAIN h[c].vtxinwit = 1 .. Len(h[c].vtxinwit)
    BY <1>5 DEF IsWitness, AreAll
  <2>4. \A i \in DOMAIN h[c].vtxinwit :
          Datum(g, h[c].vtxinwit[i]) = Datum(h, h[c].vtxinwit[i])
    BY <2>2, <2>3 DEF Datum
  <2>5. g[c] = h[c]
    BY <1>5
  <2>6. QED
    BY <2>4, <2>5 DEF Witnesses, Map
<1>6. CASE IsLeaf(r)
  BY <1>3, <1>6 DEF Value, IsLeaf, LeafKinds, r
<1>7. CASE IsInput(h, r)
  <2>1. Spends(g, o) = Spends(h, o)
    BY <1>1, <1>4, <1>7 DEF r
  <2>2. QED
    BY <1>3, <1>7, <2>1 DEF Value, IsInput, r
<1>8. CASE IsWitness(h, r)
  <2>1. Witnesses(g, o) = Witnesses(h, o)
    BY <1>1, <1>5, <1>8 DEF r
  <2>2. QED
    BY <1>3, <1>8, <2>1 DEF Value, IsWitness, r
<1>9. CASE IsTx(h, r)
  <2>1. Children(r) = {r.vin[i] : i \in 1 .. Len(r.vin)}
          \union {r.vout[i] : i \in 1 .. Len(r.vout)} \union {r.wit}
    BY <1>3, <1>9, PartsOf
  <2>2. DOMAIN r.vin = 1 .. Len(r.vin) /\ DOMAIN r.vout = 1 .. Len(r.vout)
    BY <1>9 DEF IsTx, AreAll
  <2>3. \A i \in DOMAIN r.vin : Spends(g, r.vin[i]) = Spends(h, r.vin[i])
    <3>1. ASSUME NEW i \in DOMAIN r.vin
          PROVE  Spends(g, r.vin[i]) = Spends(h, r.vin[i])
      <4>1. Same(r.vin[i]) /\ Is(h, r.vin[i], "input")
        <5> HIDE DEF Same
        <5>1. QED
          BY <1>3, <1>9, <2>1, <2>2 DEF IsTx, AreAll
      <4>2. IsInput(h, h[r.vin[i]])
        BY <4>1 DEF Heap, Is, Fits, IsLeaf, LeafKinds, IsWitness, IsTx
      <4>3. QED
        BY <1>4, <4>1, <4>2
    <3>2. QED
      BY <3>1
  <2>4. \A i \in DOMAIN r.vout : Datum(g, r.vout[i]) = Datum(h, r.vout[i])
    BY <1>3, <2>1, <2>2 DEF Datum
  <2>5. Witnesses(g, r.wit) = Witnesses(h, r.wit)
    <3>1. Same(r.wit) /\ Is(h, r.wit, "witness")
      <4> HIDE DEF Same
      <4>1. QED
        BY <1>3, <1>9, <2>1 DEF IsTx
    <3>2. IsWitness(h, h[r.wit])
      BY <3>1 DEF Heap, Is, Fits, IsLeaf, LeafKinds, IsInput, IsTx
    <3>3. QED
      BY <1>5, <3>1, <3>2
  <2>6. Map(g, Spends, r.vin) = Map(h, Spends, r.vin)
    BY <2>3 DEF Map
  <2>7. Map(g, Datum, r.vout) = Map(h, Datum, r.vout)
    BY <2>4 DEF Map
  <2>8. r.of = "transaction"
    BY <1>9 DEF IsTx
  <2>9. QED
    BY <1>3, <2>5, <2>6, <2>7, <2>8 DEF Value, r
<1>10. QED
  BY <1>3, <1>6, <1>7, <1>8, <1>9 DEF Fits

-----------------------------------------------------------------------------
(* Writing and reading.                                                      *)

\* A function on 1 .. n is a list.
LEMMA ListOf ==
    ASSUME NEW S, NEW n \in Nat, NEW f, f = [i \in 1 .. n |-> f[i]],
           \A i \in 1 .. n : f[i] \in S
    PROVE  f \in Seq(S) /\ Len(f) = n
OBVIOUS

\* The values of a list of objects, as fields, are a list.
LEMMA FieldsAreList ==
    ASSUME NEW of, NEW n \in Nat, NEW values, values = [i \in 1 .. n |-> values[i]]
    PROVE  \E S : Fields(of, values) \in Seq(S)
<1> DEFINE f == Fields(of, values)
           S == {f[i] : i \in 1 .. n + 1}
<1>1. Len(values) = n
  OBVIOUS
<1>2. f = [i \in 1 .. n + 1 |-> f[i]]
  BY <1>1 DEF Fields
<1>3. f \in Seq(S)
  <2> HIDE DEF f
  <2>1. QED
    BY <1>2, ListOf
<1>4. QED
  BY <1>3

LEMMA JoinedLists ==
    ASSUME NEW a, NEW b, NEW S, NEW T, a \in Seq(S), b \in Seq(T)
    PROVE  a \o b \in Seq(S \union T)
<1>1. a \in Seq(S \union T) /\ b \in Seq(S \union T)
  OBVIOUS
<1>2. QED
  BY <1>1

\* The bytes of a transaction are a list of fields.
LEMMA WrittenIsList ==
    ASSUME NEW h, Heap(h), NEW o, Is(h, o, "transaction"), NEW include_witness,
           NEW b \in Write(h, o, include_witness)
    PROVE  \E S : b \in Seq(S)
<1> DEFINE v    == Value(h, o)
           ins  == Fields("input", v[1])
           outs == Fields("output", v[2])
           body == ins \o outs
           wit  == [i \in DOMAIN v[3] |-> <<"inwit", v[3][i]>>]
           head == <<Count(0), Count(1)>>
<1>1. b = body \/ b = head \o body \o wit
  BY DEF Write
<1> DEFINE r == h[o]
<1>2. AreAll(h, r.vin, "input") /\ AreAll(h, r.vout, "output") /\ Is(h, r.wit, "witness")
  BY TxParts
<1>3. v = <<Map(h, Spends, r.vin), Map(h, Datum, r.vout), Witnesses(h, r.wit)>>
  BY DEF Value, Is
<1>4. \E S : ins \in Seq(S)
  <2> DEFINE s == Map(h, Spends, r.vin)
             n == Len(r.vin)
  <2>1. s = [i \in 1 .. n |-> s[i]] /\ n \in Nat
    BY <1>2 DEF AreAll, Map
  <2>2. v[1] = s
    BY <1>3
  <2> HIDE DEF s, n, v
  <2>3. QED
    BY <2>1, <2>2, FieldsAreList
<1>5. \E S : outs \in Seq(S)
  <2> DEFINE s == Map(h, Datum, r.vout)
             n == Len(r.vout)
  <2>1. s = [i \in 1 .. n |-> s[i]] /\ n \in Nat
    BY <1>2 DEF AreAll, Map
  <2>2. v[2] = s
    BY <1>3
  <2> HIDE DEF s, n, v
  <2>3. QED
    BY <2>1, <2>2, FieldsAreList
<1>6. \E S : wit \in Seq(S)
  <2> DEFINE w == h[r.wit].vtxinwit
             n == Len(w)
             S == {wit[i] : i \in 1 .. n}
  <2>1. Fits(h, h[r.wit]) /\ h[r.wit].of = "witness"
    BY <1>2 DEF Is, Heap
  <2>2. n \in Nat /\ DOMAIN w = 1 .. n
    BY <2>1 DEF Fits, IsLeaf, LeafKinds, IsInput, IsTx, IsWitness, AreAll
  <2>3. v[3] = Witnesses(h, r.wit)
    BY <1>3
  <2>4. DOMAIN v[3] = 1 .. n
    BY <2>2, <2>3 DEF Witnesses, Map
  <2>5. wit = [i \in 1 .. n |-> wit[i]]
    <3> HIDE DEF v, n
    <3>1. QED
      BY <2>4
  <2>6. wit \in Seq(S)
    <3> HIDE DEF wit, n
    <3>1. QED
      BY <2>2, <2>5, ListOf
  <2>7. QED
    BY <2>6
<1>7. \E S : head \in Seq(S)
  <2>1. head \in Seq({Count(0), Count(1)})
    OBVIOUS
  <2>2. QED
    BY <2>1
<1> HIDE DEF ins, outs, wit, head
<1>8. \E S : body \in Seq(S)
  BY <1>4, <1>5, JoinedLists
<1> HIDE DEF body
<1>9. \E S : head \o body \in Seq(S)
  BY <1>7, <1>8, JoinedLists
<1>10. \E S : head \o body \o wit \in Seq(S)
  BY <1>6, <1>9, JoinedLists
<1>11. QED
  BY <1>1, <1>8, <1>10

\* What is read of a list is three lists.
LEMMA ReadIsLists ==
    ASSUME NEW S, NEW b \in Seq(S), NEW v \in Read(b)
    PROVE  Len(v[1]) \in Nat /\ Len(v[2]) \in Nat /\ Len(v[3]) \in Nat
<1> DEFINE flag == IF Len(b) > 1 /\ b[1] = Count(0) /\ b[2][1] = "count"
                   THEN b[2][2] ELSE 0
           at   == IF flag = 0 THEN 1 ELSE 3
           said(fields) == [i \in DOMAIN fields |-> fields[i][2]]
           rest(ins, outs) == SubSeq(b, at + Len(ins \o outs) + 2, Len(b))
           parts == UNION {{<<ins, outs, rest(ins, outs)>> :
                              outs \in Vector(b, at + Len(ins) + 1, "output")} :
                             ins \in Vector(b, at, "input")}
<1>1. PICK p \in parts : v = <<said(p[1]), said(p[2]), said(p[3])>>
  BY DEF Read
<1>2. PICK ins \in Vector(b, at, "input") :
        \E outs \in Vector(b, at + Len(ins) + 1, "output") :
          p = <<ins, outs, rest(ins, outs)>>
  BY <1>1
<1>3. PICK outs \in Vector(b, at + Len(ins) + 1, "output") :
        p = <<ins, outs, rest(ins, outs)>>
  BY <1>2
<1>4. at \in 1 .. 3
  <2> HIDE DEF flag
  <2>1. QED
    OBVIOUS
<1> HIDE DEF at
<1>5. ASSUME NEW i \in Nat, i >= 1, NEW of, NEW x \in Vector(b, i, of)
      PROVE  x \in Seq(S) /\ Len(x) \in Nat /\ i + Len(x) <= Len(b)
  <2>1. PICK n \in 0 .. Len(b) - i : x = SubSeq(b, i + 1, i + n)
    BY <1>5 DEF Vector
  <2>2. Len(b) \in Nat /\ \A j \in i + 1 .. i + n : b[j] \in S
    BY <1>5
  <2>3. x \in Seq(S) /\ Len(x) = n
    BY <1>5, <2>1, <2>2, SubSeqProperties
  <2>4. QED
    BY <1>5, <2>1, <2>2, <2>3
<1>6. ins \in Seq(S) /\ Len(ins) \in Nat /\ at + Len(ins) <= Len(b)
  BY <1>4, <1>5
<1>7. outs \in Seq(S) /\ Len(outs) \in Nat /\ at + Len(ins) + 1 + Len(outs) <= Len(b)
  <2>1. at + Len(ins) + 1 \in Nat /\ at + Len(ins) + 1 >= 1
    BY <1>4, <1>6
  <2>2. QED
    BY <1>5, <2>1
<1>8. rest(ins, outs) \in Seq(S)
  <2>1. Len(ins \o outs) = Len(ins) + Len(outs)
    BY <1>6, <1>7
  <2> DEFINE m == at + Len(ins \o outs) + 2
  <2>2. m \in Int /\ m >= 1 /\ Len(b) \in Int
    BY <1>4, <1>6, <1>7, <2>1
  <2> HIDE DEF m
  <2>3. \A j \in m .. Len(b) : b[j] \in S
    BY <2>2
  <2>4. SubSeq(b, m, Len(b)) \in Seq(S)
    BY <2>2, <2>3, SubSeqProperties
  <2>5. QED
    BY <2>4 DEF m
<1> HIDE DEF rest
<1>9. p[1] \in Seq(S) /\ p[2] \in Seq(S) /\ p[3] \in Seq(S)
  BY <1>3, <1>6, <1>7, <1>8
<1>10. ASSUME NEW s \in Seq(S)
       PROVE  Len(said(s)) \in Nat
  <2>1. DOMAIN s = 1 .. Len(s) /\ Len(s) \in Nat
    OBVIOUS
  <2>2. said(s) = [i \in 1 .. Len(s) |-> s[i][2]]
    BY <2>1
  <2>3. QED
    BY <2>1, <2>2
<1> HIDE DEF said
<1>11. QED
  BY <1>1, <1>9, <1>10

\* A count and that many fields of a kind ...
HoldsVector(S, b, i, n, of) ==
    /\ b \in Seq(S) /\ i \in Nat /\ i >= 1 /\ n \in Nat
    /\ i + n <= Len(b) /\ b[i] = Count(n)
    /\ \A j \in 1 .. n : b[i + j][1] = of

\* ... are read as those fields, and as nothing else.
LEMMA VectorIs ==
    ASSUME NEW S, NEW b, NEW i, NEW n, NEW of, HoldsVector(S, b, i, n, of)
    PROVE  /\ Vector(b, i, of) = {SubSeq(b, i + 1, i + n)}
           /\ SubSeq(b, i + 1, i + n) = [j \in 1 .. n |-> b[i + j]]
<1>0. /\ b \in Seq(S) /\ i \in Nat /\ i >= 1 /\ n \in Nat
      /\ i + n <= Len(b) /\ b[i] = Count(n)
      /\ \A j \in 1 .. n : b[i + j][1] = of
  BY DEF HoldsVector
<1> DEFINE N == Len(b)
           sub(k) == SubSeq(b, i + 1, i + k)
<1>1. N \in Nat /\ \A j \in 1 .. N : b[j] \in S
  BY <1>0
<1>2. ASSUME NEW k \in 0 .. N - i
      PROVE  /\ sub(k) \in Seq(S) /\ Len(sub(k)) = k
             /\ \A j \in 1 .. k : sub(k)[j] = b[i + j]
  <2>1. i + 1 \in Int /\ i + k \in Int /\ \A j \in i + 1 .. i + k : b[j] \in S
    BY <1>0, <1>1
  <2>2. /\ sub(k) \in Seq(S)
        /\ Len(sub(k)) = IF i + 1 <= i + k THEN (i + k) - (i + 1) + 1 ELSE 0
        /\ \A j \in 1 .. (i + k) - (i + 1) + 1 : sub(k)[j] = b[(i + 1) + j - 1]
    BY <1>0, <2>1, SubSeqProperties
  <2>3. k \in Nat /\ (i + k) - (i + 1) + 1 = k
    BY <1>0, <1>1
  <2>4. \A j \in 1 .. k : (i + 1) + j - 1 = i + j
    BY <1>0, <2>3
  <2> HIDE DEF sub, N
  <2>5. QED
    BY <1>0, <2>2, <2>3, <2>4
<1>3. n \in 0 .. N - i
  BY <1>0, <1>1
<1>4. ASSUME NEW x \in Vector(b, i, of)
      PROVE  x = sub(n)
  <2>1. PICK k \in 0 .. N - i : x = sub(k)
    BY <1>0, <1>4 DEF Vector
  <2>2. Count(n) = Count(Len(x))
    BY <1>0, <1>4 DEF Vector
  <2>3. Len(x) = n
    BY <1>0, <2>2 DEF Count
  <2>4. Len(x) = k
    BY <1>0, <1>2, <2>1
  <2>5. QED
    BY <1>0, <2>1, <2>3, <2>4
<1>5. sub(n) \in Vector(b, i, of)
  <2>1. Len(sub(n)) = n /\ \A j \in 1 .. n : sub(n)[j] = b[i + j]
    BY <1>0, <1>2, <1>3
  <2>2. sub(n) \in Seq(S)
    BY <1>0, <1>2, <1>3
  <2> HIDE DEF sub
  <2>3. DOMAIN sub(n) = 1 .. n
    BY <1>0, <2>1, <2>2
  <2>4. ASSUME NEW f \in ToSet(sub(n)) PROVE f[1] = of
    <3>1. PICK j \in 1 .. n : f = sub(n)[j]
      BY <1>0, <2>3, <2>4 DEF ToSet
    <3>2. b[i + j][1] = of
      BY <1>0
    <3>3. QED
      BY <1>0, <2>1, <3>1, <3>2
  <2>5. sub(n) \in {sub(k) : k \in 0 .. N - i}
    BY <1>0, <1>3
  <2>6. i <= N
    BY <1>0, <1>1, <1>3
  <2>7. sub(n) \in {SubSeq(b, i + 1, i + k) : k \in 0 .. Len(b) - i}
    BY <1>0, <2>5 DEF sub
  <2>8. b[i] = Count(Len(sub(n)))
    BY <1>0, <2>1
  <2>9. QED
    BY <1>0, <2>4, <2>6, <2>7, <2>8 DEF Vector
<1>6. sub(n) = [j \in 1 .. n |-> b[i + j]]
  <2>1. sub(n) \in Seq(S) /\ Len(sub(n)) = n /\ \A j \in 1 .. n : sub(n)[j] = b[i + j]
    BY <1>0, <1>2, <1>3
  <2> HIDE DEF sub
  <2>2. QED
    BY <1>0, <2>1
<1> HIDE DEF sub
<1>7. Vector(b, i, of) = {sub(n)}
  BY <1>0, <1>4, <1>5
<1>8. QED
  BY <1>0, <1>6, <1>7 DEF sub

\* A list of fields that holds inputs, outputs and witnesses where they belong,
\* from a field on, ...
Layout(b, at, n1, V1, n2, V2, n3, V3) ==
    /\ V1 = [i \in 1 .. n1 |-> V1[i]] /\ V2 = [i \in 1 .. n2 |-> V2[i]]
    /\ V3 = [i \in 1 .. n3 |-> V3[i]]
    /\ Len(b) = at + n1 + n2 + 1 + n3
    /\ b[at] = Count(n1) /\ b[at + n1 + 1] = Count(n2)
    /\ \A i \in 1 .. n1 : b[at + i] = <<"input", V1[i]>>
    /\ \A i \in 1 .. n2 : b[at + n1 + 1 + i] = <<"output", V2[i]>>
    /\ \A i \in 1 .. n3 : b[at + n1 + n2 + 1 + i] = <<"inwit", V3[i]>>

\* ... with the marker before it or not, ...
Marked(b, at, n1, n3, V3) ==
    /\ at = 1 => n1 # 0 /\ n3 = 0
    /\ at = 3 => /\ b[1] = Count(0) /\ b[2] = Count(1) /\ n3 = n1
                 /\ \E i \in 1 .. n3 : V3[i] # "empty"

\* ... is read as those, and as nothing else.
LEMMA ReadsBack ==
    ASSUME NEW S, NEW b \in Seq(S), NEW at \in {1, 3},
           NEW n1 \in Nat, NEW n2 \in Nat, NEW n3 \in Nat,
           NEW V1, NEW V2, NEW V3,
           Layout(b, at, n1, V1, n2, V2, n3, V3), Marked(b, at, n1, n3, V3)
    PROVE  Read(b) = {<<V1, V2, V3>>}
<1> DEFINE flag == IF Len(b) > 1 /\ b[1] = Count(0) /\ b[2][1] = "count"
                   THEN b[2][2] ELSE 0
           here == IF flag = 0 THEN 1 ELSE 3
           said(fields) == [i \in DOMAIN fields |-> fields[i][2]]
           rest(ins, outs) == SubSeq(b, here + Len(ins \o outs) + 2, Len(b))
           parts == UNION {{<<ins, outs, rest(ins, outs)>> :
                              outs \in Vector(b, here + Len(ins) + 1, "output")} :
                             ins \in Vector(b, here, "input")}
           good == {q \in parts :
                      /\ flag \in {0, 1}
                      /\ Len(q[3]) = IF flag = 1 THEN Len(q[1]) ELSE 0
                      /\ flag = 1 => \E f \in ToSet(q[3]) : f # <<"inwit", "empty">>}
           I == SubSeq(b, at + 1, at + n1)
           O == SubSeq(b, at + n1 + 2, at + n1 + 1 + n2)
           W == SubSeq(b, at + n1 + n2 + 2, Len(b))
<1>1. Read(b) = {<<said(p[1]), said(p[2]), said(p[3])>> : p \in good}
  BY DEF Read
<1>0. /\ at \in Nat /\ at >= 1 /\ Len(b) \in Nat
      /\ Len(b) = at + n1 + n2 + 1 + n3
      /\ \A j \in 1 .. Len(b) : b[j] \in S
  BY DEF Layout
<1>2. flag = IF at = 1 THEN 0 ELSE 1
  <2>1. CASE at = 1
    <3>1. b[1] # Count(0)
      BY <2>1 DEF Count, Layout, Marked
    <3>2. QED
      BY <2>1, <3>1
  <2>2. CASE at = 3
    <3>1. Len(b) > 1
      BY <1>0, <2>2
    <3>2. b[1] = Count(0) /\ b[2][1] = "count" /\ b[2][2] = 1
      BY <2>2 DEF Count, Marked
    <3>3. QED
      BY <2>2, <3>1, <3>2
  <2>3. QED
    BY <2>1, <2>2
<1> HIDE DEF flag
<1>3. here = at
  BY <1>2
<1> HIDE DEF here
<1>4. /\ Vector(b, at, "input") = {I}
      /\ I = [j \in 1 .. n1 |-> b[at + j]]
  <2>1. at + n1 <= Len(b)
    BY <1>0
  <2>2. b[at] = Count(n1) /\ \A j \in 1 .. n1 : b[at + j][1] = "input"
    BY SMTT(30) DEF Layout
  <2>3. HoldsVector(S, b, at, n1, "input")
    BY <1>0, <2>1, <2>2 DEF HoldsVector
  <2> DEFINE i == at
  <2>4. HoldsVector(S, b, i, n1, "input")
    BY <2>3
  <2> HIDE DEF i, I
  <2>5. /\ Vector(b, i, "input") = {SubSeq(b, i + 1, i + n1)}
        /\ SubSeq(b, i + 1, i + n1) = [j \in 1 .. n1 |-> b[i + j]]
    BY <2>4, VectorIs
  <2>6. QED
    BY <2>5 DEF i, I
<1>5. /\ Vector(b, at + n1 + 1, "output") = {O}
      /\ O = [j \in 1 .. n2 |-> b[at + n1 + 1 + j]]
  <2> DEFINE i == at + n1 + 1
  <2>1. i \in Nat /\ i >= 1 /\ i + n2 <= Len(b)
    BY <1>0
  <2>2. i + 1 = at + n1 + 2 /\ i + n2 = at + n1 + 1 + n2
    BY <1>0
  <2>3. b[i] = Count(n2) /\ \A j \in 1 .. n2 : b[i + j][1] = "output"
    BY DEF Layout
  <2> HIDE DEF i
  <2>4. /\ Vector(b, i, "output") = {SubSeq(b, i + 1, i + n2)}
        /\ SubSeq(b, i + 1, i + n2) = [j \in 1 .. n2 |-> b[i + j]]
    <3>1. HoldsVector(S, b, i, n2, "output")
      BY <2>1, <2>3 DEF HoldsVector
    <3>2. QED
      BY <3>1, VectorIs
  <2>5. QED
    BY <2>2, <2>4 DEF i
<1>6. W = [j \in 1 .. n3 |-> b[at + n1 + n2 + 1 + j]]
  <2> DEFINE m == at + n1 + n2 + 2
             n == Len(b)
  <2>1. m \in Int /\ n \in Int /\ n - m + 1 = n3 /\ \A j \in m .. n : b[j] \in S
    BY <1>0
  <2>2. \A j \in 1 .. n3 : m + j - 1 = at + n1 + n2 + 1 + j
    BY <1>0
  <2> HIDE DEF m, n
  <2>3. /\ SubSeq(b, m, n) \in Seq(S)
        /\ Len(SubSeq(b, m, n)) = IF m <= n THEN n - m + 1 ELSE 0
        /\ \A i \in 1 .. n - m + 1 : SubSeq(b, m, n)[i] = b[m + i - 1]
    BY <2>1, SubSeqProperties
  <2>4. Len(SubSeq(b, m, n)) = n3
    BY <2>1, <2>3
  <2>5. W = SubSeq(b, m, n)
    BY DEF m, n
  <2> HIDE DEF W
  <2>6. W \in Seq(S) /\ Len(W) = n3
    BY <2>3, <2>4, <2>5
  <2>7. \A i \in 1 .. n3 : W[i] = b[at + n1 + n2 + 1 + i]
    BY <2>1, <2>2, <2>3, <2>5
  <2>8. QED
    BY <2>6, <2>7
<1>7. Len(I) = n1 /\ Len(O) = n2 /\ Len(W) = n3
  <2> HIDE DEF I, O, W
  <2>1. QED
    BY <1>4, <1>5, <1>6
<1>8. said(I) = V1
  <2> HIDE DEF I
  <2>1. DOMAIN I = 1 .. n1 /\ \A i \in 1 .. n1 : I[i][2] = V1[i]
    BY <1>4 DEF Layout
  <2>2. QED
    BY <2>1 DEF Layout
<1>9. said(O) = V2
  <2> HIDE DEF O
  <2>1. DOMAIN O = 1 .. n2 /\ \A i \in 1 .. n2 : O[i][2] = V2[i]
    BY <1>5 DEF Layout
  <2>2. QED
    BY <2>1 DEF Layout
<1>10. said(W) = V3
  <2> HIDE DEF W
  <2>1. DOMAIN W = 1 .. n3 /\ \A i \in 1 .. n3 : W[i][2] = V3[i]
    BY <1>6, SMTT(30) DEF Layout
  <2>2. QED
    BY <2>1 DEF Layout
<1>11. Len(I \o O) = n1 + n2
  <2>1. I \in Seq(S) /\ O \in Seq(S)
    <3>1. /\ \A j \in 1 .. n1 : b[at + j] \in S
          /\ \A j \in 1 .. n2 : b[at + n1 + 1 + j] \in S
      BY <1>0
    <3> HIDE DEF I, O
    <3>2. I \in Seq(S)
      BY <1>4, <3>1
    <3>3. O \in Seq(S)
      BY <1>5, <3>1
    <3>4. QED
      BY <3>2, <3>3
  <2> HIDE DEF I, O
  <2>2. QED
    BY <1>7, <2>1
<1>12. rest(I, O) = W
  <2> HIDE DEF I, O
  <2>1. here + Len(I \o O) + 2 = at + n1 + n2 + 2
    BY <1>0, <1>3, <1>11
  <2>2. QED
    BY <2>1
<1>13. parts = {<<I, O, W>>}
  <2> HIDE DEF I, O, W, rest
  <2>1. Vector(b, here, "input") = {I} /\ Vector(b, here + Len(I) + 1, "output") = {O}
    BY <1>3, <1>4, <1>5, <1>7
  <2>2. QED
    BY <1>12, <2>1
<1>14. <<I, O, W>> \in good
  <2>1. Len(W) = IF flag = 1 THEN Len(I) ELSE 0
    <3> HIDE DEF W, I
    <3>1. QED
      BY <1>2, <1>7 DEF Marked
  <2>2. ASSUME flag = 1 PROVE \E f \in ToSet(W) : f # <<"inwit", "empty">>
    <3>1. PICK i \in 1 .. n3 : V3[i] # "empty"
      BY <1>2, <2>2 DEF Marked
    <3> HIDE DEF W
    <3>2. W[i] = <<"inwit", V3[i]>> /\ i \in DOMAIN W
      BY <1>6 DEF Layout
    <3>3. QED
      BY <3>1, <3>2 DEF ToSet
  <2>3. flag \in {0, 1}
    BY <1>2
  <2> DEFINE q == <<I, O, W>>
  <2>4. q[1] = I /\ q[3] = W
    OBVIOUS
  <2>5. q \in parts
    <3> HIDE DEF parts
    <3>1. QED
      BY <1>13
  <2> HIDE DEF I, W, q, parts
  <2>6. q \in good
    BY <2>1, <2>2, <2>3, <2>4, <2>5
  <2>7. QED
    BY <2>6 DEF q
<1>15. good = {<<I, O, W>>}
  <2>1. good \subseteq parts
    OBVIOUS
  <2> HIDE DEF good, parts, I, O, W
  <2>2. QED
    BY <1>13, <1>14, <2>1
<1> DEFINE q == <<I, O, W>>
<1>16. q[1] = I /\ q[2] = O /\ q[3] = W
  OBVIOUS
<1> HIDE DEF good, I, O, W, said, q
<1>17. good = {q}
  BY <1>15 DEF q
<1>18. Read(b) = {<<said(q[1]), said(q[2]), said(q[3])>>}
  BY <1>1, <1>17
<1>19. QED
  BY <1>8, <1>9, <1>10, <1>16, <1>18

\* A list of n values.
Lists(n, V) == n \in Nat /\ V = [i \in 1 .. n |-> V[i]]

\* A count and the values after it.
LEMMA FieldsAre ==
    ASSUME NEW of, NEW n, NEW values, Lists(n, values)
    PROVE  /\ \E S : Fields(of, values) \in Seq(S)
           /\ Len(Fields(of, values)) = n + 1 /\ Fields(of, values)[1] = Count(n)
           /\ \A i \in 1 .. n : Fields(of, values)[i + 1] = <<of, values[i]>>
<1> DEFINE f == Fields(of, values)
<1>0. n \in Nat /\ values = [i \in 1 .. n |-> values[i]]
  BY DEF Lists
<1>1. Len(values) = n
  BY <1>0
<1>9. \E S : f \in Seq(S)
  BY <1>0, FieldsAreList
<1>2. f = [i \in 1 .. n + 1 |->
             IF i = 1 THEN Count(n) ELSE <<of, values[i - 1]>>]
  BY <1>1 DEF Fields
<1>3. 1 \in 1 .. n + 1 /\ \A i \in 1 .. n : i + 1 \in 1 .. n + 1 /\ i + 1 # 1
  BY <1>0
<1>4. \A i \in 1 .. n : (i + 1) - 1 = i
  BY <1>0
<1>5. DOMAIN f = 1 .. n + 1
  BY <1>2
<1>6. Len(f) = n + 1
  <2> HIDE DEF f
  <2>1. QED
    BY <1>0, <1>2
<1>7. f[1] = Count(n) /\ \A i \in 1 .. n : f[i + 1] = <<of, values[i]>>
  <2> HIDE DEF f
  <2>1. QED
    BY <1>2, <1>3, <1>4
<1>8. QED
  BY <1>6, <1>7, <1>9

\* What is in a list made of two.
LEMMA Joined ==
    ASSUME NEW S, NEW T, NEW a \in Seq(S), NEW b \in Seq(T)
    PROVE  /\ a \o b \in Seq(S \union T) /\ Len(a \o b) = Len(a) + Len(b)
           /\ \A i \in 1 .. Len(a) : (a \o b)[i] = a[i]
           /\ \A i \in 1 .. Len(b) : (a \o b)[Len(a) + i] = b[i]
BY JoinedLists

LEMMA LenOfList ==
    ASSUME NEW n, NEW V, Lists(n, V)
    PROVE  Len(V) = n
BY DEF Lists

Body(V1, V2) == Fields("input", V1) \o Fields("output", V2)

\* Inputs and outputs without witnesses, ...
LEMMA BodyIsLaid ==
    ASSUME NEW n1, NEW n2, NEW V1, NEW V2, Lists(n1, V1), Lists(n2, V2)
    PROVE  /\ \E S : Body(V1, V2) \in Seq(S)
           /\ Layout(Body(V1, V2), 1, n1, V1, n2, V2, 0, <<>>)
<1> DEFINE f == Fields("input", V1)
           g == Fields("output", V2)
           b == f \o g
<1>0. n1 \in Nat /\ n2 \in Nat
  BY DEF Lists
<1>1. /\ Len(f) = n1 + 1 /\ f[1] = Count(n1)
      /\ \A i \in 1 .. n1 : f[i + 1] = <<"input", V1[i]>>
  BY FieldsAre
<1>2. /\ Len(g) = n2 + 1 /\ g[1] = Count(n2)
      /\ \A i \in 1 .. n2 : g[i + 1] = <<"output", V2[i]>>
  BY FieldsAre
<1>3. PICK S : f \in Seq(S)
  BY FieldsAre
<1>4. PICK T : g \in Seq(T)
  BY FieldsAre
<1> HIDE DEF f, g
<1>5. /\ b \in Seq(S \union T) /\ Len(b) = Len(f) + Len(g)
      /\ \A i \in 1 .. Len(f) : b[i] = f[i]
      /\ \A i \in 1 .. Len(g) : b[Len(f) + i] = g[i]
  BY <1>3, <1>4, Joined
<1> HIDE DEF b
<1>6. Len(b) = 1 + n1 + n2 + 1
  BY <1>0, <1>1, <1>2, <1>5
<1>7. b[1] = Count(n1)
  BY <1>0, <1>1, <1>5
<1>8. b[1 + n1 + 1] = Count(n2)
  <2>1. 1 \in 1 .. Len(g) /\ Len(f) + 1 = 1 + n1 + 1
    BY <1>0, <1>1, <1>2
  <2>2. b[Len(f) + 1] = g[1]
    BY <1>5, <2>1
  <2>3. QED
    BY <1>0, <1>2, <2>1, <2>2
<1>9. \A i \in 1 .. n1 : b[1 + i] = <<"input", V1[i]>>
  <2> TAKE i \in 1 .. n1
  <2>1. i + 1 \in 1 .. Len(f) /\ i + 1 = 1 + i
    BY <1>0, <1>1
  <2>2. QED
    BY <1>0, <1>1, <1>5, <2>1
<1>10. \A i \in 1 .. n2 : b[1 + n1 + 1 + i] = <<"output", V2[i]>>
  <2> TAKE i \in 1 .. n2
  <2>1. i + 1 \in 1 .. Len(g) /\ Len(f) + (i + 1) = 1 + n1 + 1 + i
    BY <1>0, <1>1, <1>2
  <2>2. b[Len(f) + (i + 1)] = g[i + 1]
    BY <1>5, <2>1
  <2>3. QED
    BY <1>0, <1>2, <2>1, <2>2
<1>11. Layout(b, 1, n1, V1, n2, V2, 0, <<>>)
  <2>1. <<>> = [i \in 1 .. 0 |-> <<>>[i]]
    OBVIOUS
  <2>2. Len(b) = 1 + n1 + n2 + 1 + 0
    BY <1>6
  <2>3. \A i \in 1 .. 0 : b[1 + n1 + n2 + 1 + i] = <<"inwit", <<>>[i]>>
    OBVIOUS
  <2>4. QED
    BY <1>7, <1>8, <1>9, <1>10, <2>1, <2>2, <2>3 DEF Layout, Lists
<1>12. QED
  BY <1>5, <1>11 DEF b, f, g, Body

Witnessed(V1, V2, V3) ==
    <<Count(0), Count(1)>> \o Body(V1, V2)
      \o [i \in DOMAIN V3 |-> <<"inwit", V3[i]>>]

\* ... and with them, after the marker and the flag, are laid out so.
LEMMA WitnessedIsLaid ==
    ASSUME NEW n1, NEW n2, NEW n3, NEW V1, NEW V2, NEW V3,
           Lists(n1, V1), Lists(n2, V2), Lists(n3, V3)
    PROVE  /\ \E S : Witnessed(V1, V2, V3) \in Seq(S)
           /\ Layout(Witnessed(V1, V2, V3), 3, n1, V1, n2, V2, n3, V3)
           /\ Witnessed(V1, V2, V3)[1] = Count(0)
           /\ Witnessed(V1, V2, V3)[2] = Count(1)
<1> DEFINE head == <<Count(0), Count(1)>>
           body == Body(V1, V2)
           wit  == [i \in DOMAIN V3 |-> <<"inwit", V3[i]>>]
           a    == head \o body
           b    == a \o wit
<1>0. n1 \in Nat /\ n2 \in Nat /\ n3 \in Nat /\ DOMAIN V3 = 1 .. n3
  <2>1. n3 \in Nat /\ V3 = [i \in 1 .. n3 |-> V3[i]]
    BY DEF Lists
  <2>2. DOMAIN V3 = 1 .. n3
    BY ONLY <2>1
  <2>3. QED
    BY <2>1, <2>2 DEF Lists
<1>1. PICK S : body \in Seq(S)
  BY BodyIsLaid
<1>2. Layout(body, 1, n1, V1, n2, V2, 0, <<>>)
  BY BodyIsLaid
<1>4. wit = [i \in 1 .. n3 |-> <<"inwit", V3[i]>>]
  BY <1>0
<1>5. /\ head \in Seq({Count(0), Count(1)}) /\ Len(head) = 2
      /\ head[1] = Count(0) /\ head[2] = Count(1)
  OBVIOUS
<1> HIDE DEF head, body, wit
<1>3. wit \in Seq({wit[i] : i \in 1 .. n3}) /\ Len(wit) = n3
  BY <1>0, <1>4
<1>6. PICK T : wit \in Seq(T)
  BY <1>3
<1>7. /\ a \in Seq({Count(0), Count(1)} \union S)
      /\ Len(a) = 2 + Len(body)
      /\ \A i \in 1 .. 2 : a[i] = head[i]
      /\ \A i \in 1 .. Len(body) : a[2 + i] = body[i]
  <2> DEFINE H == {Count(0), Count(1)}
  <2>1. head \in Seq(H) /\ Len(head) = 2
    BY <1>5
  <2> HIDE DEF H
  <2>2. /\ head \o body \in Seq(H \union S)
        /\ Len(head \o body) = Len(head) + Len(body)
        /\ \A i \in 1 .. Len(head) : (head \o body)[i] = head[i]
        /\ \A i \in 1 .. Len(body) : (head \o body)[Len(head) + i] = body[i]
    <3>1. head \in Seq(H)
      BY <2>1
    <3>2. QED
      BY <1>1, <3>1, Joined
  <2>3. QED
    BY <2>1, <2>2 DEF H
<1> HIDE DEF a
<1>8. /\ \E U : b \in Seq(U)
      /\ Len(b) = Len(a) + Len(wit)
      /\ \A i \in 1 .. Len(a) : b[i] = a[i]
      /\ \A i \in 1 .. Len(wit) : b[Len(a) + i] = wit[i]
  <2> DEFINE H == {Count(0), Count(1)} \union S
  <2>1. a \in Seq(H)
    BY <1>7
  <2> HIDE DEF H
  <2>2. /\ a \o wit \in Seq(H \union T)
        /\ Len(a \o wit) = Len(a) + Len(wit)
        /\ \A i \in 1 .. Len(a) : (a \o wit)[i] = a[i]
        /\ \A i \in 1 .. Len(wit) : (a \o wit)[Len(a) + i] = wit[i]
    BY <1>6, <2>1, Joined
  <2>3. QED
    BY <2>2
<1> HIDE DEF b
<1>9. /\ Len(body) = n1 + n2 + 2 /\ body[1] = Count(n1)
      /\ body[n1 + 2] = Count(n2)
      /\ \A i \in 1 .. n1 : body[1 + i] = <<"input", V1[i]>>
      /\ \A i \in 1 .. n2 : body[n1 + 2 + i] = <<"output", V2[i]>>
  <2>1. 1 + n1 + 1 = n1 + 2 /\ \A i \in 1 .. n2 : 1 + n1 + 1 + i = n1 + 2 + i
    BY <1>0
  <2>2. Len(body) = 1 + n1 + n2 + 1 + 0
    BY <1>0, <1>2 DEF Layout
  <2>3. QED
    BY <1>0, <1>2, <2>1, <2>2 DEF Layout
<1>10. \A i \in 1 .. n1 + n2 + 2 : b[2 + i] = body[i]
  <2> TAKE i \in 1 .. n1 + n2 + 2
  <2>1. i \in 1 .. Len(body) /\ 2 + i \in 1 .. Len(a)
    BY <1>0, <1>7, <1>9
  <2>2. QED
    BY <1>0, <1>7, <1>8, <2>1
<1>11. b[1] = Count(0) /\ b[2] = Count(1)
  <2>1. 1 \in 1 .. Len(a) /\ 2 \in 1 .. Len(a) /\ 1 \in 1 .. 2 /\ 2 \in 1 .. 2
    BY <1>0, <1>7, <1>9
  <2>2. QED
    BY <1>0, <1>5, <1>7, <1>8, <2>1
<1>12. Layout(b, 3, n1, V1, n2, V2, n3, V3)
  <2>1. Len(b) = 3 + n1 + n2 + 1 + n3
    BY <1>0, <1>3, <1>7, <1>8, <1>9
  <2>2. b[3] = Count(n1)
    BY <1>0, <1>9, <1>10
  <2>3. b[3 + n1 + 1] = Count(n2)
    <3>1. n1 + 2 \in 1 .. n1 + n2 + 2 /\ 3 + n1 + 1 = 2 + (n1 + 2)
      BY <1>0
    <3>2. QED
      BY <1>0, <1>9, <1>10, <3>1
  <2>4. \A i \in 1 .. n1 : b[3 + i] = <<"input", V1[i]>>
    <3> TAKE i \in 1 .. n1
    <3>1. 1 + i \in 1 .. n1 + n2 + 2 /\ 3 + i = 2 + (1 + i)
      BY <1>0
    <3>2. QED
      BY <1>0, <1>9, <1>10, <3>1
  <2>5. \A i \in 1 .. n2 : b[3 + n1 + 1 + i] = <<"output", V2[i]>>
    <3> TAKE i \in 1 .. n2
    <3>1. /\ n1 + 2 + i \in 1 .. n1 + n2 + 2
          /\ 3 + n1 + 1 + i = 2 + (n1 + 2 + i)
      BY <1>0
    <3>2. QED
      BY <1>0, <1>9, <1>10, <3>1
  <2>6. \A i \in 1 .. n3 : b[3 + n1 + n2 + 1 + i] = <<"inwit", V3[i]>>
    <3> TAKE i \in 1 .. n3
    <3>1. i \in 1 .. Len(wit) /\ Len(a) + i = 3 + n1 + n2 + 1 + i
      BY <1>0, <1>3, <1>7, <1>9
    <3>2. QED
      BY <1>0, <1>3, <1>4, <1>8, <3>1
  <2>7. QED
    BY <1>0, <2>1, <2>2, <2>3, <2>4, <2>5, <2>6 DEF Layout, Lists
<1>13. QED
  BY <1>0, <1>8, <1>11, <1>12 DEF b, a, head, body, wit, Witnessed

\* What a transaction says: of its inputs, its outputs, and its witness.
LEMMA TxSays ==
    ASSUME NEW h, Heap(h), NEW o, Is(h, o, "transaction")
    PROVE  \E n1, n2, n3 \in Nat : \E V1, V2, V3 :
             /\ Value(h, o) = <<V1, V2, V3>> /\ n1 = Len(h[o].vin)
             /\ Lists(n1, V1) /\ Lists(n2, V2) /\ Lists(n3, V3)
             /\ WitnessIsNull(h, h[o].wit) <=> \A i \in 1 .. n3 : V3[i] = "empty"
<1> DEFINE r  == h[o]
           w  == h[r.wit].vtxinwit
           n1 == Len(r.vin)
           n2 == Len(r.vout)
           n3 == Len(w)
           V1 == Map(h, Spends, r.vin)
           V2 == Map(h, Datum, r.vout)
           V3 == Witnesses(h, r.wit)
<1>1. AreAll(h, r.vin, "input") /\ AreAll(h, r.vout, "output") /\ Is(h, r.wit, "witness")
  BY TxParts
<1>2. Value(h, o) = <<V1, V2, V3>>
  BY DEF Value, Is
<1>3. Fits(h, h[r.wit]) /\ h[r.wit].of = "witness"
  BY <1>1 DEF Is, Heap
<1>4. n3 \in Nat /\ DOMAIN w = 1 .. n3
  BY <1>3 DEF Fits, IsLeaf, LeafKinds, IsInput, IsTx, IsWitness, AreAll
<1>5. n1 \in Nat /\ DOMAIN r.vin = 1 .. n1 /\ n2 \in Nat /\ DOMAIN r.vout = 1 .. n2
  BY <1>1 DEF AreAll
<1>6. V1 = [i \in 1 .. n1 |-> V1[i]] /\ V2 = [i \in 1 .. n2 |-> V2[i]]
  BY <1>5 DEF Map
<1>7. V3 = [i \in 1 .. n3 |-> h[w[i]].data]
  BY <1>4 DEF Witnesses, Map, Datum
<1>8. WitnessIsNull(h, r.wit) <=> \A i \in 1 .. n3 : V3[i] = "empty"
  <2>1. ToSet(w) = {w[i] : i \in 1 .. n3}
    BY <1>4 DEF ToSet
  <2> HIDE DEF V3
  <2>2. \A i \in 1 .. n3 : V3[i] = h[w[i]].data
    BY <1>7
  <2>3. WitnessIsNull(h, r.wit) <=> \A x \in ToSet(w) : h[x].data = "empty"
    BY DEF WitnessIsNull
  <2> HIDE DEF w, n3
  <2>4. QED
    BY <2>1, <2>2, <2>3
<1>9. V3 = [i \in 1 .. n3 |-> V3[i]]
  BY <1>7
<1>11. Lists(n1, V1) /\ Lists(n2, V2) /\ Lists(n3, V3)
  BY <1>4, <1>5, <1>6, <1>9 DEF Lists
<1> HIDE DEF V1, V2, V3, n1, n2, n3, w
<1>10. QED
  BY <1>2, <1>4, <1>5, <1>8, <1>11 DEF n1

\* What is written is read back: everything, or all but the witnesses when
\* they are not asked for or there are none.
LEMMA ReadAsWritten ==
    ASSUME NEW h, Heap(h), NEW o, Is(h, o, "transaction"), h[o].vin # <<>>,
           NEW include_witness \in BOOLEAN, NEW b \in Write(h, o, include_witness)
    PROVE  Read(b) = {IF ~include_witness \/ WitnessIsNull(h, h[o].wit)
                      THEN [Value(h, o) EXCEPT ![3] = <<>>] ELSE Value(h, o)}
<1> DEFINE v == Value(h, o)
           none == WitnessIsNull(h, h[o].wit)
<1>1. PICK n1, n2, n3 \in Nat : \E V1, V2, V3 :
        /\ v = <<V1, V2, V3>> /\ n1 = Len(h[o].vin)
        /\ Lists(n1, V1) /\ Lists(n2, V2) /\ Lists(n3, V3)
        /\ none <=> \A i \in 1 .. n3 : V3[i] = "empty"
  BY TxSays
<1>2. PICK V1, V2, V3 :
        /\ v = <<V1, V2, V3>> /\ n1 = Len(h[o].vin)
        /\ Lists(n1, V1) /\ Lists(n2, V2) /\ Lists(n3, V3)
        /\ none <=> \A i \in 1 .. n3 : V3[i] = "empty"
  BY <1>1
<1>3. v[1] = V1 /\ v[2] = V2 /\ v[3] = V3 /\ [v EXCEPT ![3] = <<>>] = <<V1, V2, <<>>>>
  BY <1>2
<1>4. n1 # 0
  <2>1. h[o].vin \in Seq(Nat)
    BY TxParts DEF AreAll
  <2>2. QED
    BY <1>2, <2>1
<1>5. IF ~include_witness \/ none THEN b = Body(V1, V2)
      ELSE b = Witnessed(V1, V2, V3) /\ Len(V3) = Len(V1)
  BY <1>3 DEF Write, Body, Witnessed
<1>6. Len(V1) = n1 /\ Len(V3) = n3
  BY <1>2, LenOfList
<1> HIDE DEF v, none
<1>7. CASE ~include_witness \/ none
  <2>1. b = Body(V1, V2)
    BY <1>5, <1>7
  <2>2. PICK S : b \in Seq(S)
    BY <1>2, <2>1, BodyIsLaid
  <2>3. Layout(b, 1, n1, V1, n2, V2, 0, <<>>)
    BY <1>2, <2>1, BodyIsLaid
  <2>4. Marked(b, 1, n1, 0, <<>>)
    BY <1>4 DEF Marked
  <2>5. Read(b) = {<<V1, V2, <<>>>>}
    BY <2>2, <2>3, <2>4, ReadsBack
  <2>6. QED
    BY <1>3, <1>7, <2>5 DEF v, none
<1>8. CASE ~(~include_witness \/ none)
  <2>1. b = Witnessed(V1, V2, V3) /\ n3 = n1
    BY <1>5, <1>6, <1>8
  <2>2. PICK S : b \in Seq(S)
    BY <1>2, <2>1, WitnessedIsLaid
  <2>3. Layout(b, 3, n1, V1, n2, V2, n3, V3) /\ b[1] = Count(0) /\ b[2] = Count(1)
    <3>1. Lists(n1, V1) /\ Lists(n2, V2) /\ Lists(n3, V3)
      BY <1>2
    <3> DEFINE x == Witnessed(V1, V2, V3)
    <3>2. Layout(x, 3, n1, V1, n2, V2, n3, V3) /\ x[1] = Count(0) /\ x[2] = Count(1)
      BY <3>1, WitnessedIsLaid
    <3> HIDE DEF x
    <3>3. b = x
      BY <2>1 DEF x
    <3>4. QED
      BY <3>2, <3>3
  <2>4. Marked(b, 3, n1, n3, V3)
    BY <1>2, <1>8, <2>1, <2>3 DEF Marked
  <2>5. Read(b) = {<<V1, V2, V3>>}
    BY <2>2, <2>3, <2>4, ReadsBack
  <2>6. QED
    BY <1>2, <1>8, <2>5 DEF v, none
<1>9. QED
  BY <1>7, <1>8

-----------------------------------------------------------------------------
(* The invariant.                                                            *)

ContextInv == enabled = FALSE

HandlesInv ==
    /\ tx \in [Handles -> Nat \union {NoObject}]
    /\ class \in [Handles -> Twins]
    /\ \A k \in Handles : tx[k] # NoObject =>
         /\ Is(heap, tx[k], "transaction")
         /\ heap[tx[k]].mutable <=> class[k] = "mutable"
    /\ input # NoObject => Is(heap, input, "input")

IInv == Heap(heap) /\ ContextInv /\ HandlesInv


\* What a step does to objects that were there, and to handles.
Apart ==
    \A k \in Handles : tx'[k] # tx[k] =>
      \A o \in Reach(heap', tx'[k]) \intersect DOMAIN heap : ~heap[o].mutable

GoodStep == IInv' /\ Keeps(heap, heap') /\ Apart

LEMMA InForceIs ==
    ASSUME IInv, NEW c \in Twins
    PROVE  InForce(c) \in BOOLEAN /\ (InForce(c) <=> c = "mutable")
BY DEF IInv, ContextInv, InForce

\* The roots, and what remains when there are others.
LEMMA RootsAre ==
    ASSUME IInv
    PROVE  \A r \in Roots \ {NoObject} : IsRoot(heap, r)
BY DEF IInv, HandlesInv, Roots, IsRoot

LEMMA KeepsMade ==
    ASSUME NEW h, NEW k, Extends(h, k), NEW g, PartOf(g, k)
    PROVE  Keeps(h, g)
BY DEF Keeps, Extends, PartOf

\* A handle takes what was made.
LEMMA HoldStep ==
    ASSUME IInv, NEW k \in Handles, NEW c \in Twins, NEW made,
           Makes(heap, InForce(c), "transaction", made), Hold(k, c, made)
    PROVE  GoodStep
<1> DEFINE h == made.heap
           R == (Roots \ {tx[k]}) \union
                  {tx[j] : j \in Handles \ {k}} \union {input, made.id}
<1>1. Heap(h) /\ Extends(heap, h) /\ Is(h, made.id, "transaction")
  BY DEF Makes, Grows
<1>2. tx' = [tx EXCEPT ![k] = made.id] /\ class' = [class EXCEPT ![k] = c]
      /\ heap' = Live(h, R) /\ input' = input /\ enabled' = enabled
  BY DEF Hold
<1>3. \A r \in R \ {NoObject} : IsRoot(h, r)
  <2>1. \A r \in Roots \ {NoObject} : IsRoot(h, r)
    BY <1>1, RootsAre, KeptOn DEF IsRoot
  <2>2. IsRoot(h, made.id)
    BY <1>1 DEF IsRoot
  <2>3. QED
    BY <2>1, <2>2 DEF Roots
<1>4. Heap(heap') /\ PartOf(heap', h) /\ R \ {NoObject} \subseteq DOMAIN heap'
  <2> HIDE DEF R
  <2>1. QED
    BY <1>1, <1>2, <1>3, Collect
<1>5. Keeps(heap, heap')
  BY <1>1, <1>4, KeepsMade
<1>6. made.id \in Nat /\ made.id # NoObject /\ made.id \in DOMAIN heap'
  BY <1>1, <1>4, CoreTxAssumption DEF Is, Heap
<1>7. \A o, of : Is(heap, o, of) /\ o \in R \ {NoObject} =>
        Is(heap', o, of) /\ heap'[o] = heap[o]
  BY <1>1, <1>4 DEF Is, PartOf, Extends
<1>8. Is(heap', made.id, "transaction") /\ heap'[made.id] = h[made.id]
  BY <1>1, <1>4, <1>6 DEF Is, PartOf
<1>9. HandlesInv'
  <2>1. tx' \in [Handles -> Nat \union {NoObject}] /\ class' \in [Handles -> Twins]
    BY <1>2, <1>6 DEF IInv, HandlesInv
  <2>2. ASSUME NEW j \in Handles, tx'[j] # NoObject
        PROVE  /\ Is(heap', tx'[j], "transaction")
               /\ heap'[tx'[j]].mutable <=> class'[j] = "mutable"
    <3>1. CASE j = k
      <4>1. tx'[j] = made.id /\ class'[j] = c
        BY <1>2, <3>1 DEF IInv, HandlesInv
      <4>2. h[made.id].mutable <=> c = "mutable"
        BY InForceIs DEF Makes
      <4>3. QED
        BY <1>8, <4>1, <4>2
    <3>2. CASE j # k
      <4>1. tx'[j] = tx[j] /\ class'[j] = class[j]
        BY <1>2, <3>2 DEF IInv, HandlesInv
      <4>2. tx[j] \in R \ {NoObject}
        BY <2>2, <3>2, <4>1
      <4>3. /\ Is(heap, tx[j], "transaction")
            /\ heap[tx[j]].mutable <=> class[j] = "mutable"
        BY <2>2, <4>1 DEF IInv, HandlesInv
      <4>4. QED
        BY <1>7, <4>1, <4>2, <4>3
    <3>3. QED
      BY <3>1, <3>2
  <2>3. input' # NoObject => Is(heap', input', "input")
    BY <1>2, <1>7 DEF IInv, HandlesInv
  <2>4. QED
    BY <2>1, <2>2, <2>3 DEF HandlesInv
<1>10. ASSUME NEW j \in Handles, tx'[j] # tx[j],
              NEW o \in Reach(heap', tx'[j]) \intersect DOMAIN heap
       PROVE  ~heap[o].mutable
  <2>1. j = k /\ tx'[j] = made.id
    BY <1>2, <1>10 DEF IInv, HandlesInv
  <2>2. Reach(heap', made.id) = Reach(h, made.id)
    BY <1>4, <1>6, ReachWithin
  <2>3. Heap(heap) /\ InForce(c) \in BOOLEAN
    BY InForceIs DEF IInv
  <2>4. QED
    BY <1>10, <2>1, <2>2, <2>3, MadeApart
<1>11. ContextInv'
  BY <1>2 DEF IInv, ContextInv
<1>12. QED
  BY <1>4, <1>5, <1>9, <1>10, <1>11 DEF GoodStep, IInv, Apart

\* The program changes attributes of mutable objects.
LEMMA EditStep ==
    ASSUME IInv, NEW h, Edits(heap, h), PartOf(heap', h), Heap(heap'),
           UNCHANGED <<tx, enabled, class>>,
           \A k \in Handles : tx[k] # NoObject => tx[k] \in DOMAIN heap',
           input' = NoObject \/ (input' = input /\ input \in DOMAIN heap')
    PROVE  GoodStep
<1>1. \A o \in DOMAIN heap : o \in DOMAIN heap' =>
        heap'[o].of = heap[o].of /\ heap'[o].mutable = heap[o].mutable
  BY DEF Edits, PartOf
<1>2. HandlesInv'
  <2>1. tx' \in [Handles -> Nat \union {NoObject}] /\ class' \in [Handles -> Twins]
    BY DEF IInv, HandlesInv
  <2>2. ASSUME NEW k \in Handles, tx'[k] # NoObject
        PROVE  /\ Is(heap', tx'[k], "transaction")
               /\ heap'[tx'[k]].mutable <=> class'[k] = "mutable"
    <3>1. tx'[k] = tx[k] /\ class'[k] = class[k]
      OBVIOUS
    <3>2. QED
      BY <1>1, <2>2, <3>1 DEF IInv, HandlesInv, Is
  <2>3. input' # NoObject => Is(heap', input', "input")
    BY <1>1 DEF IInv, HandlesInv, Is
  <2>4. QED
    BY <2>1, <2>2, <2>3 DEF HandlesInv
<1>3. Keeps(heap, heap')
  BY DEF Keeps, Edits, PartOf
<1>4. ContextInv'
  BY DEF IInv, ContextInv
<1>5. Apart
  BY DEF Apart
<1>6. QED
  BY <1>2, <1>3, <1>4, <1>5 DEF GoodStep, IInv

LEMMA ChangeStep ==
    ASSUME IInv, NEW h, Edits(heap, h), Change(h)
    PROVE  GoodStep
<1>1. heap' = Live(h, Roots) /\ UNCHANGED <<tx, input, enabled, class>>
  BY DEF Change
<1>2. \A r \in Roots \ {NoObject} : IsRoot(h, r)
  BY RootsAre DEF IsRoot, Is, Edits
<1>3. /\ Heap(heap') /\ PartOf(heap', h)
      /\ Roots \ {NoObject} \subseteq DOMAIN heap'
  BY <1>1, <1>2, Collect DEF Edits
<1>4. \A k \in Handles : tx[k] # NoObject => tx[k] \in DOMAIN heap'
  BY <1>3 DEF Roots
<1>5. input' = NoObject \/ (input' = input /\ input \in DOMAIN heap')
  BY <1>1, <1>3 DEF Roots
<1>6. QED
  BY <1>1, <1>3, <1>4, <1>5, EditStep

-----------------------------------------------------------------------------
(* The actions.                                                              *)

LEMMA MakeInputStep ==
    ASSUME IInv, NEW c \in Twins, NEW p \in Twins, NEW d \in Data,
           MakeInput(c, p, d)
    PROVE  GoodStep
<1> DEFINE point == Leaf(heap, InForce(p), "outpoint", d)
           made  == NewInput(point.heap, InForce(c), point.id)
           R     == {tx[k] : k \in Handles} \union {made.id}
<1>1. input' = made.id /\ heap' = Live(made.heap, R)
      /\ UNCHANGED <<tx, enabled, class>>
  BY DEF MakeInput
<1>2. InForce(c) \in BOOLEAN /\ InForce(p) \in BOOLEAN /\ Heap(heap)
  BY InForceIs DEF IInv
<1>3. Makes(heap, InForce(p), "outpoint", point)
  BY <1>2, LeafMakes DEF LeafKinds
<1> HIDE DEF point
<1>4. Grows(heap, point.heap) /\ Heap(point.heap) /\ Is(point.heap, point.id, "outpoint")
  BY <1>3 DEF Makes, Grows
<1>5. Makes(point.heap, InForce(c), "input", made)
  BY <1>2, <1>4, NewInputMakes
<1> HIDE DEF made
<1>6. /\ Grows(heap, made.heap) /\ Heap(made.heap) /\ Extends(heap, made.heap)
      /\ Is(made.heap, made.id, "input")
  BY <1>4, <1>5, GrowsOn DEF Makes, Grows
<1>7. \A r \in R \ {NoObject} : IsRoot(made.heap, r)
  BY <1>6, KeptOn DEF IsRoot, IInv, HandlesInv
<1> HIDE DEF R
<1>8. Heap(heap') /\ PartOf(heap', made.heap) /\ R \ {NoObject} \subseteq DOMAIN heap'
  BY <1>1, <1>6, <1>7, Collect
<1>9. HandlesInv'
  <2>1. tx' \in [Handles -> Nat \union {NoObject}] /\ class' \in [Handles -> Twins]
    BY <1>1 DEF IInv, HandlesInv
  <2>2. ASSUME NEW k \in Handles, tx'[k] # NoObject
        PROVE  /\ Is(heap', tx'[k], "transaction")
               /\ heap'[tx'[k]].mutable <=> class'[k] = "mutable"
    <3>1. tx'[k] = tx[k] /\ class'[k] = class[k]
      BY <1>1
    <3>2. tx[k] \in DOMAIN heap'
      BY <1>8, <2>2, <3>1 DEF R
    <3>3. tx[k] \in DOMAIN heap /\ heap'[tx[k]] = heap[tx[k]]
      BY <1>6, <1>8, <2>2, <3>1, <3>2 DEF IInv, HandlesInv, Is, PartOf, Extends
    <3>4. QED
      BY <2>2, <3>1, <3>2, <3>3 DEF IInv, HandlesInv, Is
  <2>3. input' # NoObject => Is(heap', input', "input")
    BY <1>1, <1>6, <1>8 DEF Is, PartOf, R
  <2>4. QED
    BY <2>1, <2>2, <2>3 DEF HandlesInv
<1>10. Keeps(heap, heap')
  BY <1>6, <1>8, KeepsMade
<1>11. ContextInv' /\ Apart
  BY <1>1 DEF IInv, ContextInv, Apart
<1>12. QED
  BY <1>8, <1>9, <1>10, <1>11 DEF GoodStep, IInv

LEMMA MakeTxStep ==
    ASSUME IInv, NEW k \in Handles, NEW c \in Twins, NEW n \in 0 .. MaxInputs,
           NEW wit \in {<<>>, <<"sigs">>}, MakeTx(k, c, n, wit)
    PROVE  GoodStep
<1> DEFINE x      == InForce("immutable")
           m      == InForce(c)
           any    == CHOOSE d \in Data : TRUE
           out    == Leaf(heap, x, "output", any)
           inwits == Leaves(out.heap, x, "inwit", wit)
           w      == NewWitness(inwits.heap, x, inwits.ids)
           vin    == [i \in 1 .. n |-> input]
           vout   == <<out.id>>
           arg    == IF wit = <<>> THEN NoObject ELSE w.id
           made   == NewTx(w.heap, m, vin, vout, arg, FALSE)
<1>1. input # NoObject /\ Hold(k, c, made)
  BY DEF MakeTx
<1>2. x \in BOOLEAN /\ m \in BOOLEAN /\ Heap(heap)
  BY InForceIs DEF IInv, Twins
<1> HIDE DEF x, m, any
<1>3. Makes(heap, x, "output", out)
  BY <1>2, LeafMakes DEF LeafKinds
<1> HIDE DEF out
<1>4. /\ Grows(heap, out.heap) /\ Heap(out.heap) /\ Extends(heap, out.heap)
      /\ Is(out.heap, out.id, "output")
  BY <1>3 DEF Makes, Grows
<1>5. MakesAll(out.heap, x, "inwit", Len(wit), inwits)
  <2>1. Len(wit) \in Nat
    OBVIOUS
  <2>2. QED
    BY <1>2, <1>4, <2>1, LeavesMake DEF LeafKinds
<1> HIDE DEF inwits
<1>6. /\ Grows(out.heap, inwits.heap) /\ Heap(inwits.heap)
      /\ Extends(out.heap, inwits.heap) /\ AreAll(inwits.heap, inwits.ids, "inwit")
  BY <1>5 DEF MakesAll, Grows
<1>7. Makes(inwits.heap, x, "witness", w)
  BY <1>2, <1>6, NewWitnessMakes
<1> HIDE DEF w
<1>8. /\ Grows(inwits.heap, w.heap) /\ Heap(w.heap)
      /\ Extends(inwits.heap, w.heap) /\ Is(w.heap, w.id, "witness")
  BY <1>7 DEF Makes, Grows
<1>9. Grows(heap, w.heap)
  BY <1>4, <1>6, <1>8, GrowsOn
<1>10. Extends(heap, w.heap) /\ Extends(out.heap, w.heap)
  BY <1>4, <1>6, <1>8 DEF Extends
<1>11. IsWitnessArg(w.heap, arg)
  BY <1>8 DEF IsWitnessArg
<1>12. AreAll(w.heap, vin, "input")
  <2>1. Is(heap, input, "input")
    BY <1>1 DEF IInv, HandlesInv
  <2>2. Is(w.heap, input, "input") /\ input \in Nat
    BY <1>2, <1>10, <2>1, KeptOn DEF Is, Heap
  <2>3. n \in Nat
    BY CoreTxAssumption
  <2>4. vin \in Seq(Nat) /\ Len(vin) = n /\ \A i \in 1 .. n : vin[i] = input
    BY <2>2, <2>3
  <2> HIDE DEF vin
  <2>5. QED
    BY <2>2, <2>4 DEF AreAll
<1>13. AreAll(w.heap, vout, "output")
  <2>1. Is(w.heap, out.id, "output") /\ out.id \in Nat
    BY <1>4, <1>10, KeptOn DEF Is, Heap
  <2>2. vout \in Seq(Nat) /\ Len(vout) = 1 /\ vout[1] = out.id
    BY <2>1
  <2> HIDE DEF vout
  <2>3. QED
    BY <2>1, <2>2 DEF AreAll
<1> HIDE DEF vin, vout, arg
<1>14. Makes(w.heap, m, "transaction", made)
  BY <1>2, <1>8, <1>11, <1>12, <1>13, NewTxMakes
<1> HIDE DEF made
<1>15. Makes(heap, m, "transaction", made)
  BY <1>9, <1>14, MakesOn
<1>16. QED
  BY <1>1, <1>15, HoldStep DEF m

LEMMA RebuildStep ==
    ASSUME IInv, NEW k \in Handles, NEW c \in Twins, NEW j \in Handles \ {k},
           NEW once, NEW with_wit, Rebuild(k, c, j, once, with_wit)
    PROVE  GoodStep
<1> DEFINE o    == heap[tx[j]]
           arg  == IF with_wit THEN o.wit ELSE NoObject
           made == NewTx(heap, InForce(c), o.vin, o.vout, arg, once)
<1>1. tx[j] # NoObject /\ Hold(k, c, made)
  BY DEF Rebuild
<1>2. InForce(c) \in BOOLEAN /\ Heap(heap) /\ Is(heap, tx[j], "transaction")
  BY <1>1, InForceIs DEF IInv, HandlesInv
<1>3. /\ AreAll(heap, o.vin, "input") /\ AreAll(heap, o.vout, "output")
      /\ Is(heap, o.wit, "witness")
  BY <1>2, TxParts
<1>4. IsWitnessArg(heap, arg)
  BY <1>3 DEF IsWitnessArg
<1> HIDE DEF arg
<1>5. Makes(heap, InForce(c), "transaction", made)
  BY <1>2, <1>3, <1>4, NewTxMakes
<1> HIDE DEF made
<1>6. QED
  BY <1>1, <1>5, HoldStep

LEMMA CopyStep ==
    ASSUME IInv, NEW k \in Handles, NEW c \in Twins, NEW j \in Handles \ {k},
           Copy(k, c, j)
    PROVE  GoodStep
<1>1. tx[j] # NoObject /\ Hold(k, c, TxFrom(heap, InForce(c), tx[j]))
  BY DEF Copy
<1>2. InForce(c) \in BOOLEAN /\ Heap(heap) /\ Is(heap, tx[j], "transaction")
  BY <1>1, InForceIs DEF IInv, HandlesInv
<1>3. Makes(heap, InForce(c), "transaction", TxFrom(heap, InForce(c), tx[j]))
  BY <1>2, TxFromMakes
<1>4. QED
  BY <1>1, <1>3, HoldStep

LEMMA RereadStep ==
    ASSUME IInv, NEW k \in Handles, NEW c \in Twins, NEW j \in Handles \ {k},
           Reread(k, c, j)
    PROVE  GoodStep
<1>1. tx[j] # NoObject
  BY DEF Reread
<1>2. PICK t : t = TRUE
  OBVIOUS
<1>3. PICK b \in Write(heap, tx[j], t) :
        \E v \in Read(b) : Hold(k, c, TxOfValue(heap, InForce(c), v))
  BY <1>2, Zenon DEF Reread
<1>4. PICK v \in Read(b) : Hold(k, c, TxOfValue(heap, InForce(c), v))
  BY <1>3
<1>5. InForce(c) \in BOOLEAN /\ Heap(heap) /\ Is(heap, tx[j], "transaction")
  BY <1>1, InForceIs DEF IInv, HandlesInv
<1>6. PICK S : b \in Seq(S)
  BY <1>5, WrittenIsList
<1>7. Len(v[1]) \in Nat /\ Len(v[2]) \in Nat /\ Len(v[3]) \in Nat
  BY <1>6, ReadIsLists
<1>8. Makes(heap, InForce(c), "transaction", TxOfValue(heap, InForce(c), v))
  BY <1>5, <1>7, TxOfValueMakes
<1>9. QED
  BY <1>4, <1>8, HoldStep

LEMMA RefuseStep ==
    ASSUME IInv, NEW c \in Twins, Refuse(c)
    PROVE  GoodStep
<1>1. UNCHANGED <<heap, tx, input, enabled, class>>
  BY DEF Refuse, Restored
<1>2. IInv'
  BY <1>1 DEF IInv, ContextInv, HandlesInv
<1>3. QED
  BY <1>1, <1>2 DEF GoodStep, Keeps, Apart

LEMMA AppendInputStep ==
    ASSUME IInv, NEW k \in Handles, AppendInput(k)
    PROVE  GoodStep
<1> DEFINE x == tx[k]
           r == [heap[x] EXCEPT !.vin = Append(@, input)]
           h == [heap EXCEPT ![x].vin = Append(@, input)]
<1>1. /\ x # NoObject /\ heap[x].mutable /\ input # NoObject
      /\ input' = NoObject /\ heap' = h
      /\ UNCHANGED <<tx, enabled, class>>
  BY DEF AppendInput, MutableTx, IsMutable
<1>2. /\ Heap(heap) /\ Is(heap, x, "transaction") /\ Is(heap, input, "input")
      /\ x \in DOMAIN heap /\ input \in Nat
  BY <1>1 DEF IInv, HandlesInv, Is, Heap
<1>3. IsTx(heap, heap[x]) /\ heap[x].mutable \in BOOLEAN
  BY <1>2 DEF Heap, Is, Fits, IsLeaf, LeafKinds, IsInput, IsWitness
<1>4. /\ r.of = "transaction" /\ r.mutable = heap[x].mutable
      /\ r.vin = Append(heap[x].vin, input)
      /\ r.vout = heap[x].vout /\ r.wit = heap[x].wit
      /\ r = [of |-> "transaction", vin |-> r.vin, vout |-> r.vout,
              wit |-> r.wit, mutable |-> r.mutable]
  BY <1>3, SMTT(30) DEF IsTx
<1>5. DOMAIN h = DOMAIN heap /\ h[x] = r /\ \A o \in DOMAIN heap \ {x} : h[o] = heap[o]
  BY <1>2
<1> HIDE DEF r, h, x
<1>6. AreAll(heap, r.vin, "input")
  <2> DEFINE s == heap[x].vin
  <2>1. s \in Seq(Nat) /\ \A i \in 1 .. Len(s) : Is(heap, s[i], "input")
    BY <1>3 DEF IsTx, AreAll
  <2>2. r.vin = Append(s, input)
    BY <1>4
  <2> HIDE DEF s
  <2>3. /\ r.vin \in Seq(Nat) /\ Len(r.vin) = Len(s) + 1
        /\ r.vin[Len(s) + 1] = input
        /\ \A i \in 1 .. Len(s) : r.vin[i] = s[i]
    BY <1>2, <2>1, <2>2
  <2>4. ASSUME NEW i \in 1 .. Len(r.vin) PROVE Is(heap, r.vin[i], "input")
    <3>1. i \in 1 .. Len(s) \/ i = Len(s) + 1
      BY <2>1, <2>3
    <3>2. QED
      BY <1>2, <2>1, <2>3, <3>1
  <2>5. QED
    BY <2>3, <2>4 DEF AreAll
<1>7. Fits(heap, r)
  <2>1. IsTx(heap, r)
    BY <1>3, <1>4, <1>6 DEF IsTx
  <2>2. QED
    BY <1>3, <1>4, <2>1 DEF Fits
<1>8. r.of = heap[x].of
  BY <1>3, <1>4 DEF IsTx
<1>9. Edits(heap, h)
  BY <1>1, <1>2, <1>4, <1>5, <1>7, <1>8, EditOne
<1>10. PartOf(heap', h) /\ Heap(heap')
  BY <1>1, <1>9 DEF PartOf, Edits
<1>11. \A j \in Handles : tx[j] # NoObject => tx[j] \in DOMAIN heap'
  BY <1>1, <1>5 DEF IInv, HandlesInv, Is
<1>12. QED
  BY <1>1, <1>9, <1>10, <1>11, EditStep

\* A leaf with another datum is a leaf.
LEMMA OtherDatum ==
    ASSUME NEW a, IsLeaf(a), NEW d
    PROVE  /\ [a EXCEPT !.data = d].of = a.of
           /\ [a EXCEPT !.data = d].mutable = a.mutable
           /\ IsLeaf([a EXCEPT !.data = d])
<1>1. PICK k, v, m : k = a.of /\ a = [of |-> k, data |-> v, mutable |-> m]
  BY Zenon DEF IsLeaf
<1>2. [a EXCEPT !.data = d] = [of |-> k, data |-> d, mutable |-> m]
  BY <1>1
<1>3. k \in LeafKinds /\ a.mutable = m
  BY <1>1 DEF IsLeaf
<1>4. QED
  BY <1>1, <1>2, <1>3 DEF IsLeaf

\* A datum of a mutable leaf is changed.
LEMMA DatumStep ==
    ASSUME IInv, NEW x \in DOMAIN heap, heap[x].mutable, heap[x].of \in LeafKinds,
           NEW d, Change([heap EXCEPT ![x].data = d])
    PROVE  GoodStep
<1> DEFINE r == [heap[x] EXCEPT !.data = d]
           h == [heap EXCEPT ![x].data = d]
<1>1. IsLeaf(heap[x]) /\ heap[x].mutable \in BOOLEAN /\ Heap(heap)
  BY DEF IInv, Heap, Fits, LeafKinds, IsInput, IsWitness, IsTx
<1>2. r.of = heap[x].of /\ r.mutable = heap[x].mutable /\ IsLeaf(r)
  BY <1>1, OtherDatum
<1>3. DOMAIN h = DOMAIN heap /\ h[x] = r /\ \A o \in DOMAIN heap \ {x} : h[o] = heap[o]
  OBVIOUS
<1> HIDE DEF r
<1>4. Fits(heap, r)
  BY <1>1, <1>2 DEF Fits
<1> HIDE DEF h
<1>5. Edits(heap, h)
  BY <1>1, <1>2, <1>3, <1>4, EditOne
<1>6. QED
  BY <1>5, ChangeStep DEF h

LEMMA SetOutpointStep ==
    ASSUME IInv, NEW o \in DOMAIN heap, NEW d \in Data, SetOutpoint(o, d)
    PROVE  GoodStep
<1> DEFINE x == heap[o].prevout
<1>1. heap[o].of = "input" /\ heap[x].mutable /\ Change([heap EXCEPT ![x].data = d])
  BY DEF SetOutpoint, IsMutable
<1>2. IsInput(heap, heap[o])
  BY <1>1 DEF IInv, Heap, Fits, IsLeaf, LeafKinds, IsWitness, IsTx
<1>3. x \in DOMAIN heap /\ heap[x].of = "outpoint"
  BY <1>2 DEF IsInput, Is
<1> HIDE DEF x
<1>4. QED
  BY <1>1, <1>3, DatumStep DEF LeafKinds

LEMMA ReplaceOutpointStep ==
    ASSUME IInv, NEW o \in DOMAIN heap, NEW d \in Data, ReplaceOutpoint(o, d)
    PROVE  GoodStep
<1> DEFINE x == InForce("immutable")
           p == Leaf(heap, x, "outpoint", d)
           k == p.heap
           r == [k[o] EXCEPT !.prevout = p.id]
           h == [p.heap EXCEPT ![o].prevout = p.id]
<1>1. heap[o].of = "input" /\ heap[o].mutable /\ Change(h)
  BY DEF ReplaceOutpoint, IsMutable
<1>2. x \in BOOLEAN /\ Heap(heap)
  BY InForceIs DEF IInv, Twins
<1> HIDE DEF x
<1>3. Makes(heap, x, "outpoint", p)
  BY <1>2, LeafMakes DEF LeafKinds
<1> HIDE DEF p
<1>4. /\ Heap(k) /\ Extends(heap, k) /\ Is(k, p.id, "outpoint")
      /\ o \in DOMAIN k /\ k[o] = heap[o]
  BY <1>3 DEF Makes, Grows, Extends
<1> HIDE DEF k
<1>5. IsInput(k, k[o]) /\ k[o].mutable \in BOOLEAN
  BY <1>1, <1>4 DEF Heap, Fits, IsLeaf, LeafKinds, IsWitness, IsTx
<1>6. /\ r.of = "input" /\ r.mutable = k[o].mutable /\ r.prevout = p.id
      /\ r = [of |-> "input", prevout |-> r.prevout, mutable |-> r.mutable]
  BY <1>5 DEF IsInput
<1>7. DOMAIN h = DOMAIN k /\ h[o] = r /\ \A y \in DOMAIN k \ {o} : h[y] = k[y]
  BY <1>4 DEF k
<1> HIDE DEF r, h
<1>8. Fits(k, r)
  <2>1. IsInput(k, r)
    BY <1>4, <1>6 DEF IsInput
  <2>2. QED
    BY <1>5, <1>6, <2>1 DEF Fits
<1>9. r.of = k[o].of /\ k[o].mutable
  BY <1>1, <1>4, <1>6
<1>10. Edits(k, h)
  BY <1>4, <1>6, <1>7, <1>8, <1>9, EditOne
<1>11. Edits(heap, h)
  BY <1>4, <1>10 DEF Edits, Extends
<1>12. QED
  BY <1>1, <1>11, ChangeStep

LEMMA SetOutputStep ==
    ASSUME IInv, NEW o \in DOMAIN heap, NEW d \in Data, SetOutput(o, d)
    PROVE  GoodStep
BY DatumStep DEF SetOutput, IsMutable, LeafKinds

LEMMA SetWitnessStep ==
    ASSUME IInv, NEW o \in DOMAIN heap, NEW d \in Stacks, SetWitness(o, d)
    PROVE  GoodStep
BY DatumStep DEF SetWitness, IsMutable, LeafKinds

LEMMA NextStep ==
    ASSUME IInv, [Next]_vars
    PROVE  GoodStep
<1>1. CASE \E c, p \in Twins, d \in Data : MakeInput(c, p, d)
  BY <1>1, MakeInputStep
<1>2. CASE \E k \in Handles, c \in Twins, n \in 0 .. MaxInputs :
             \E wit \in {<<>>, <<"sigs">>} : MakeTx(k, c, n, wit)
  BY <1>2, MakeTxStep
<1>3. CASE \E k \in Handles, c \in Twins : \E j \in Handles \ {k} :
             \E once, with_wit \in BOOLEAN : Rebuild(k, c, j, once, with_wit)
  BY <1>3, RebuildStep
<1>4. CASE \E k \in Handles, c \in Twins : \E j \in Handles \ {k} : Copy(k, c, j)
  BY <1>4, CopyStep
<1>5. CASE \E k \in Handles, c \in Twins : \E j \in Handles \ {k} : Reread(k, c, j)
  BY <1>5, RereadStep
<1>6. CASE \E c \in Twins : Refuse(c)
  BY <1>6, RefuseStep
<1>7. CASE \E k \in Handles : AppendInput(k)
  BY <1>7, AppendInputStep
<1>8. CASE \E o \in DOMAIN heap, d \in Data :
             SetOutpoint(o, d) \/ ReplaceOutpoint(o, d) \/ SetOutput(o, d)
  BY <1>8, SetOutpointStep, ReplaceOutpointStep, SetOutputStep
<1>9. CASE \E o \in DOMAIN heap, d \in Stacks : SetWitness(o, d)
  BY <1>9, SetWitnessStep
<1>10. CASE UNCHANGED vars
  <2>1. IInv'
    BY <1>10 DEF IInv, ContextInv, HandlesInv, vars
  <2>2. QED
    BY <1>10, <2>1 DEF GoodStep, Keeps, Apart, vars
<1>11. QED
  BY <1>1, <1>2, <1>3, <1>4, <1>5, <1>6, <1>7, <1>8, <1>9, <1>10 DEF Next

-----------------------------------------------------------------------------
(* The theorems.                                                             *)

LEMMA Initially == Init => IInv
<1> SUFFICES ASSUME Init PROVE IInv
  OBVIOUS
<1>1. DOMAIN heap = {}
  BY DEF Init
<1>2. Heap(heap)
  BY <1>1, FS_EmptySet DEF Heap
<1>3. ContextInv /\ HandlesInv
  BY DEF Init, ContextInv, HandlesInv, Twins
<1>4. QED
  BY <1>2, <1>3 DEF IInv

\* The heap holds well-formed objects whose immutable ones have immutable
\* parts, the mutable context is off between calls, and each handle holds a
\* transaction of the class that was asked for.
THEOREM Invariance == Spec => []IInv
<1>1. IInv /\ [Next]_vars => IInv'
  BY NextStep DEF GoodStep
<1>2. QED
  BY <1>1, Initially, PTL DEF Spec

\* Every part of an object is in the heap.
THEOREM TypeCorrect == Spec => []TypeOK
<1>1. IInv => TypeOK
  <2> SUFFICES ASSUME IInv PROVE TypeOK
    OBVIOUS
  <2>1. enabled \in BOOLEAN /\ class \in [Handles -> Twins]
    BY DEF IInv, ContextInv, HandlesInv
  <2>2. Roots \ {NoObject} \subseteq DOMAIN heap
    BY RootsAre DEF IsRoot, Is
  <2>3. \A o \in DOMAIN heap : Children(heap[o]) \subseteq DOMAIN heap
    BY PartsOf DEF IInv, Heap
  <2>4. QED
    BY <2>1, <2>2, <2>3 DEF TypeOK
<1>2. QED
  BY <1>1, Invariance, PTL

\* What is asked of an immutable class is immutable to its last part, and what
\* is asked of a mutable one is mutable, whatever was made, copied, read back,
\* edited and refused before.
THEOREM MadeAsAsked == Spec => []MadeByItsClass
<1>1. IInv => MadeByItsClass
  <2> SUFFICES ASSUME IInv, NEW k \in Handles, tx[k] # NoObject
               PROVE  /\ IsMutable(heap, tx[k]) <=> class[k] = "mutable"
                      /\ class[k] = "immutable" =>
                           \A o \in Reach(heap, tx[k]) : ~IsMutable(heap, o)
    BY DEF MadeByItsClass
  <2>1. /\ tx[k] \in DOMAIN heap /\ Heap(heap)
        /\ heap[tx[k]].mutable <=> class[k] = "mutable"
    BY DEF IInv, HandlesInv, Is
  <2>2. ASSUME class[k] = "immutable", NEW o \in Reach(heap, tx[k])
        PROVE  ~heap[o].mutable
    BY <2>1, <2>2, ReachFirm
  <2>3. QED
    BY <2>1, <2>2 DEF IsMutable
<1>2. QED
  BY <1>1, Invariance, PTL

\* What an immutable object says never changes, whatever is made of it or of
\* its parts, and whatever of that is edited.
THEOREM ImmutablesNeverChange == Spec => ImmutablesStay
<1>1. IInv /\ [Next]_vars =>
        [\A o \in DOMAIN heap \intersect DOMAIN heap' :
           ~IsMutable(heap, o) => Value(heap', o) = Value(heap, o)]_vars
  <2> SUFFICES ASSUME IInv, [Next]_vars,
                      NEW o \in DOMAIN heap \intersect DOMAIN heap',
                      ~heap[o].mutable
               PROVE  Value(heap', o) = Value(heap, o)
    BY DEF IsMutable
  <2>1. Heap(heap) /\ Heap(heap') /\ Keeps(heap, heap')
    BY NextStep DEF GoodStep, IInv
  <2>2. QED
    BY <2>1, SaysTheSame
<1>2. QED
  BY <1>1, Invariance, PTL DEF Spec, ImmutablesStay

\* A transaction just made, in whatever way, shares no mutable part with any
\* object that was there before.
THEOREM CopiesNeverShare == Spec => CopiesAreApart
<1>1. IInv /\ [Next]_vars =>
        [\A k \in Handles : tx'[k] # tx[k] =>
           \A o \in Reach(heap', tx'[k]) \intersect DOMAIN heap :
             ~IsMutable(heap, o)]_vars
  BY NextStep DEF GoodStep, Apart, IsMutable
<1>2. QED
  BY <1>1, Invariance, PTL DEF Spec, CopiesAreApart

\* The bytes a transaction with inputs is written as are read as what it says,
\* its witnesses too unless they are all empty, and the bytes its txid is the
\* hash of as that without its witnesses: a mutable transaction, however it was
\* edited, and an immutable one are told apart by nothing but what they say.
THEOREM WrittenIsReadBack == Spec => []WrittenIsRead
<1>1. IInv => WrittenIsRead
  <2> SUFFICES ASSUME IInv, NEW k \in Handles, tx[k] # NoObject, heap[tx[k]].vin # <<>>
               PROVE  LET v    == Value(heap, tx[k])
                          said == IF WitnessIsNull(heap, heap[tx[k]].wit)
                                  THEN [v EXCEPT ![3] = <<>>] ELSE v
                      IN /\ \A b \in Write(heap, tx[k], TRUE) : Read(b) = {said}
                         /\ \A b \in GetTxid(heap, tx[k]) :
                              Read(b) = {[said EXCEPT ![3] = <<>>]}
    BY DEF WrittenIsRead
  <2> DEFINE o    == tx[k]
             v    == Value(heap, o)
             none == WitnessIsNull(heap, heap[o].wit)
             bare == [v EXCEPT ![3] = <<>>]
             said == IF none THEN bare ELSE v
  <2>1. Heap(heap) /\ Is(heap, o, "transaction")
    BY DEF IInv, HandlesInv
  <2>2. [said EXCEPT ![3] = <<>>] = bare
    <3>1. [bare EXCEPT ![3] = <<>>] = bare
      <4> HIDE DEF v
      <4>1. QED
        OBVIOUS
    <3> HIDE DEF v, none, bare
    <3>2. QED
      BY <3>1 DEF bare
  <2>3. \A b \in Write(heap, o, TRUE) : Read(b) = {said}
    <3>1. PICK t \in BOOLEAN : t = TRUE
      OBVIOUS
    <3>2. \A b \in Write(heap, o, t) :
            Read(b) = {IF ~t \/ none THEN bare ELSE v}
      BY <2>1, ReadAsWritten
    <3> HIDE DEF o, v, none, bare
    <3>3. QED
      BY <3>1, <3>2
  <2>4. \A b \in GetTxid(heap, o) : Read(b) = {bare}
    <3>1. PICK t \in BOOLEAN : t = FALSE
      OBVIOUS
    <3>2. \A b \in Write(heap, o, t) :
            Read(b) = {IF ~t \/ none THEN bare ELSE v}
      BY <2>1, ReadAsWritten
    <3> HIDE DEF o, v, none, bare
    <3>3. QED
      BY <3>1, <3>2 DEF GetTxid
  <2> HIDE DEF v, none, bare
  <2>5. QED
    BY <2>2, <2>3, <2>4 DEF v, none, bare
<1>2. QED
  BY <1>1, Invariance, PTL

=============================================================================
