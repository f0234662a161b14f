---------------------------- MODULE PSBT_proofs ----------------------------
(***************************************************************************)
(* What is proved of PSBTs: of signing and combining them (PSBTSigning, for *)
(* any inputs, scripts, keys, copies and signatures that callers put in),   *)
(* and at the end of assembling them (PSBTAssembly, for any PSBTs,          *)
(* transactions, inputs and outputs).                                       *)
(***************************************************************************)
EXTENDS PSBTSigning, PSBTAssembly, FiniteSetTheorems, TLAPS

-----------------------------------------------------------------------------
(* Selecting from a sequence.                                                *)

\* The positions that are selected, and how many of them there are up to p.
Selected(s, T) == {p \in DOMAIN s : s[p] \in T}
Rank(P, p) == Cardinality({q \in P : q <= p})

\* Of positions, a later one has a higher rank, and each rank is some position's.
LEMMA Ranks ==
    ASSUME NEW n \in Nat, NEW P \in SUBSET (1 .. n)
    PROVE  /\ IsFiniteSet(P) /\ Cardinality(P) \in Nat
           /\ \A p \in P : Rank(P, p) \in 1 .. Cardinality(P)
           /\ \A p, q \in P : p < q => Rank(P, p) < Rank(P, q)
           /\ \A m \in 1 .. Cardinality(P) : \E p \in P : Rank(P, p) = m
<1> DEFINE upto(p) == {q \in P : q <= p}
           C == Cardinality(P)
<1>1. IsFiniteSet(P) /\ C \in Nat
  <2>1. IsFiniteSet(1 .. n)
    BY FS_Interval
  <2>2. QED
    BY <2>1, FS_Subset, FS_CardinalityType
<1>2. ASSUME NEW p \in P
      PROVE  IsFiniteSet(upto(p)) /\ Cardinality(upto(p)) \in 1 .. C
  <2>1. upto(p) \in SUBSET P
    OBVIOUS
  <2>2. IsFiniteSet(upto(p)) /\ Cardinality(upto(p)) <= C
    BY <1>1, <2>1, FS_Subset
  <2>3. p \in upto(p)
    OBVIOUS
  <2>4. Cardinality(upto(p)) \in Nat /\ Cardinality(upto(p)) # 0
    BY <2>2, <2>3, FS_CardinalityType, FS_EmptySet
  <2>5. QED
    BY <1>1, <2>2, <2>4
<1>3. ASSUME NEW p \in P, NEW q \in P, p < q
      PROVE  Cardinality(upto(p)) < Cardinality(upto(q))
  <2>0. \A x \in P : x \in Nat
    OBVIOUS
  <2>1. upto(p) \in SUBSET upto(q) /\ q \in upto(q) /\ q \notin upto(p)
    <3>1. p \in Nat /\ q \in Nat /\ p < q
      BY <1>3, <2>0
    <3>2. ASSUME NEW x \in P, x <= p
          PROVE  x <= q
      <4>1. x \in Nat
        BY <2>0
      <4>2. QED
        BY <3>1, <3>2, <4>1
    <3>3. q <= q /\ ~ (q <= p)
      BY <3>1
    <3>4. QED
      BY <3>2, <3>3, Zenon
  <2>2. Cardinality(upto(p)) <= Cardinality(upto(q)) /\ Cardinality(upto(p)) # Cardinality(upto(q))
    BY <1>2, <2>1, FS_Subset
  <2>3. QED
    BY <1>2, <2>2
<1> DEFINE r == [p \in P |-> Cardinality(upto(p))]
<1>4. r \in Injection(P, 1 .. C)
  <2>1. r \in [P -> 1 .. C]
    BY <1>2
  <2>2. ASSUME NEW a \in P, NEW b \in P, r[a] = r[b]
        PROVE  a = b
    <3>1. Cardinality(upto(a)) \in Nat /\ Cardinality(upto(b)) \in Nat
      BY <1>1, <1>2
    <3>2. ~ (a < b) /\ ~ (b < a)
      BY <1>3, <2>2, <3>1
    <3>3. a \in Nat /\ b \in Nat
      OBVIOUS
    <3>4. QED
      BY <3>2, <3>3
  <2>3. QED
    BY <2>1, <2>2 DEF Injection, IsInjective
<1>5. IsFiniteSet(1 .. C) /\ Cardinality(1 .. C) = C
  BY <1>1, FS_Interval
<1>6. r \in Surjection(P, 1 .. C)
  BY <1>4, <1>5, FS_Injection
<1>7. \A m \in 1 .. C : \E p \in P : r[p] = m
  BY <1>6 DEF Surjection
<1>8. QED
  BY <1>1, <1>2, <1>3, <1>7 DEF Rank

\* Select takes the elements that are in T, at increasing positions.
LEMMA SelectProps ==
    ASSUME NEW S, NEW s \in Seq(S), NEW T
    PROVE  /\ Select(s, T) \in Seq(S)
           /\ Len(Select(s, T)) = Cardinality(Selected(s, T))
           /\ \E pos \in [DOMAIN Select(s, T) -> Selected(s, T)] :
                 /\ \A n \in DOMAIN Select(s, T) : Select(s, T)[n] = s[pos[n]]
                 /\ \A m, n \in DOMAIN Select(s, T) : m < n => pos[m] < pos[n]
                 /\ \A p \in Selected(s, T) : \E n \in DOMAIN Select(s, T) : pos[n] = p
<1> DEFINE P == Selected(s, T)
           C == Cardinality(P)
           nth(n) == CHOOSE p \in P : Rank(P, p) = n
           pos == [n \in 1 .. C |-> nth(n)]
<1>1. P \in SUBSET (1 .. Len(s)) /\ Len(s) \in Nat
  BY DEF Selected
<1>2. /\ C \in Nat
      /\ \A p \in P : Rank(P, p) \in 1 .. C
      /\ \A p, q \in P : p < q => Rank(P, p) < Rank(P, q)
      /\ \A m \in 1 .. C : \E p \in P : Rank(P, p) = m
  BY <1>1, Ranks
<1>3. ASSUME NEW n \in 1 .. C
      PROVE  nth(n) \in P /\ Rank(P, nth(n)) = n
  BY <1>2
<1>4. Select(s, T) = [n \in 1 .. C |-> s[nth(n)]]
  BY DEF Select, Selected, Rank
<1>5. \A p \in P : p \in Nat /\ s[p] \in S
  BY <1>1
<1>6. Select(s, T) \in Seq(S) /\ Len(Select(s, T)) = C /\ DOMAIN Select(s, T) = 1 .. C
  <2>1. \A n \in 1 .. C : s[nth(n)] \in S
    BY <1>3, <1>5
  <2> HIDE DEF nth, C
  <2>2. [n \in 1 .. C |-> s[nth(n)]] \in Seq(S)
    BY <1>2, <2>1
  <2>3. QED
    BY <1>2, <1>4, <2>2
<1>7. pos \in [1 .. C -> P] /\ \A n \in 1 .. C : Select(s, T)[n] = s[pos[n]]
  BY <1>3, <1>4
<1>8. ASSUME NEW m \in 1 .. C, NEW n \in 1 .. C, m < n
      PROVE  pos[m] < pos[n]
  <2>1. nth(m) \in P /\ nth(n) \in P /\ Rank(P, nth(m)) = m /\ Rank(P, nth(n)) = n
    BY <1>3
  <2>2. nth(m) \in Nat /\ nth(n) \in Nat /\ m \in Nat /\ n \in Nat
    BY <1>2, <1>5, <2>1
  <2>3. ~ (nth(n) < nth(m)) /\ nth(n) # nth(m)
    BY <1>2, <1>8, <2>1, <2>2
  <2>4. QED
    BY <2>2, <2>3
<1>9. ASSUME NEW p \in P
      PROVE  \E n \in 1 .. C : pos[n] = p
  <2>1. Rank(P, p) \in 1 .. C
    BY <1>2
  <2>2. nth(Rank(P, p)) \in P /\ Rank(P, nth(Rank(P, p))) = Rank(P, p)
    BY <1>3, <2>1
  <2>3. nth(Rank(P, p)) \in Nat /\ p \in Nat
    BY <1>5, <2>2
  <2>4. ~ (nth(Rank(P, p)) < p) /\ ~ (p < nth(Rank(P, p)))
    BY <1>2, <2>1, <2>2
  <2>5. QED
    BY <2>1, <2>3, <2>4
<1> HIDE DEF pos, P, C
<1>10. \E f \in [DOMAIN Select(s, T) -> P] :
          /\ \A n \in DOMAIN Select(s, T) : Select(s, T)[n] = s[f[n]]
          /\ \A m, n \in DOMAIN Select(s, T) : m < n => f[m] < f[n]
          /\ \A p \in P : \E n \in DOMAIN Select(s, T) : f[n] = p
  <2>1. pos \in [DOMAIN Select(s, T) -> P]
    BY <1>6, <1>7
  <2>2. WITNESS pos \in [DOMAIN Select(s, T) -> P]
  <2>3. QED
    BY <1>6, <1>7, <1>8, <1>9
<1>11. QED
  BY <1>6, <1>10 DEF P, C

-----------------------------------------------------------------------------
(* Sequences of signatures.                                                  *)

\* What the constants are.
LEMMA Constants ==
    ASSUME NEW i \in Inputs
    PROVE  /\ Script[i] \in Seq(Keys) /\ Len(Script[i]) \in Nat
           /\ DOMAIN Script[i] = 1 .. Len(Script[i])
           /\ Threshold[i] \in Nat \ {0} /\ Threshold[i] <= Len(Script[i])
           /\ \A p, q \in DOMAIN Script[i] : Script[i][p] = Script[i][q] => p = q
           /\ \A k \in Kinds : k[i] \in KeyhashKinds => Len(Script[i]) = 1
BY InputsAssumption DEF IsInjective

\* Two sequences of signatures whose keys differ, one after the other.
LEMMA Appended ==
    ASSUME NEW d \in Seq(Sigs), NEW e \in Seq(Sigs),
           DistinctPubs(d), DistinctPubs(e), Pubs(d) \cap Pubs(e) = {}
    PROVE  /\ d \o e \in Seq(Sigs)
           /\ Len(d \o e) = Len(d) + Len(e)
           /\ DistinctPubs(d \o e)
           /\ ToSet(d \o e) = ToSet(d) \cup ToSet(e)
           /\ Pubs(d \o e) = Pubs(d) \cup Pubs(e)
<1>1. /\ d \o e \in Seq(Sigs) /\ Len(d \o e) = Len(d) + Len(e)
      /\ Len(d) \in Nat /\ Len(e) \in Nat
      /\ DOMAIN d = 1 .. Len(d) /\ DOMAIN e = 1 .. Len(e) /\ DOMAIN (d \o e) = 1 .. Len(d) + Len(e)
  OBVIOUS
<1>2. \A j \in 1 .. Len(d) : (d \o e)[j] = d[j]
  OBVIOUS
<1>3. \A j \in 1 .. Len(e) : (d \o e)[Len(d) + j] = e[j]
  OBVIOUS
<1> DEFINE c == d \o e
<1> HIDE DEF c
<1>4. \A j \in DOMAIN c : \/ j \in 1 .. Len(d) /\ c[j] = d[j]
                          \/ j - Len(d) \in 1 .. Len(e) /\ c[j] = e[j - Len(d)]
  <2> TAKE j \in DOMAIN c
  <2>1. CASE j <= Len(d)
    BY <1>1, <1>2, <2>1 DEF c
  <2>2. CASE ~ (j <= Len(d))
    <3>1. j - Len(d) \in 1 .. Len(e) /\ Len(d) + (j - Len(d)) = j
      BY <1>1, <2>2 DEF c
    <3>2. QED
      BY <1>3, <3>1 DEF c
  <2>3. QED
    BY <2>1, <2>2
<1>5. Pubs(c) \subseteq Pubs(d) \cup Pubs(e) /\ ToSet(c) \subseteq ToSet(d) \cup ToSet(e)
  BY <1>1, <1>4 DEF Pubs, ToSet
<1>6. Pubs(d) \cup Pubs(e) \subseteq Pubs(c) /\ ToSet(d) \cup ToSet(e) \subseteq ToSet(c)
  <2>1. \A j \in 1 .. Len(d) : j \in DOMAIN c /\ c[j] = d[j]
    BY <1>1, <1>2 DEF c
  <2>2. \A j \in 1 .. Len(e) : Len(d) + j \in DOMAIN c /\ c[Len(d) + j] = e[j]
    BY <1>1, <1>3 DEF c
  <2>3. QED
    BY <1>1, <2>1, <2>2 DEF Pubs, ToSet
<1>8. DistinctPubs(c)
  <2> SUFFICES ASSUME NEW j \in DOMAIN c, NEW k \in DOMAIN c, c[j].pub = c[k].pub
               PROVE  j = k
    BY DEF DistinctPubs
  <2>0. j \in Nat /\ k \in Nat
    BY <1>1 DEF c
  <2>1. CASE j \in 1 .. Len(d) /\ k \in 1 .. Len(d) /\ c[j] = d[j] /\ c[k] = d[k]
    BY <1>1, <2>1 DEF DistinctPubs
  <2>2. CASE j - Len(d) \in 1 .. Len(e) /\ k - Len(d) \in 1 .. Len(e)
             /\ c[j] = e[j - Len(d)] /\ c[k] = e[k - Len(d)]
    <3>1. j - Len(d) = k - Len(d)
      BY <1>1, <2>2 DEF DistinctPubs
    <3>2. QED
      BY <1>1, <2>0, <3>1
  <2>3. CASE j \in 1 .. Len(d) /\ k - Len(d) \in 1 .. Len(e) /\ c[j] = d[j] /\ c[k] = e[k - Len(d)]
    <3>1. c[j].pub \in Pubs(d) /\ c[k].pub \in Pubs(e)
      BY <1>1, <2>3 DEF Pubs
    <3>2. QED
      BY <3>1
  <2>4. CASE k \in 1 .. Len(d) /\ j - Len(d) \in 1 .. Len(e) /\ c[k] = d[k] /\ c[j] = e[j - Len(d)]
    <3>1. c[k].pub \in Pubs(d) /\ c[j].pub \in Pubs(e)
      BY <1>1, <2>4 DEF Pubs
    <3>2. QED
      BY <3>1
  <2>5. QED
    BY <1>4, <2>1, <2>2, <2>3, <2>4
<1>9. QED
  BY <1>1, <1>5, <1>6, <1>8 DEF c

\* What a selection of distinct signatures is.
LEMMA MergedSigs ==
    ASSUME NEW d \in Seq(Sigs), NEW s \in Seq(Sigs), DistinctPubs(d), DistinctPubs(s)
    PROVE  /\ MergeSigs(d, s) \in Seq(Sigs)
           /\ DistinctPubs(MergeSigs(d, s))
           /\ ToSet(d) \subseteq ToSet(MergeSigs(d, s))
<1> DEFINE T == {sig \in ToSet(s) : sig.pub \notin Pubs(d)}
           e == Select(s, T)
<1>1. e \in Seq(Sigs)
  BY SelectProps
<1>2. PICK pos \in [DOMAIN e -> Selected(s, T)] :
         /\ \A n \in DOMAIN e : e[n] = s[pos[n]]
         /\ \A m, n \in DOMAIN e : m < n => pos[m] < pos[n]
  BY SelectProps
<1>3. DOMAIN e = 1 .. Len(e) /\ Len(e) \in Nat /\ DOMAIN s = 1 .. Len(s)
  BY <1>1
<1>4. \A n \in DOMAIN e : pos[n] \in DOMAIN s /\ s[pos[n]] \in T
  BY <1>2 DEF Selected
<1> HIDE DEF e
<1>5. DistinctPubs(e)
  <2> SUFFICES ASSUME NEW j \in DOMAIN e, NEW k \in DOMAIN e, e[j].pub = e[k].pub
               PROVE  j = k
    BY DEF DistinctPubs
  <2>1. pos[j] = pos[k]
    BY <1>2, <1>4 DEF DistinctPubs
  <2>2. j \in Nat /\ k \in Nat /\ pos[j] \in Nat /\ pos[k] \in Nat
    BY <1>3, <1>4
  <2>3. ~ (j < k) /\ ~ (k < j)
    BY <1>2, <2>1, <2>2
  <2>4. QED
    BY <2>2, <2>3
<1>6. Pubs(d) \cap Pubs(e) = {}
  BY <1>2, <1>4 DEF Pubs
<1>7. MergeSigs(d, s) = d \o e
  BY DEF MergeSigs, e
<1>8. QED
  BY <1>1, <1>5, <1>6, <1>7, Appended

\* The signatures that are collected are the first of partial_sigs: all of
\* them, unless there are more than enough.
LEMMA CollectedSigs ==
    ASSUME NEW r, r.partial \in Seq(Sigs), DistinctPubs(r.partial), NEW i \in Inputs
    PROVE  /\ Collected(r, i) \in Seq(Sigs)
           /\ DistinctPubs(Collected(r, i))
           /\ ToSet(Collected(r, i)) \subseteq ToSet(r.partial)
           /\ Len(Collected(r, i)) <= Threshold[i]
           /\ Len(r.partial) <= Threshold[i] => Collected(r, i) = r.partial
           /\ Len(r.partial) > Threshold[i] => Len(Collected(r, i)) = Threshold[i]
<1> DEFINE m == IF Len(r.partial) < Threshold[i] THEN Len(r.partial) ELSE Threshold[i]
           c == SubSeq(r.partial, 1, m)
<1>1. Threshold[i] \in Nat /\ Len(r.partial) \in Nat /\ m \in 0 .. Len(r.partial)
  BY Constants
<1> HIDE DEF m
<1>2. c \in Seq(Sigs) /\ Len(c) = m /\ DOMAIN c = 1 .. m /\ \A j \in 1 .. m : c[j] = r.partial[j]
  BY <1>1
<1>3. DOMAIN r.partial = 1 .. Len(r.partial)
  OBVIOUS
<1>4. m = Len(r.partial) => c = r.partial
  BY <1>1, <1>2, <1>3
<1>5. Collected(r, i) = c
  BY DEF Collected, m
<1> HIDE DEF c
<1>6. DistinctPubs(c)
  BY <1>1, <1>2, <1>3 DEF DistinctPubs
<1>7. ToSet(c) \subseteq ToSet(r.partial)
  BY <1>1, <1>2, <1>3 DEF ToSet
<1>8. QED
  BY <1>1, <1>2, <1>4, <1>5, <1>6, <1>7 DEF m

\* The signatures that are made: of keys of the script, none of which has a
\* signature, and no more than are missing.
LEMMA MadeSigs ==
    ASSUME NEW r \in InputData, DistinctPubs(r.partial), NEW i \in Inputs, NEW ks
    PROVE  /\ NewSigs(r, i, ks) \in Seq(Sigs)
           /\ DistinctPubs(NewSigs(r, i, ks))
           /\ Len(NewSigs(r, i, ks)) <= Threshold[i] - Len(Collected(r, i))
           /\ Pubs(NewSigs(r, i, ks)) \subseteq ToSet(Script[i])
           /\ Pubs(NewSigs(r, i, ks)) \cap Pubs(Collected(r, i)) = {}
           /\ \A s \in ToSet(NewSigs(r, i, ks)) : ValidSig(r, s)
<1> DEFINE T == ks \ Pubs(Collected(r, i))
           can == Select(Script[i], T)
           need == Threshold[i] - Len(Collected(r, i))
           m == IF Len(can) < need THEN Len(can) ELSE need
           new == [j \in 1..m |-> NewSig(r, can[j])]
<1>1. /\ Script[i] \in Seq(Keys) /\ DOMAIN Script[i] = 1 .. Len(Script[i]) /\ Len(Script[i]) \in Nat
      /\ \A p, q \in DOMAIN Script[i] : Script[i][p] = Script[i][q] => p = q
  BY Constants
<1>2. can \in Seq(Keys) /\ Len(can) \in Nat /\ DOMAIN can = 1 .. Len(can)
  BY <1>1, SelectProps
<1>3. PICK pos \in [DOMAIN can -> Selected(Script[i], T)] :
         /\ \A n \in DOMAIN can : can[n] = Script[i][pos[n]]
         /\ \A a, b \in DOMAIN can : a < b => pos[a] < pos[b]
  BY <1>1, SelectProps
<1>4. \A n \in DOMAIN can : pos[n] \in DOMAIN Script[i] /\ can[n] \in T
  BY <1>3 DEF Selected
<1>5. need \in Nat
  <2>1. r.partial \in Seq(Sigs)
    BY DEF InputData
  <2>2. Collected(r, i) \in Seq(Sigs) /\ Len(Collected(r, i)) <= Threshold[i] /\ Threshold[i] \in Nat
    BY <2>1, CollectedSigs, Constants
  <2>3. QED
    BY <2>2
<1>6. NewSigs(r, i, ks) = new
  BY DEF NewSigs
<1> HIDE DEF can, need
<1>7. m \in Nat /\ m <= need /\ 1 .. m \subseteq DOMAIN can
  BY <1>2, <1>5
<1> HIDE DEF m
<1>8. \A k \in Keys : NewSig(r, k) \in Sigs /\ NewSig(r, k).pub = k /\ ValidSig(r, NewSig(r, k))
  <2>1. r.sighash \in SigTypes \cup {None} /\ ALL \in SigTypes
    BY BoundsAssumption DEF InputData
  <2>2. QED
    BY <2>1 DEF NewSig, Sigs, ValidSig
<1>9. \A j \in 1 .. m : can[j] \in Keys
  BY <1>2, <1>7
<1>10. new \in Seq(Sigs) /\ Len(new) = m /\ DOMAIN new = 1 .. m
  BY <1>7, <1>8, <1>9
<1>11. \A j \in 1 .. m : new[j] = NewSig(r, can[j]) /\ new[j].pub = can[j]
  BY <1>8, <1>9
<1> HIDE DEF new
<1>12. DistinctPubs(new)
  <2> SUFFICES ASSUME NEW j \in 1 .. m, NEW k \in 1 .. m, can[j] = can[k]
               PROVE  j = k
    BY <1>10, <1>11 DEF DistinctPubs
  <2>1. pos[j] = pos[k] /\ pos[j] \in Nat
    BY <1>1, <1>3, <1>4, <1>7
  <2>2. j \in Nat /\ k \in Nat
    BY <1>7
  <2>3. ~ (j < k) /\ ~ (k < j)
    BY <1>3, <1>7, <2>1, <2>2
  <2>4. QED
    BY <2>2, <2>3
<1>13. Pubs(new) \subseteq ToSet(Script[i])
  BY <1>3, <1>4, <1>7, <1>10, <1>11 DEF Pubs, ToSet
<1>14. Pubs(new) \cap Pubs(Collected(r, i)) = {}
  BY <1>4, <1>7, <1>10, <1>11 DEF Pubs
<1>15. \A s \in ToSet(new) : ValidSig(r, s)
  BY <1>8, <1>9, <1>10, <1>11 DEF ToSet
<1>16. QED
  BY <1>6, <1>7, <1>10, <1>12, <1>13, <1>14, <1>15 DEF need

\* Signatures of keys of the script, put in the order of the script, are as
\* many as before; if each verifies and there are enough, they are a valid
\* final script.
LEMMA InScriptOrder ==
    ASSUME NEW i \in Inputs, NEW sigs \in Seq(Sigs), DistinctPubs(sigs),
           Pubs(sigs) \subseteq ToSet(Script[i]),
           Len(sigs) = Threshold[i], \A s \in ToSet(sigs) : s.good
    PROVE  /\ ScriptOrder(sigs, i) \in Seq(Sigs) /\ ScriptOrder(sigs, i) # <<>>
           /\ ValidFinal(ScriptOrder(sigs, i), i)
<1> DEFINE T == Pubs(sigs)
           P == Selected(Script[i], T)
           signed == Select(Script[i], T)
           of(k) == CHOOSE s \in ToSet(sigs) : s.pub = k
           f == [j \in DOMAIN signed |-> of(signed[j])]
           at(j) == CHOOSE p \in DOMAIN Script[i] : Script[i][p] = f[j].pub
<1>1. /\ Script[i] \in Seq(Keys) /\ DOMAIN Script[i] = 1 .. Len(Script[i]) /\ Len(Script[i]) \in Nat
      /\ \A p, q \in DOMAIN Script[i] : Script[i][p] = Script[i][q] => p = q
      /\ Threshold[i] \in Nat \ {0}
  BY Constants
<1>2. signed \in Seq(Keys) /\ Len(signed) = Cardinality(P) /\ DOMAIN signed = 1 .. Len(signed)
  BY <1>1, SelectProps
<1>3. PICK pos \in [DOMAIN signed -> P] :
         /\ \A n \in DOMAIN signed : signed[n] = Script[i][pos[n]]
         /\ \A a, b \in DOMAIN signed : a < b => pos[a] < pos[b]
  <2> HIDE DEF T
  <2>1. QED
    BY <1>1, SelectProps
<1>4. \A n \in DOMAIN signed : pos[n] \in DOMAIN Script[i] /\ signed[n] \in Pubs(sigs)
  BY <1>3 DEF Selected
<1>5. Cardinality(P) = Len(sigs)
  <2> DEFINE g == [p \in P |-> CHOOSE j \in DOMAIN sigs : sigs[j].pub = Script[i][p]]
  <2>1. DOMAIN sigs = 1 .. Len(sigs) /\ Len(sigs) \in Nat
    OBVIOUS
  <2>2. \A p \in P : p \in DOMAIN Script[i] /\ g[p] \in DOMAIN sigs /\ sigs[g[p]].pub = Script[i][p]
    BY DEF Selected, Pubs
  <2> HIDE DEF g
  <2>3. \A p, q \in P : g[p] = g[q] => p = q
    BY <1>1, <2>2
  <2>4. \A j \in DOMAIN sigs : \E p \in P : g[p] = j
    <3> TAKE j \in DOMAIN sigs
    <3>1. PICK p \in DOMAIN Script[i] : Script[i][p] = sigs[j].pub
      BY DEF Pubs, ToSet
    <3>2. p \in P
      BY <3>1 DEF Selected, Pubs
    <3>3. g[p] = j
      BY <2>2, <3>1, <3>2 DEF DistinctPubs
    <3>4. QED
      BY <3>2, <3>3
  <2>5. g \in [P -> 1 .. Len(sigs)]
    BY <2>1, <2>2 DEF g
  <2>6. g \in Bijection(P, 1 .. Len(sigs))
    BY <2>1, <2>3, <2>4, <2>5 DEF Bijection, Injection, Surjection, IsInjective
  <2>7. IsFiniteSet(P) /\ Cardinality(P) \in Nat
    <3>1. P \in SUBSET (1 .. Len(Script[i]))
      BY <1>1 DEF Selected
    <3>2. QED
      BY <1>1, <3>1, Ranks
  <2>8. Cardinality(1 .. Len(sigs)) = Len(sigs)
    <3> DEFINE n == Len(sigs)
    <3> HIDE DEF n
    <3>1. n \in Nat /\ 1 \in Int /\ n \in Int
      BY <2>1 DEF n
    <3>2. Cardinality(1 .. n) = IF 1 > n THEN 0 ELSE n - 1 + 1
      BY <3>1, FS_Interval
    <3>3. Cardinality(1 .. n) = n
      BY <3>1, <3>2
    <3>4. QED
      BY <3>3 DEF n
  <2>9. QED
    BY <2>6, <2>7, <2>8, FS_Bijection DEF ExistsBijection
<1>6. \A k \in Pubs(sigs) : of(k) \in ToSet(sigs) /\ of(k).pub = k
  BY DEF Pubs, ToSet
<1>7. \A s \in ToSet(sigs) : s \in Sigs
  BY DEF ToSet
<1>8. ScriptOrder(sigs, i) = f
  BY DEF ScriptOrder
<1> HIDE DEF signed, P, of
<1>9. f \in Seq(Sigs) /\ Len(f) = Threshold[i] /\ DOMAIN f = DOMAIN signed
  <2>1. \A j \in 1 .. Threshold[i] : of(signed[j]) \in Sigs
    BY <1>1, <1>2, <1>4, <1>5, <1>6, <1>7
  <2>2. DOMAIN signed = 1 .. Threshold[i]
    BY <1>2, <1>5
  <2>3. \A n \in Nat : [j \in 1 .. n |-> of(signed[j])] \in [1 .. n -> Sigs] => [j \in 1 .. n |-> of(signed[j])] \in Seq(Sigs)
    OBVIOUS
  <2>4. f = [j \in 1 .. Threshold[i] |-> of(signed[j])]
    BY <2>2
  <2>5. f \in [1 .. Threshold[i] -> Sigs] /\ f \in Seq(Sigs)
    BY <1>1, <2>1, <2>3, <2>4
  <2> HIDE DEF f
  <2>6. QED
    BY <1>1, <2>2, <2>5
<1>10. \A j \in DOMAIN f : f[j] \in ToSet(sigs) /\ f[j].pub = signed[j] /\ f[j].pub = Script[i][pos[j]]
  BY <1>3, <1>4, <1>6
<1> HIDE DEF f
<1>11. \A j \in DOMAIN f : at(j) = pos[j]
  <2> TAKE j \in DOMAIN f
  <2>1. pos[j] \in DOMAIN Script[i] /\ Script[i][pos[j]] = f[j].pub
    BY <1>4, <1>9, <1>10
  <2>2. at(j) \in DOMAIN Script[i] /\ Script[i][at(j)] = f[j].pub
    BY <2>1
  <2>3. QED
    BY <1>1, <2>1, <2>2
<1>12. \A j, k \in DOMAIN f : j < k => at(j) < at(k)
  <2> HIDE DEF at
  <2>1. QED
    BY <1>3, <1>9, <1>11
<1>13. \A j \in DOMAIN f : f[j].good /\ f[j].pub \in ToSet(Script[i])
  BY <1>4, <1>9, <1>10 DEF ToSet
<1>14. f # <<>>
  BY <1>1, <1>9
<1>15. QED
  BY <1>8, <1>9, <1>12, <1>13, <1>14 DEF ValidFinal

-----------------------------------------------------------------------------
(* Signing an input.                                                         *)

\* What is true of the data of input i in every state.
Sound(r, i) ==
    /\ r \in InputData
    /\ DistinctPubs(r.partial)
    /\ r.final # <<>> => ValidFinal(r.final, i)

\* No signature of r is lost in n.
Kept(r, n) ==
    IF r.final # <<>> THEN n.final = r.final
    ELSE n.final # <<>> \/ ToSet(r.partial) \subseteq ToSet(n.partial)

LEMMA FinalizedData ==
    ASSUME NEW r \in InputData, NEW f \in Seq(Sigs)
    PROVE  /\ Finalized(r, f) \in InputData
           /\ Finalized(r, f).final = f /\ Finalized(r, f).partial = <<>>
<1> DEFINE none == <<>>
<1>1. none \in Seq(Sigs)
  OBVIOUS
<1>2. Finalized(r, f) = [r EXCEPT !.final = f, !.partial = none,
                                  !.rds = FALSE, !.ws = FALSE, !.deriv = FALSE]
  BY DEF Finalized
<1> HIDE DEF none
<1>3. Finalized(r, f) \in InputData /\ Finalized(r, f).final = f /\ Finalized(r, f).partial = none
  BY <1>1, <1>2 DEF InputData
<1>4. QED
  BY <1>3 DEF none

LEMMA Finalizing ==
    ASSUME NEW r \in InputData, NEW i \in Inputs, r.final = <<>>,
           NEW f \in Seq(Sigs), f # <<>>, ValidFinal(f, i)
    PROVE  /\ Sound(Finalized(r, f), i) /\ Kept(r, Finalized(r, f))
           /\ Finalized(r, f).final = f
<1> DEFINE n == Finalized(r, f)
<1>1. n \in InputData /\ n.final = f /\ n.partial = <<>>
  BY FinalizedData
<1> HIDE DEF n
<1>2. DistinctPubs(n.partial)
  BY <1>1 DEF DistinctPubs
<1>3. QED
  BY <1>1, <1>2 DEF Sound, Kept, n

Added(r, e) == [r EXCEPT !.partial = @ \o e]

LEMMA Adding ==
    ASSUME NEW r \in InputData, NEW i \in Inputs, Sound(r, i), r.final = <<>>,
           NEW e \in Seq(Sigs), DistinctPubs(e), Pubs(r.partial) \cap Pubs(e) = {}
    PROVE  /\ Sound(Added(r, e), i) /\ Kept(r, Added(r, e))
           /\ Added(r, e).final = <<>> /\ Added(r, e).partial = r.partial \o e
<1> DEFINE n == Added(r, e)
<1>1. r.partial \in Seq(Sigs)
  BY DEF InputData
<1>2. /\ r.partial \o e \in Seq(Sigs) /\ DistinctPubs(r.partial \o e)
      /\ ToSet(r.partial) \subseteq ToSet(r.partial \o e)
  BY <1>1, Appended DEF Sound
<1>3. n \in InputData /\ n.final = <<>> /\ n.partial = r.partial \o e
  BY <1>2 DEF InputData, Added
<1> HIDE DEF n
<1>4. QED
  BY <1>2, <1>3 DEF Sound, Kept, n

\* The only signature of a keyhash input.
LEMMA SingleSig ==
    ASSUME NEW r \in InputData, NEW i \in Inputs, Sound(r, i), r.final = <<>>,
           Len(Script[i]) = 1, NEW sig \in Sigs, sig.good, sig.pub = Script[i][1],
           r.partial = <<>> \/ r.partial = <<sig>>, NEW finalize \in BOOLEAN
    PROVE  LET out == GotSingleSig(r, sig, finalize)
           IN  /\ out.kind = "info" /\ out.missing = 0
               /\ Sound(out.rec, i) /\ Kept(r, out.rec)
               /\ finalize => out.rec.final # <<>>
               /\ ~ finalize => out.rec.final = <<>> /\ out.rec.partial = <<sig>>
<1> DEFINE n == IF finalize THEN Finalized(r, <<sig>>)
                ELSE IF sig.pub \in Pubs(r.partial) THEN r
                ELSE [r EXCEPT !.partial = Append(@, sig)]
<1>0. /\ GotSingleSig(r, sig, finalize).kind = "info"
      /\ GotSingleSig(r, sig, finalize).missing = 0
      /\ GotSingleSig(r, sig, finalize).rec = n
  BY DEF GotSingleSig, Info
<1>1. CASE finalize
  <2> DEFINE f == <<sig>>
  <2>1. f \in Seq(Sigs) /\ f # <<>> /\ Len(f) = 1 /\ DOMAIN f = {1} /\ f[1] = sig
    OBVIOUS
  <2>2. DOMAIN Script[i] = {1} /\ Threshold[i] = 1
    BY Constants
  <2> HIDE DEF f
  <2>3. ValidFinal(f, i)
    BY <2>1, <2>2 DEF ValidFinal, ToSet
  <2>4. n = Finalized(r, f)
    BY <1>1 DEF f
  <2>5. QED
    BY <1>0, <1>1, <2>1, <2>3, <2>4, Finalizing
<1>2. CASE ~ finalize /\ r.partial = <<sig>>
  <2>1. sig.pub \in Pubs(r.partial)
    BY <1>2 DEF Pubs
  <2>2. QED
    BY <1>0, <1>2, <2>1 DEF Kept
<1>3. CASE ~ finalize /\ r.partial = <<>>
  <2> DEFINE e == <<sig>>
  <2>1. sig.pub \notin Pubs(r.partial)
    BY <1>3 DEF Pubs
  <2>2. e \in Seq(Sigs) /\ DistinctPubs(e) /\ Pubs(r.partial) \cap Pubs(e) = {}
    BY <1>3 DEF DistinctPubs, Pubs
  <2>3. Append(r.partial, sig) = r.partial \o e /\ r.partial \o e = <<sig>>
    BY <1>3
  <2>4. n = Added(r, e)
    BY <1>3, <2>1, <2>3 DEF Added
  <2> HIDE DEF e, n
  <2>5. Sound(n, i) /\ Kept(r, n) /\ n.final = <<>> /\ n.partial = r.partial \o e
    BY <2>2, <2>4, Adding
  <2>6. QED
    BY <1>0, <1>3, <2>3, <2>5
<1>4. QED
  BY <1>1, <1>2, <1>3

LEMMA SignedKeyhash ==
    ASSUME NEW r \in InputData, NEW i \in Inputs, Sound(r, i), r.final = <<>>,
           Len(Script[i]) = 1, NEW ks, NEW finalize \in BOOLEAN
    PROVE  LET out == SignKeyhash(r, i, ks, finalize)
           IN  /\ Sound(out.rec, i) /\ Kept(r, out.rec)
               /\ out.kind = "info" /\ out.missing = 0 /\ finalize => out.rec.final # <<>>
<1> DEFINE pub == Script[i][1]
<1>1. pub \in Keys
  BY Constants
<1>2. r.partial \in Seq(Sigs) /\ r.sighash \in SigTypes \cup {None}
  BY DEF InputData
<1>3. CASE r.partial # <<>> /\ Len(r.partial) = 1 /\ r.partial[1].pub = pub /\ ValidSig(r, r.partial[1])
  <2> DEFINE sig == r.partial[1]
  <2>1. sig \in Sigs /\ r.partial = <<sig>> /\ sig.good
    BY <1>2, <1>3 DEF ValidSig
  <2>2. SignKeyhash(r, i, ks, finalize) = GotSingleSig(r, sig, finalize)
    BY <1>3 DEF SignKeyhash
  <2> HIDE DEF sig
  <2>3. sig.pub = Script[i][1]
    BY <1>3 DEF sig
  <2>4. QED
    BY <2>1, <2>2, <2>3, SingleSig
<1>4. CASE r.partial = <<>> /\ pub \in ks
  <2> DEFINE sig == NewSig(r, pub)
  <2>1. sig \in Sigs /\ sig.pub = pub /\ sig.good
    BY <1>1, <1>2, BoundsAssumption DEF NewSig, Sigs
  <2>2. SignKeyhash(r, i, ks, finalize) = GotSingleSig(r, sig, finalize)
    BY <1>4 DEF SignKeyhash
  <2> HIDE DEF sig
  <2>3. QED
    BY <1>4, <2>1, <2>2, SingleSig
<1>5. CASE /\ ~ (r.partial # <<>> /\ Len(r.partial) = 1 /\ r.partial[1].pub = pub /\ ValidSig(r, r.partial[1]))
           /\ ~ (r.partial = <<>> /\ pub \in ks)
  <2>1. SignKeyhash(r, i, ks, finalize) \in {Error(r), Info(r, 1)}
    BY <1>5 DEF SignKeyhash
  <2>2. QED
    BY <2>1 DEF Error, Info, Kept
<1>6. QED
  BY <1>3, <1>4, <1>5

\* The signatures that have been collected and those that are made for them.
LEMMA AllSigs ==
    ASSUME NEW r \in InputData, NEW i \in Inputs, Sound(r, i), NEW ks
    PROVE  LET c == Collected(r, i)
               new == NewSigs(r, i, ks)
           IN  /\ c \o new \in Seq(Sigs) /\ DistinctPubs(c \o new)
               /\ Len(c \o new) = Len(c) + Len(new)
               /\ Len(c) \in Nat /\ Len(new) \in Nat /\ Len(c) + Len(new) <= Threshold[i]
               /\ ToSet(c \o new) = ToSet(c) \cup ToSet(new)
               /\ Pubs(c \o new) = Pubs(c) \cup Pubs(new)
               /\ Pubs(r.partial) \cap Pubs(new) = {}
               /\ c = r.partial \/ (new = <<>> /\ Len(c) = Threshold[i])
<1> DEFINE c == Collected(r, i)
           new == NewSigs(r, i, ks)
<1>1. r.partial \in Seq(Sigs) /\ DistinctPubs(r.partial)
  BY DEF InputData, Sound
<1>2. /\ c \in Seq(Sigs) /\ DistinctPubs(c)
      /\ Len(r.partial) <= Threshold[i] => c = r.partial
      /\ Len(r.partial) > Threshold[i] => Len(c) = Threshold[i]
  BY <1>1, CollectedSigs
<1>3. /\ new \in Seq(Sigs) /\ DistinctPubs(new)
      /\ Len(new) <= Threshold[i] - Len(c)
      /\ Pubs(new) \cap Pubs(c) = {}
  BY <1>1, MadeSigs
<1>4. Len(r.partial) \in Nat /\ Threshold[i] \in Nat
  BY <1>1, Constants
<1> HIDE DEF c, new
<1>5. Len(c) \in Nat /\ Len(new) \in Nat
  BY <1>2, <1>3
<1>6. /\ c \o new \in Seq(Sigs) /\ DistinctPubs(c \o new)
      /\ Len(c \o new) = Len(c) + Len(new)
      /\ ToSet(c \o new) = ToSet(c) \cup ToSet(new)
      /\ Pubs(c \o new) = Pubs(c) \cup Pubs(new)
  BY <1>2, <1>3, Appended
<1>7. c = r.partial \/ (new = <<>> /\ Len(c) = Threshold[i])
  <2>1. CASE Len(r.partial) <= Threshold[i]
    BY <1>2, <2>1
  <2>2. CASE Len(r.partial) > Threshold[i]
    <3>1. Len(c) = Threshold[i] /\ Len(new) = 0
      BY <1>2, <1>3, <1>4, <1>5, <2>2
    <3>2. QED
      BY <1>3, <3>1
  <2>3. QED
    BY <1>4, <2>1, <2>2
<1>8. Pubs(r.partial) \cap Pubs(new) = {}
  <2>1. CASE c = r.partial
    BY <1>3, <2>1
  <2>2. CASE new = <<>>
    BY <2>2 DEF Pubs
  <2>3. QED
    BY <1>7, <2>1, <2>2
<1>9. Len(c) + Len(new) <= Threshold[i]
  BY <1>3, <1>4, <1>5
<1>10. QED
  BY <1>5, <1>6, <1>7, <1>8, <1>9 DEF c, new

\* The three outcomes of SignMultisig.
LEMMA MultisigCases ==
    ASSUME NEW r \in InputData, NEW i \in Inputs, Sound(r, i), r.final = <<>>,
           NEW ks, NEW finalize \in BOOLEAN
    PROVE  LET out == SignMultisig(r, i, ks, finalize)
               new == NewSigs(r, i, ks)
               all == Collected(r, i) \o new
           IN  \/ out = Error(r)
               \/ /\ \A s \in ToSet(r.partial) : ValidSig(r, s)
                  /\ Pubs(all) \subseteq ToSet(Script[i])
                  /\ Len(all) = Threshold[i]
                  /\ ScriptOrder(all, i) \in Seq(Sigs) /\ ScriptOrder(all, i) # <<>>
                  /\ ValidFinal(ScriptOrder(all, i), i)
                  /\ out = Info(IF finalize THEN Finalized(r, ScriptOrder(all, i)) ELSE Added(r, new), 0)
               \/ /\ Len(all) # Threshold[i]
                  /\ out.rec = Added(r, new) /\ out.kind = "info" /\ out.missing # 0
<1> DEFINE c == Collected(r, i)
           new == NewSigs(r, i, ks)
           all == c \o new
           missing == Threshold[i] - Len(c) - Len(new)
           out == SignMultisig(r, i, ks, finalize)
           bad == \/ \E s \in ToSet(r.partial) : ~ValidSig(r, s)
                  \/ ~(Pubs(c) \subseteq ToSet(Script[i]))
<1>1. out = IF bad THEN Error(r)
            ELSE IF missing = 0 THEN Info(Ready(r, i, new, finalize), 0)
            ELSE Info(Added(r, new), missing)
  BY DEF SignMultisig, Added
<1>2. /\ all \in Seq(Sigs) /\ DistinctPubs(all)
      /\ Len(all) = Len(c) + Len(new) /\ Len(c) \in Nat /\ Len(new) \in Nat
      /\ ToSet(all) = ToSet(c) \cup ToSet(new)
      /\ Pubs(all) = Pubs(c) \cup Pubs(new)
  BY AllSigs
<1>3. ToSet(c) \subseteq ToSet(r.partial)
  BY CollectedSigs DEF InputData, Sound
<1>4. Pubs(new) \subseteq ToSet(Script[i]) /\ \A s \in ToSet(new) : ValidSig(r, s)
  BY MadeSigs DEF Sound
<1>5. Ready(r, i, new, finalize) = IF finalize THEN Finalized(r, ScriptOrder(all, i)) ELSE Added(r, new)
  BY DEF Ready, Added
<1>6. Threshold[i] \in Nat
  BY Constants
<1> HIDE DEF c, new, all, out
<1>7. CASE bad
  BY <1>1, <1>7 DEF out, all, c, new
<1>8. CASE ~ bad /\ missing = 0
  <2>1. Pubs(all) \subseteq ToSet(Script[i])
    BY <1>2, <1>4, <1>8
  <2>2. Len(all) = Threshold[i]
    BY <1>2, <1>6, <1>8
  <2>3. \A s \in ToSet(all) : s.good
    BY <1>2, <1>3, <1>4, <1>8 DEF ValidSig
  <2>4. /\ ScriptOrder(all, i) \in Seq(Sigs) /\ ScriptOrder(all, i) # <<>>
        /\ ValidFinal(ScriptOrder(all, i), i)
    BY <1>2, <2>1, <2>2, <2>3, InScriptOrder
  <2>5. out = Info(IF finalize THEN Finalized(r, ScriptOrder(all, i)) ELSE Added(r, new), 0)
    BY <1>1, <1>5, <1>8
  <2>6. \A s \in ToSet(r.partial) : ValidSig(r, s)
    BY <1>8
  <2>7. QED
    BY <2>1, <2>2, <2>4, <2>5, <2>6 DEF out, all, c, new
<1>9. CASE ~ bad /\ missing # 0
  <2>1. out = Info(Added(r, new), missing)
    BY <1>1, <1>9
  <2>2. out.rec = Added(r, new) /\ out.kind = "info" /\ out.missing # 0
    BY <1>9, <2>1 DEF Info
  <2>3. Len(all) # Threshold[i]
    BY <1>2, <1>6, <1>9
  <2>4. QED
    BY <2>2, <2>3 DEF out, all, c, new
<1>10. QED
  BY <1>7, <1>8, <1>9

LEMMA SignedMultisig ==
    ASSUME NEW r \in InputData, NEW i \in Inputs, Sound(r, i), r.final = <<>>,
           NEW ks, NEW finalize \in BOOLEAN
    PROVE  LET out == SignMultisig(r, i, ks, finalize)
           IN  /\ Sound(out.rec, i) /\ Kept(r, out.rec)
               /\ out.kind = "info" /\ out.missing = 0 /\ finalize => out.rec.final # <<>>
<1> DEFINE new == NewSigs(r, i, ks)
           all == Collected(r, i) \o new
           out == SignMultisig(r, i, ks, finalize)
<1>1. new \in Seq(Sigs) /\ DistinctPubs(new) /\ Pubs(r.partial) \cap Pubs(new) = {}
  BY MadeSigs, AllSigs DEF Sound
<1>2. Sound(Added(r, new), i) /\ Kept(r, Added(r, new)) /\ Added(r, new).final = <<>>
  BY <1>1, Adding
<1>3. CASE out = Error(r)
  BY <1>3 DEF Error, Kept
<1>4. CASE /\ ScriptOrder(all, i) \in Seq(Sigs) /\ ScriptOrder(all, i) # <<>>
           /\ ValidFinal(ScriptOrder(all, i), i)
           /\ out = Info(IF finalize THEN Finalized(r, ScriptOrder(all, i)) ELSE Added(r, new), 0)
  <2> DEFINE f == ScriptOrder(all, i)
  <2> HIDE DEF f
  <2>1. Sound(Finalized(r, f), i) /\ Kept(r, Finalized(r, f)) /\ Finalized(r, f).final # <<>>
    BY <1>4, Finalizing DEF f
  <2>2. out = Info(IF finalize THEN Finalized(r, f) ELSE Added(r, new), 0)
    BY <1>4 DEF f
  <2> HIDE DEF out, new
  <2>3. out.rec = (IF finalize THEN Finalized(r, f) ELSE Added(r, new))
    BY <2>2 DEF Info
  <2>4. Sound(out.rec, i) /\ Kept(r, out.rec) /\ (finalize => out.rec.final # <<>>)
    BY <1>2, <2>1, <2>3
  <2>5. QED
    BY <2>4 DEF out, new
<1>5. CASE out.rec = Added(r, new) /\ out.kind = "info" /\ out.missing # 0
  BY <1>2, <1>5
<1>6. QED
  BY <1>3, <1>4, <1>5, MultisigCases

\* What sign() does to an input: no signature is lost, and final fields are
\* valid.
LEMMA SignedInput ==
    ASSUME NEW r \in InputData, NEW i \in Inputs, Sound(r, i), kind \in Kinds,
           NEW ks, NEW finalize \in BOOLEAN
    PROVE  LET out == SignInput(r, i, ks, finalize)
           IN  /\ Sound(out.rec, i) /\ Kept(r, out.rec)
               /\ out.kind = "info" /\ out.missing = 0 /\ finalize => out.rec.final # <<>>
<1> DEFINE out == SignInput(r, i, ks, finalize)
           Holds(o) == /\ Sound(o.rec, i) /\ Kept(r, o.rec)
                       /\ o.kind = "info" /\ o.missing = 0 /\ finalize => o.rec.final # <<>>
<1>1. Holds(Error(r)) /\ Holds(Unsignable(r))
  BY DEF Error, Unsignable, Kept
<1>2. CASE r.final # <<>>
  <2>1. Holds(Info(r, 0))
    BY <1>2 DEF Info, Kept
  <2>2. out \in {Error(r), Info(r, 0)}
    BY <1>2 DEF SignInput
  <2> HIDE DEF Holds, out
  <2>3. Holds(out)
    BY <1>1, <2>1, <2>2
  <2>4. QED
    BY <2>3 DEF Holds, out
<1>3. CASE r.final = <<>>
  <2>1. IsKeyhash(i) => Len(Script[i]) = 1
    BY Constants DEF IsKeyhash
  <2>2. IsKeyhash(i) => Holds(SignKeyhash(r, i, ks, finalize))
    BY <1>3, <2>1, SignedKeyhash
  <2>3. Holds(SignMultisig(r, i, ks, finalize))
    BY <1>3, SignedMultisig
  <2>4. \/ out \in {Error(r), Unsignable(r), SignMultisig(r, i, ks, finalize)}
        \/ IsKeyhash(i) /\ out = SignKeyhash(r, i, ks, finalize)
    BY <1>3, Zenon DEF SignInput, SignWitness, SignNonWitness
  <2> HIDE DEF Holds, out
  <2>5. Holds(out)
    BY <1>1, <2>2, <2>3, <2>4
  <2>6. QED
    BY <2>5 DEF Holds, out
<1>4. QED
  BY <1>2, <1>3

-----------------------------------------------------------------------------
(* Signing, merging and handing on a PSBT.                                   *)

SoundInputs(ins) ==
    ins \in [Inputs -> InputData] /\ \A i \in Inputs : Sound(ins[i], i)

LEMMA SignedInputs ==
    ASSUME NEW ins, SoundInputs(ins), kind \in Kinds, NEW ks, NEW finalize \in BOOLEAN
    PROVE  LET result == SignResult(ins, ks, finalize).inputs
           IN  /\ SoundInputs(result)
               /\ \A i \in Inputs : Kept(ins[i], result[i])
<1> DEFINE out(i) == SignInput(ins[i], i, ks, finalize)
           result == SignResult(ins, ks, finalize).inputs
<1>1. \A i \in Inputs : Sound(out(i).rec, i) /\ Kept(ins[i], out(i).rec)
  BY SignedInput DEF SoundInputs
<1>2. \A i \in Inputs : Sound(ins[i], i) /\ Kept(ins[i], ins[i])
  BY DEF SoundInputs, Kept
<1>3. /\ result = [i \in Inputs |-> result[i]]
      /\ \A i \in Inputs : result[i] \in {out(i).rec, ins[i]}
  BY Zenon DEF SignResult
<1> HIDE DEF out, result
<1>4. \A i \in Inputs : Sound(result[i], i) /\ Kept(ins[i], result[i])
  BY <1>1, <1>2, <1>3
<1>5. \A i \in Inputs : result[i] \in InputData
  BY <1>4 DEF Sound
<1>6. result \in [Inputs -> InputData]
  BY <1>3, <1>5
<1>7. QED
  BY <1>4, <1>6 DEF SoundInputs, result

\* What merge() assigns to d before it looks at the sighash type.
Half(h, d, a, b, c, u, p) ==
    h = [d EXCEPT !.rds = a, !.ws = b, !.deriv = c, !.utxo = u, !.partial = p]

\* It leaves final and blobs alone.
LEMMA Halfway ==
    ASSUME NEW d \in InputData, NEW u \in Utxos, NEW p \in Seq(Sigs),
           NEW a \in BOOLEAN, NEW b \in BOOLEAN, NEW c \in BOOLEAN,
           NEW h, Half(h, d, a, b, c, u, p)
    PROVE  h \in InputData /\ h.partial = p /\ h.final = d.final /\ h.blobs = d.blobs
BY DEF InputData, Half

LEMMA MergedInput ==
    ASSUME NEW i \in Inputs, NEW d, NEW s, Sound(d, i), Sound(s, i), NEW dup \in BOOLEAN,
           dup => d.blobs + s.blobs <= MaxBlobs
    PROVE  Sound(MergeInput(d, s, dup), i) /\ Kept(d, MergeInput(d, s, dup))
<1> DEFINE sigs == MergeSigs(d.partial, s.partial)
           half == [d EXCEPT !.rds = @ \/ s.rds, !.ws = @ \/ s.ws, !.deriv = @ \/ s.deriv,
                             !.utxo = MergeUtxo(@, s.utxo), !.partial = sigs]
           n == MergeInput(d, s, dup)
<1>0. d \in InputData /\ s \in InputData /\ d.partial \in Seq(Sigs) /\ s.partial \in Seq(Sigs)
  BY DEF Sound, InputData
<1>1. sigs \in Seq(Sigs) /\ DistinctPubs(sigs) /\ ToSet(d.partial) \subseteq ToSet(sigs)
  BY <1>0, MergedSigs DEF Sound
<1>2. MergeUtxo(d.utxo, s.utxo) \in Utxos
  BY <1>0 DEF InputData, MergeUtxo, Utxos
<1>3. MergeBlobs(d.blobs, s.blobs, dup) \in 0 .. MaxBlobs
  BY <1>0, BoundsAssumption DEF InputData, MergeBlobs
<1> DEFINE uu == MergeUtxo(d.utxo, s.utxo)
           bb == MergeBlobs(d.blobs, s.blobs, dup)
<1>4. n = IF SighashConflict(d, s) THEN half
          ELSE [half EXCEPT !.sighash = IF @ = None THEN s.sighash ELSE @,
                            !.final = IF @ = <<>> THEN s.final ELSE @,
                            !.blobs = MergeBlobs(@, s.blobs, dup)]
  BY DEF MergeInput
<1> HIDE DEF sigs, n
<1>5. half \in InputData /\ half.partial = sigs /\ half.final = d.final /\ half.blobs = d.blobs
  <2> DEFINE a == d.rds \/ s.rds
             b == d.ws \/ s.ws
             c == d.deriv \/ s.deriv
  <2>1. Half(half, d, a, b, c, uu, sigs)
    BY DEF Half
  <2>2. a \in BOOLEAN /\ b \in BOOLEAN /\ c \in BOOLEAN
    BY <1>0 DEF InputData
  <2> HIDE DEF half, uu, a, b, c
  <2>3. uu \in Utxos
    BY <1>2 DEF uu
  <2>4. QED
    BY ONLY <1>0, <1>1, <2>1, <2>2, <2>3, Halfway
<1>6. CASE SighashConflict(d, s)
  <2>1. n = half
    BY <1>4, <1>6
  <2> HIDE DEF half
  <2>2. n \in InputData /\ n.partial = sigs /\ n.final = d.final
    BY <1>5, <2>1
  <2>3. QED
    BY <1>1, <2>2 DEF Sound, Kept, n
<1>7. CASE ~ SighashConflict(d, s)
  <2>1. n = [half EXCEPT !.sighash = IF @ = None THEN s.sighash ELSE @,
                         !.final = IF @ = <<>> THEN s.final ELSE @,
                         !.blobs = MergeBlobs(@, s.blobs, dup)]
    BY <1>4, <1>7
  <2> HIDE DEF half
  <2>2. n \in InputData /\ n.partial = sigs /\ n.final = (IF d.final = <<>> THEN s.final ELSE d.final)
    BY <1>0, <1>3, <1>5, <2>1 DEF InputData
  <2>3. QED
    BY <1>1, <2>2 DEF Sound, Kept, n
<1>8. QED
  BY <1>6, <1>7

LEMMA MergedInputs ==
    ASSUME NEW d, NEW s, SoundInputs(d), SoundInputs(s), NEW dup \in BOOLEAN,
           \A i \in Inputs : dup => d[i].blobs + s[i].blobs <= MaxBlobs
    PROVE  /\ SoundInputs(Merged(d, s, dup))
           /\ \A i \in Inputs : Kept(d[i], Merged(d, s, dup)[i])
<1> DEFINE n == Merged(d, s, dup)
<1>1. /\ n = [i \in Inputs |-> n[i]]
      /\ \A i \in Inputs : n[i] \in {d[i], MergeInput(d[i], s[i], dup)}
  BY Zenon DEF Merged
<1>2. \A i \in Inputs : Sound(d[i], i) /\ Kept(d[i], d[i])
  BY DEF SoundInputs, Kept
<1>3. \A i \in Inputs : Sound(MergeInput(d[i], s[i], dup), i) /\ Kept(d[i], MergeInput(d[i], s[i], dup))
  BY MergedInput DEF SoundInputs
<1> HIDE DEF n
<1>4. \A i \in Inputs : Sound(n[i], i) /\ Kept(d[i], n[i])
  BY <1>1, <1>2, <1>3
<1>5. \A i \in Inputs : n[i] \in InputData
  BY <1>4 DEF Sound
<1>6. n \in [Inputs -> InputData]
  BY <1>1, <1>5
<1>7. QED
  BY <1>4, <1>6 DEF SoundInputs, n

LEMMA ReadInputs ==
    ASSUME NEW ins, SoundInputs(ins)
    PROVE  SoundInputs(Read(Wire(ins)))
<1> DEFINE w == Wire(ins)
           n == Read(w)
<1>1. ASSUME NEW i \in Inputs
      PROVE  Sound(w[i], i)
  <2> DEFINE r == ins[i]
  <2>1. r \in InputData /\ Sound(r, i)
    BY DEF SoundInputs
  <2>2. w[i] = IF r.final = <<>> THEN r ELSE [Finalized(r, r.final) EXCEPT !.sighash = None]
    BY DEF Wire
  <2> HIDE DEF w, r
  <2>3. CASE r.final # <<>>
    <3> DEFINE g == Finalized(r, r.final)
    <3>0. g \in InputData /\ g.final = r.final /\ g.partial = <<>>
      <4>1. r.final \in Seq(Sigs) /\ r \in InputData
        BY <2>1 DEF InputData
      <4>2. QED
        BY <4>1, FinalizedData
    <3> HIDE DEF g
    <3>1. w[i] \in InputData /\ w[i].final = r.final /\ w[i].partial = <<>>
      <4>1. w[i] = [g EXCEPT !.sighash = None]
        BY <2>2, <2>3 DEF g
      <4>2. QED
        BY <3>0, <4>1 DEF InputData
    <3>2. DistinctPubs(w[i].partial)
      BY <3>1 DEF DistinctPubs
    <3>3. QED
      BY <2>1, <3>1, <3>2 DEF Sound
  <2>4. QED
    BY <2>1, <2>2, <2>3
<1>2. \A i \in Inputs : n[i] \in {w[i], [w[i] EXCEPT !.utxo = "both"]} /\ n = [j \in Inputs |-> n[j]]
  BY Zenon DEF Read
<1> HIDE DEF w, n
<1>3. ASSUME NEW i \in Inputs
      PROVE  Sound(n[i], i)
  <2>1. w[i] \in InputData /\ Sound(w[i], i)
    BY <1>1 DEF Sound
  <2>2. CASE n[i] = [w[i] EXCEPT !.utxo = "both"]
    <3>1. n[i] \in InputData /\ n[i].final = w[i].final /\ n[i].partial = w[i].partial
      BY <2>1, <2>2 DEF InputData, Utxos
    <3>2. QED
      BY <2>1, <3>1 DEF Sound
  <2>3. QED
    BY <1>2, <2>1, <2>2
<1>4. n \in [Inputs -> InputData]
  <2>1. n = [j \in Inputs |-> n[j]]
    BY <1>2, InputsAssumption DEF Inputs
  <2>2. \A j \in Inputs : n[j] \in InputData
    BY <1>3 DEF Sound
  <2>3. QED
    BY <2>1, <2>2
<1>5. QED
  BY <1>3, <1>4 DEF SoundInputs, n, w

-----------------------------------------------------------------------------
(* The invariant.                                                            *)

\* TypeOK and FinalIsValid say that every copy is sound.
LEMMA AllSound ==
    TypeOK /\ FinalIsValid <=>
        /\ kind \in Kinds /\ foreign \in 0 .. MaxForeign
        /\ copies = [c \in Copies |-> copies[c]]
        /\ \A c \in Copies : SoundInputs(copies[c])
BY DEF TypeOK, FinalIsValid, SoundInputs, Sound

LEMMA InitSound == Init => TypeOK /\ FinalIsValid
<1> SUFFICES ASSUME Init
             PROVE  TypeOK /\ FinalIsValid
  OBVIOUS
<1>1. /\ kind \in Kinds /\ copies \in [Copies -> Prepared(kind)] /\ foreign = 0
  BY DEF Init
<1>2. \A p \in Prepared(kind) : SoundInputs(p)
  BY <1>1, PreparedAssumption DEF SoundInputs, Sound
<1>3. QED
  BY <1>1, <1>2, AllSound, BoundsAssumption

\* What the code changes of one copy is sound.
LEMMA OneCopy ==
    ASSUME TypeOK, FinalIsValid, NEW c \in Copies, NEW ins, SoundInputs(ins),
           copies' = [copies EXCEPT ![c] = ins], kind' = kind, foreign' \in 0 .. MaxForeign
    PROVE  (TypeOK /\ FinalIsValid)'
<1>1. /\ kind \in Kinds /\ copies \in [Copies -> [Inputs -> InputData]]
      /\ \A d \in Copies : SoundInputs(copies[d])
  BY AllSound DEF TypeOK
<1>2. /\ copies' = [d \in Copies |-> copies'[d]]
      /\ \A d \in Copies : copies'[d] = IF d = c THEN ins ELSE copies[d]
  BY <1>1
<1>3. \A d \in Copies : SoundInputs(copies'[d])
  BY <1>1, <1>2
<1>4. \A d \in Copies : SoundInputs(copies[d])'
  BY <1>3 DEF SoundInputs, Sound, InputData, Sigs, Utxos, DistinctPubs, ValidFinal
<1>5. QED
  BY <1>1, <1>2, <1>3 DEF TypeOK, FinalIsValid, SoundInputs, Sound

LEMMA NextSound == TypeOK /\ FinalIsValid /\ [Next]_vars => (TypeOK /\ FinalIsValid)'
<1> SUFFICES ASSUME TypeOK, FinalIsValid, [Next]_vars
             PROVE  (TypeOK /\ FinalIsValid)'
  OBVIOUS
<1>1. /\ kind \in Kinds /\ foreign \in 0 .. MaxForeign
      /\ copies \in [Copies -> [Inputs -> InputData]]
      /\ \A d \in Copies : SoundInputs(copies[d])
  BY AllSound DEF TypeOK
<1>2. ASSUME NEW c \in Copies, NEW ks, NEW finalize \in BOOLEAN, Sign(c, ks, finalize)
      PROVE  (TypeOK /\ FinalIsValid)'
  <2>1. SoundInputs(SignResult(copies[c], ks, finalize).inputs)
    BY <1>1, SignedInputs
  <2>2. /\ copies' = [copies EXCEPT ![c] = SignResult(copies[c], ks, finalize).inputs]
        /\ kind' = kind /\ foreign' \in 0 .. MaxForeign
    BY <1>1, <1>2 DEF Sign
  <2>3. QED
    BY <2>1, <2>2, OneCopy
<1>3. ASSUME NEW c \in Copies, ExtractTransaction(c)
      PROVE  (TypeOK /\ FinalIsValid)'
  BY <1>2, <1>3 DEF ExtractTransaction
<1>4. ASSUME NEW c \in Copies, NEW i \in Inputs, NEW sig \in ForeignSigs, PutPartialSig(c, i, sig)
      PROVE  (TypeOK /\ FinalIsValid)'
  <2> DEFINE r == copies[c][i]
             e == <<sig>>
             ins == [copies[c] EXCEPT ![i] = Added(r, e)]
  <2>1. r \in InputData /\ Sound(r, i) /\ r.final = <<>> /\ r.partial \in Seq(Sigs)
    BY <1>1, <1>4 DEF SoundInputs, PutPartialSig, InputData
  <2>2. sig \in Sigs
    BY PreparedAssumption
  <2>3. e \in Seq(Sigs) /\ DistinctPubs(e) /\ Pubs(r.partial) \cap Pubs(e) = {}
    BY <1>4, <2>2 DEF DistinctPubs, Pubs, PutPartialSig
  <2>4. Append(r.partial, sig) = r.partial \o e
    <3> HIDE DEF r
    <3>1. QED
      BY <2>1, <2>2
  <2>5. copies' = [copies EXCEPT ![c] = ins]
    <3>1. copies' = [copies EXCEPT ![c] = [copies[c] EXCEPT ![i] = [r EXCEPT !.partial = Append(@, sig)]]]
      BY <1>1, <1>4 DEF PutPartialSig
    <3>2. QED
      BY <2>4, <3>1 DEF Added
  <2> HIDE DEF e
  <2>6. Sound(Added(r, e), i)
    BY <2>1, <2>3, Adding
  <2> HIDE DEF r
  <2>7. SoundInputs(copies[c]) /\ copies[c] \in [Inputs -> InputData] /\ Added(r, e) \in InputData
    BY <1>1, <2>6 DEF Sound
  <2>8. SoundInputs(ins)
    BY <2>6, <2>7 DEF SoundInputs
  <2>9. kind' = kind /\ foreign' \in 0 .. MaxForeign
    BY <1>1, <1>4, BoundsAssumption DEF PutPartialSig
  <2>10. QED
    BY <2>5, <2>8, <2>9, OneCopy
<1>5. ASSUME NEW c \in Copies, NEW d \in Copies, NEW dup \in BOOLEAN, Merge(c, d, dup)
      PROVE  (TypeOK /\ FinalIsValid)'
  <2>1. SoundInputs(Merged(copies[c], copies[d], dup))
    BY <1>1, <1>5, MergedInputs DEF Merge
  <2>2. /\ copies' = [copies EXCEPT ![c] = Merged(copies[c], copies[d], dup)]
        /\ kind' = kind /\ foreign' \in 0 .. MaxForeign
    BY <1>1, <1>5 DEF Merge
  <2>3. QED
    BY <2>1, <2>2, OneCopy
<1>6. ASSUME NEW c \in Copies, NEW a \in Copies, NEW b \in Copies, Combine(a, b, c)
      PROVE  (TypeOK /\ FinalIsValid)'
  <2>1. SoundInputs(Merged(copies[a], copies[b], TRUE))
    BY <1>1, <1>6, MergedInputs DEF Combine
  <2>2. /\ copies' = [copies EXCEPT ![c] = Merged(copies[a], copies[b], TRUE)]
        /\ kind' = kind /\ foreign' \in 0 .. MaxForeign
    BY <1>1, <1>6 DEF Combine
  <2>3. QED
    BY <2>1, <2>2, OneCopy
<1>7. ASSUME NEW c \in Copies, NEW a \in Copies, Clone(a, c)
      PROVE  (TypeOK /\ FinalIsValid)'
  <2>1. /\ copies' = [copies EXCEPT ![c] = copies[a]]
        /\ kind' = kind /\ foreign' \in 0 .. MaxForeign
    BY <1>1, <1>7 DEF Clone
  <2>2. QED
    BY <1>1, <2>1, OneCopy
<1>8. ASSUME NEW c \in Copies, NEW a \in Copies, Transfer(a, c)
      PROVE  (TypeOK /\ FinalIsValid)'
  <2>1. SoundInputs(Read(Wire(copies[a])))
    BY <1>1, ReadInputs
  <2>2. /\ copies' = [copies EXCEPT ![c] = Read(Wire(copies[a]))]
        /\ kind' = kind /\ foreign' \in 0 .. MaxForeign
    BY <1>1, <1>8 DEF Transfer
  <2>3. QED
    BY <2>1, <2>2, OneCopy
<1>9. CASE UNCHANGED vars
  BY <1>9 DEF vars, TypeOK, FinalIsValid
<1>10. QED
  BY <1>2, <1>3, <1>4, <1>5, <1>6, <1>7, <1>8, <1>9 DEF Next

\* Whatever is put into partial_sigs, merged, combined or received, and
\* wherever a signing stops with an error: the state is well formed, and final
\* fields have the signatures their script asks for, in its order.
THEOREM SigningInvariant == Spec => [](TypeOK /\ FinalIsValid)
<1>1. Init => TypeOK /\ FinalIsValid
  BY InitSound
<1>2. TypeOK /\ FinalIsValid /\ [Next]_vars => (TypeOK /\ FinalIsValid)'
  BY NextSound
<1>3. QED
  BY <1>1, <1>2, PTL DEF Spec

\* Every state of every copy is well formed; a key is in partial_sigs once.
THEOREM TypeCorrect == Spec => []TypeOK
BY SigningInvariant, PTL

\* The final script or witness of an input has as many signatures as its
\* script asks for, of its own keys and in their order, and each verifies:
\* for any scripts, thresholds, keys, copies and signatures of callers.
THEOREM FinalValid == Spec => []FinalIsValid
BY SigningInvariant, PTL

\* A copy's own methods lose no signature.
LEMMA InPlaceKeeps ==
    ASSUME TypeOK, FinalIsValid, NEW c \in Copies, InPlace(c), NEW i \in Inputs
    PROVE  Kept(copies[c][i], copies'[c][i])
<1>1. /\ kind \in Kinds /\ copies \in [Copies -> [Inputs -> InputData]]
      /\ \A d \in Copies : SoundInputs(copies[d])
  BY AllSound DEF TypeOK
<1>2. ASSUME NEW ks, NEW finalize \in BOOLEAN, Sign(c, ks, finalize)
      PROVE  Kept(copies[c][i], copies'[c][i])
  <2>1. copies'[c] = SignResult(copies[c], ks, finalize).inputs
    BY <1>1, <1>2 DEF Sign
  <2>2. QED
    BY <1>1, <2>1, SignedInputs
<1>3. ASSUME NEW d \in Copies, NEW dup \in BOOLEAN, Merge(c, d, dup)
      PROVE  Kept(copies[c][i], copies'[c][i])
  <2>1. copies'[c] = Merged(copies[c], copies[d], dup)
    BY <1>1, <1>3 DEF Merge
  <2>2. QED
    BY <1>1, <1>3, <2>1, MergedInputs DEF Merge
<1>4. QED
  BY <1>2, <1>3 DEF InPlace, ExtractTransaction

\* sign, extract_transaction and merge lose no signature, nor replace one:
\* a partial signature stays until its input is final, then its final fields.
THEOREM SignaturesKept == Spec => SigsKept
<1>1. TypeOK /\ FinalIsValid => [\A c \in Copies :
          \/ \A i \in Inputs :
                LET r == copies[c][i]
                    n == copies'[c][i]
                IN  IF r.final # <<>> THEN n.final = r.final
                    ELSE n.final # <<>> \/ ToSet(r.partial) \subseteq ToSet(n.partial)
          \/ ~InPlace(c)]_vars
  BY InPlaceKeeps DEF Kept
<1>2. QED
  BY <1>1, SigningInvariant, PTL DEF SigsKept

-----------------------------------------------------------------------------
(* Ready PSBTs.                                                              *)

\* What decides how an input is signed, and which signatures verify.
SameScripts(r, n) ==
    /\ n.utxo = r.utxo /\ n.rds = r.rds /\ n.ws = r.ws
    /\ n.sighash = r.sighash /\ n.final = r.final

\* The values of `finalize`.
On(f) == f
Off(f) == ~ f

\* Nothing is missing.
Done(out) == out.kind = "info" /\ out.missing = 0

LEMMA AddedScripts ==
    ASSUME NEW r \in InputData, NEW e
    PROVE  SameScripts(r, Added(r, e))
BY DEF SameScripts, Added, InputData

\* A keyhash input that has its signature is finalized without a key.
LEMMA KeyhashReady ==
    ASSUME NEW r \in InputData, NEW i \in Inputs, Sound(r, i), r.final = <<>>,
           Len(Script[i]) = 1, NEW ks, NEW no \in BOOLEAN, Off(no), NEW yes \in BOOLEAN, On(yes),
           Done(SignKeyhash(r, i, ks, no))
    PROVE  LET n == SignKeyhash(r, i, ks, no).rec
           IN  /\ SameScripts(r, n) /\ Sound(n, i)
               /\ Done(SignKeyhash(n, i, {}, yes)) /\ SignKeyhash(n, i, {}, yes).rec.final # <<>>
<1> DEFINE pub == Script[i][1]
           n == SignKeyhash(r, i, ks, no).rec
<1>1. pub \in Keys
  BY Constants
<1>2. r.partial \in Seq(Sigs) /\ r.sighash \in SigTypes \cup {None}
  BY DEF InputData
<1>3. PICK sig \in Sigs :
         /\ sig.pub = pub /\ ValidSig(r, sig)
         /\ r.partial = <<>> \/ r.partial = <<sig>>
         /\ SignKeyhash(r, i, ks, no) = GotSingleSig(r, sig, no)
  <2>1. CASE r.partial # <<>> /\ Len(r.partial) = 1 /\ r.partial[1].pub = pub /\ ValidSig(r, r.partial[1])
    <3>1. r.partial[1] \in Sigs /\ r.partial = <<r.partial[1]>>
      BY <1>2, <2>1
    <3>2. SignKeyhash(r, i, ks, no) = GotSingleSig(r, r.partial[1], no)
      BY <2>1 DEF SignKeyhash
    <3>3. QED
      BY <2>1, <3>1, <3>2
  <2>2. CASE r.partial = <<>> /\ pub \in ks
    <3> DEFINE sig == NewSig(r, pub)
    <3>1. sig \in Sigs /\ sig.pub = pub /\ ValidSig(r, sig)
      BY <1>1, <1>2, BoundsAssumption DEF NewSig, Sigs, ValidSig
    <3>2. SignKeyhash(r, i, ks, no) = GotSingleSig(r, sig, no)
      BY <2>2 DEF SignKeyhash
    <3> HIDE DEF sig
    <3>3. QED
      BY <2>2, <3>1, <3>2
  <2>3. CASE /\ ~ (r.partial # <<>> /\ Len(r.partial) = 1 /\ r.partial[1].pub = pub /\ ValidSig(r, r.partial[1]))
             /\ ~ (r.partial = <<>> /\ pub \in ks)
    <3>1. SignKeyhash(r, i, ks, no) \in {Error(r), Info(r, 1)}
      BY <2>3 DEF SignKeyhash
    <3>2. QED
      BY <3>1 DEF Error, Info, Done
  <2>4. QED
    BY <2>1, <2>2, <2>3
<1>4. sig.good
  BY <1>3 DEF ValidSig
<1>5. Sound(n, i) /\ n.final = <<>> /\ n.partial = <<sig>>
  <2>1. Sound(n, i) /\ (~ no => n.final = <<>> /\ n.partial = <<sig>>)
    BY <1>3, <1>4, SingleSig
  <2>2. QED
    BY <2>1, Zenon DEF Off
<1>6. SameScripts(r, n)
  <2> DEFINE e == <<sig>>
  <2>1. n = r \/ n = [r EXCEPT !.partial = Append(@, sig)]
    <3>1. ~ no => n = r \/ n = [r EXCEPT !.partial = Append(@, sig)]
      BY <1>3 DEF GotSingleSig, Info
    <3>2. QED
      BY <3>1, Zenon DEF Off
  <2>2. Append(r.partial, sig) = r.partial \o e
    BY <1>2
  <2> HIDE DEF n, e
  <2>3. n = r \/ n = Added(r, e)
    BY <2>1, <2>2 DEF Added
  <2>4. QED
    BY <2>3, AddedScripts DEF SameScripts
<1> HIDE DEF n
<1>7. ValidSig(n, sig) /\ n \in InputData
  BY <1>3, <1>5, <1>6 DEF ValidSig, SameScripts, Sound
<1>8. SignKeyhash(n, i, {}, yes) = GotSingleSig(n, sig, yes)
  <2>1. n.partial # <<>> /\ Len(n.partial) = 1 /\ n.partial[1] = sig
    BY <1>5
  <2>2. QED
    BY <1>3, <1>7, <2>1 DEF SignKeyhash
<1>9. Done(SignKeyhash(n, i, {}, yes)) /\ SignKeyhash(n, i, {}, yes).rec.final # <<>>
  <2>1. sig.pub = Script[i][1] /\ (n.partial = <<>> \/ n.partial = <<sig>>)
    BY <1>3, <1>5
  <2>2. /\ GotSingleSig(n, sig, yes).kind = "info" /\ GotSingleSig(n, sig, yes).missing = 0
        /\ GotSingleSig(n, sig, yes).rec.final # <<>>
    <3>1. /\ GotSingleSig(n, sig, yes).kind = "info" /\ GotSingleSig(n, sig, yes).missing = 0
          /\ yes => GotSingleSig(n, sig, yes).rec.final # <<>>
      BY <1>4, <1>5, <1>7, <2>1, SingleSig
    <3>2. QED
      BY <3>1, Zenon DEF On
  <2>3. QED
    BY <1>8, <2>2 DEF Done
<1>10. QED
  BY <1>5, <1>6, <1>9 DEF n

\* So is a multisig input that has enough of them.
LEMMA MultisigReady ==
    ASSUME NEW r \in InputData, NEW i \in Inputs, Sound(r, i), r.final = <<>>,
           NEW ks, NEW no \in BOOLEAN, Off(no), NEW yes \in BOOLEAN, On(yes),
           Done(SignMultisig(r, i, ks, no))
    PROVE  LET n == SignMultisig(r, i, ks, no).rec
           IN  /\ SameScripts(r, n) /\ Sound(n, i)
               /\ Done(SignMultisig(n, i, {}, yes)) /\ SignMultisig(n, i, {}, yes).rec.final # <<>>
<1> DEFINE c == Collected(r, i)
           new == NewSigs(r, i, ks)
           all == c \o new
           n == Added(r, new)
<1>1. /\ \A s \in ToSet(r.partial) : ValidSig(r, s)
      /\ Pubs(all) \subseteq ToSet(Script[i])
      /\ Len(all) = Threshold[i]
      /\ SignMultisig(r, i, ks, no) = Info(n, 0)
  <2>1. /\ \A s \in ToSet(r.partial) : ValidSig(r, s)
        /\ Pubs(all) \subseteq ToSet(Script[i])
        /\ Len(all) = Threshold[i]
        /\ ~ no => SignMultisig(r, i, ks, no) = Info(n, 0)
    BY MultisigCases DEF Done, Error
  <2>2. QED
    BY <2>1, Zenon DEF Off
<1>2. /\ all \in Seq(Sigs) /\ DistinctPubs(all)
      /\ Pubs(r.partial) \cap Pubs(new) = {}
      /\ c = r.partial \/ (new = <<>> /\ Len(c) = Threshold[i])
  BY AllSigs
<1>3. /\ new \in Seq(Sigs) /\ DistinctPubs(new) /\ \A s \in ToSet(new) : ValidSig(r, s)
  BY MadeSigs DEF Sound
<1>4. r.partial \in Seq(Sigs) /\ DistinctPubs(r.partial)
  BY DEF InputData, Sound
<1> HIDE DEF new
<1>5. Sound(n, i) /\ n.final = <<>> /\ n.partial = r.partial \o new
  BY <1>2, <1>3, Adding
<1>6. SameScripts(r, n)
  BY AddedScripts
<1> HIDE DEF n, c
<1>7. n \in InputData /\ n.partial \in Seq(Sigs) /\ DistinctPubs(n.partial)
  BY <1>5 DEF Sound, InputData
<1>8. \A s \in ToSet(n.partial) : ValidSig(n, s)
  <2> DEFINE p == r.partial
  <2>0. p \in Seq(Sigs) /\ DistinctPubs(p) /\ Pubs(p) \cap Pubs(new) = {}
    BY <1>2, <1>4
  <2> HIDE DEF p
  <2>1. ToSet(n.partial) = ToSet(r.partial) \cup ToSet(new)
    <3>1. ToSet(p \o new) = ToSet(p) \cup ToSet(new)
      BY <1>3, <2>0, Appended
    <3>2. QED
      BY <1>5, <3>1 DEF p
  <2>2. QED
    BY <1>1, <1>3, <1>6, <2>1 DEF ValidSig, SameScripts
<1>9. Collected(n, i) = all
  <2>1. CASE c = r.partial
    <3>1. n.partial = all
      BY <1>5, <2>1
    <3>2. Len(n.partial) <= Threshold[i]
      BY <1>1, <3>1, Constants
    <3>3. QED
      BY <1>7, <3>1, <3>2, CollectedSigs
  <2>2. CASE new = <<>>
    <3>1. n.partial = r.partial
      BY <1>4, <1>5, <2>2
    <3>2. Collected(n, i) = c
      BY <3>1 DEF Collected, c
    <3>3. c \in Seq(Sigs)
      BY <1>4, CollectedSigs DEF c
    <3>4. QED
      BY <2>2, <3>2, <3>3
  <2>3. QED
    BY <1>2, <2>1, <2>2
<1> DEFINE none == NewSigs(n, i, {})
           out == SignMultisig(n, i, {}, yes)
<1>10. none = <<>>
  <2>1. none \in Seq(Sigs) /\ Len(none) <= Threshold[i] - Len(all)
    BY <1>7, <1>9, MadeSigs
  <2>2. Len(none) \in Nat /\ Len(none) <= 0
    BY <1>1, <2>1, Constants
  <2>3. QED
    BY <2>1, <2>2
<1> HIDE DEF none
<1>11. all \o none = all
  BY <1>2, <1>10
<1>12. out # Error(n)
  <2>1. out = (IF Threshold[i] - Len(all) - Len(none) = 0 THEN Info(Ready(n, i, none, yes), 0)
               ELSE Info([n EXCEPT !.partial = @ \o none], Threshold[i] - Len(all) - Len(none)))
    <3>1. Pubs(Collected(n, i)) \subseteq ToSet(Script[i])
      BY <1>1, <1>9
    <3>2. QED
      BY <1>8, <1>9, <3>1 DEF SignMultisig, none
  <2> HIDE DEF out, all
  <2>2. out.kind = "info"
    BY <2>1 DEF Info
  <2>3. QED
    BY <2>2 DEF Error
<1>13. /\ ScriptOrder(all, i) \in Seq(Sigs) /\ ScriptOrder(all, i) # <<>>
       /\ out = Info(Finalized(n, ScriptOrder(all, i)), 0)
  <2> DEFINE got == Collected(n, i) \o NewSigs(n, i, {})
  <2>0. got = all
    BY <1>9, <1>11 DEF none
  <2> HIDE DEF all
  <2>1. \/ out = Error(n)
        \/ /\ ScriptOrder(all, i) \in Seq(Sigs) /\ ScriptOrder(all, i) # <<>>
           /\ out = Info(IF yes THEN Finalized(n, ScriptOrder(all, i)) ELSE Added(n, none), 0)
        \/ Len(all) # Threshold[i]
    <3>1. \/ out = Error(n)
          \/ /\ ScriptOrder(got, i) \in Seq(Sigs) /\ ScriptOrder(got, i) # <<>>
             /\ out = Info(IF yes THEN Finalized(n, ScriptOrder(got, i)) ELSE Added(n, NewSigs(n, i, {})), 0)
          \/ Len(got) # Threshold[i]
      BY <1>5, <1>7, MultisigCases
    <3> HIDE DEF got, out
    <3>2. QED
      BY <2>0, <3>1 DEF none
  <2> HIDE DEF out, got
  <2>2. /\ ScriptOrder(all, i) \in Seq(Sigs) /\ ScriptOrder(all, i) # <<>>
        /\ yes => out = Info(Finalized(n, ScriptOrder(all, i)), 0)
    BY <1>1, <1>12, <2>1 DEF all
  <2>3. QED
    BY <2>2, Zenon DEF On
<1>14. Done(out) /\ out.rec.final # <<>>
  <2> DEFINE f == ScriptOrder(all, i)
  <2> HIDE DEF f, all, out
  <2>1. Finalized(n, f).final # <<>>
    BY <1>7, <1>13, FinalizedData DEF f
  <2>2. QED
    BY <1>13, <2>1 DEF Info, Done, f
<1>15. SignMultisig(r, i, ks, no).rec = n
  BY <1>1 DEF Info
<1>16. QED
  BY <1>5, <1>6, <1>14, <1>15

\* An input is signed in the same way as one with the same scripts.
LEMMA SameBranch ==
    ASSUME NEW r, NEW n, SameScripts(r, n), r.final = <<>>, NEW i,
           NEW ks, NEW f \in BOOLEAN, NEW ks2, NEW f2 \in BOOLEAN
    PROVE  \/ SignInput(r, i, ks, f) = Error(r)
           \/ SignInput(r, i, ks, f) = Unsignable(r)
           \/ /\ IsKeyhash(i) /\ SignInput(r, i, ks, f) = SignKeyhash(r, i, ks, f)
              /\ SignInput(n, i, ks2, f2) = SignKeyhash(n, i, ks2, f2)
           \/ /\ SignInput(r, i, ks, f) = SignMultisig(r, i, ks, f)
              /\ SignInput(n, i, ks2, f2) = SignMultisig(n, i, ks2, f2)
<1>1. /\ n.final = <<>> /\ n.utxo = r.utxo /\ n.rds = r.rds /\ n.ws = r.ws
      /\ ~ FinalError(r, i) /\ ~ FinalError(n, i)
  BY DEF SameScripts, FinalError
<1> DEFINE wit == WitnessUtxo(r)
<1>2. wit = WitnessUtxo(n)
  BY <1>1 DEF WitnessUtxo
<1> HIDE DEF wit
<1>3. /\ SignInput(r, i, ks, f) = IF r.utxo = "none" THEN Unsignable(r)
                                 ELSE IF wit THEN SignWitness(r, i, ks, f)
                                 ELSE SignNonWitness(r, i, ks, f)
      /\ SignInput(n, i, ks2, f2) = IF r.utxo = "none" THEN Unsignable(n)
                                   ELSE IF wit THEN SignWitness(n, i, ks2, f2)
                                   ELSE SignNonWitness(n, i, ks2, f2)
  <2>1. SignInput(r, i, ks, f) = IF r.utxo = "none" THEN Unsignable(r)
                                 ELSE IF wit THEN SignWitness(r, i, ks, f)
                                 ELSE SignNonWitness(r, i, ks, f)
    BY <1>1, Zenon DEF SignInput, wit
  <2>2. SignInput(n, i, ks2, f2) = IF n.utxo = "none" THEN Unsignable(n)
                                   ELSE IF WitnessUtxo(n) THEN SignWitness(n, i, ks2, f2)
                                   ELSE SignNonWitness(n, i, ks2, f2)
    BY <1>1, Zenon DEF SignInput
  <2>3. QED
    BY <1>1, <1>2, <2>1, <2>2
<1>4. \/ SignWitness(r, i, ks, f) = Error(r)
      \/ SignWitness(r, i, ks, f) = Unsignable(r)
      \/ /\ IsKeyhash(i) /\ SignWitness(r, i, ks, f) = SignKeyhash(r, i, ks, f)
         /\ SignWitness(n, i, ks2, f2) = SignKeyhash(n, i, ks2, f2)
      \/ /\ SignWitness(r, i, ks, f) = SignMultisig(r, i, ks, f)
         /\ SignWitness(n, i, ks2, f2) = SignMultisig(n, i, ks2, f2)
  BY <1>1 DEF SignWitness
<1>5. \/ SignNonWitness(r, i, ks, f) = Error(r)
      \/ SignNonWitness(r, i, ks, f) = Unsignable(r)
      \/ /\ IsKeyhash(i) /\ SignNonWitness(r, i, ks, f) = SignKeyhash(r, i, ks, f)
         /\ SignNonWitness(n, i, ks2, f2) = SignKeyhash(n, i, ks2, f2)
      \/ /\ SignNonWitness(r, i, ks, f) = SignMultisig(r, i, ks, f)
         /\ SignNonWitness(n, i, ks2, f2) = SignMultisig(n, i, ks2, f2)
  BY <1>1 DEF SignNonWitness
<1>6. QED
  BY <1>3, <1>4, <1>5

\* An input of which nothing is missing can be finalized without a key.
LEMMA InputReady ==
    ASSUME NEW r \in InputData, NEW i \in Inputs, Sound(r, i), kind \in Kinds,
           NEW ks, NEW no \in BOOLEAN, Off(no), NEW yes \in BOOLEAN, On(yes),
           Done(SignInput(r, i, ks, no))
    PROVE  LET n == SignInput(r, i, ks, no).rec
           IN  Done(SignInput(n, i, {}, yes)) /\ SignInput(n, i, {}, yes).rec.final # <<>>
<1> DEFINE out == SignInput(r, i, ks, no)
           n == out.rec
<1>1. CASE r.final # <<>>
  <2>1. out = Info(r, 0) /\ ~ FinalError(r, i)
    BY <1>1 DEF SignInput, Done, Error
  <2> HIDE DEF out
  <2>2. n = r
    BY <2>1 DEF Info
  <2> HIDE DEF n
  <2>3. SignInput(n, i, {}, yes) = Info(r, 0)
    BY <1>1, <2>1, <2>2 DEF SignInput
  <2>4. Done(SignInput(n, i, {}, yes)) /\ SignInput(n, i, {}, yes).rec.final # <<>>
    BY <1>1, <2>3 DEF Done, Info
  <2>5. QED
    BY <2>4 DEF n, out
<1>2. CASE r.final = <<>>
  <2>1. out # Error(r) /\ out # Unsignable(r)
    BY DEF Done, Error, Unsignable
  <2>2. CASE IsKeyhash(i) /\ out = SignKeyhash(r, i, ks, no)
    <3>1. Len(Script[i]) = 1
      BY <2>2, Constants DEF IsKeyhash
    <3> HIDE DEF out
    <3>2. Done(SignKeyhash(r, i, ks, no))
      BY <2>2 DEF out
    <3>3. /\ SameScripts(r, n) /\ Sound(n, i)
          /\ Done(SignKeyhash(n, i, {}, yes)) /\ SignKeyhash(n, i, {}, yes).rec.final # <<>>
      BY <1>2, <2>2, <3>1, <3>2, KeyhashReady
    <3> HIDE DEF n
    <3>4. \/ SignInput(n, i, {}, yes) = SignKeyhash(n, i, {}, yes)
          \/ out = SignMultisig(r, i, ks, no) /\ SignInput(n, i, {}, yes) = SignMultisig(n, i, {}, yes)
      BY <1>2, <2>1, <3>3, SameBranch DEF out
    <3>5. CASE out = SignMultisig(r, i, ks, no) /\ SignInput(n, i, {}, yes) = SignMultisig(n, i, {}, yes)
      <4>1. Done(SignMultisig(r, i, ks, no)) /\ n = SignMultisig(r, i, ks, no).rec
        BY <3>5 DEF out, n
      <4>2. Done(SignMultisig(n, i, {}, yes)) /\ SignMultisig(n, i, {}, yes).rec.final # <<>>
        BY <1>2, <4>1, MultisigReady
      <4>3. QED
        BY <3>5, <4>2 DEF out, n
    <3>6. QED
      BY <3>3, <3>4, <3>5 DEF out, n
  <2>3. CASE out = SignMultisig(r, i, ks, no)
    <3> HIDE DEF out
    <3>2. Done(SignMultisig(r, i, ks, no))
      BY <2>3 DEF out
    <3>3. /\ SameScripts(r, n) /\ Sound(n, i)
          /\ Done(SignMultisig(n, i, {}, yes)) /\ SignMultisig(n, i, {}, yes).rec.final # <<>>
      BY <1>2, <2>3, <3>2, MultisigReady
    <3> HIDE DEF n
    <3>4. \/ SignInput(n, i, {}, yes) = SignMultisig(n, i, {}, yes)
          \/ /\ IsKeyhash(i) /\ out = SignKeyhash(r, i, ks, no)
             /\ SignInput(n, i, {}, yes) = SignKeyhash(n, i, {}, yes)
      BY <1>2, <2>1, <3>3, SameBranch DEF out
    <3>5. QED
      BY <2>2, <3>3, <3>4 DEF out, n
  <2>4. QED
    BY <1>2, <2>1, <2>2, <2>3, SameBranch DEF SameScripts
<1>3. QED
  BY <1>1, <1>2

\* What is reported ready can be finalized without a key.
LEMMA ReadyInputs ==
    ASSUME NEW ins, SoundInputs(ins), kind \in Kinds,
           NEW ks, NEW no \in BOOLEAN, Off(no), NEW yes \in BOOLEAN, On(yes),
           SignResult(ins, ks, no).ready
    PROVE  SignResult(SignResult(ins, ks, no).inputs, {}, yes).final
<1> DEFINE out(i) == SignInput(ins[i], i, ks, no)
           signed == SignResult(ins, ks, no).inputs
<1>1. \A i \in Inputs : Done(out(i))
  BY DEF SignResult, Done
<1>2. \A i \in Inputs : signed[i] = out(i).rec
  <2>1. \A i \in Inputs : out(i).kind # "error"
    BY <1>1 DEF Done
  <2>2. \A i \in Inputs : 1 .. i \subseteq Inputs
    BY InputsAssumption DEF Inputs
  <2>3. \A i \in Inputs : \A j \in 1 .. i : out(j).kind # "error"
    BY <2>1, <2>2
  <2> DEFINE outs == [i \in Inputs |-> out(i)]
  <2>4. signed = [i \in Inputs |-> IF \A j \in 1 .. i : outs[j].kind # "error" THEN outs[i].rec ELSE ins[i]]
    BY Zenon DEF SignResult
  <2>5. \A i \in Inputs : outs[i] = out(i)
    OBVIOUS
  <2> HIDE DEF signed, out, outs
  <2>6. \A i \in Inputs : \A j \in 1 .. i : outs[j].kind # "error"
    BY <2>2, <2>3, <2>5
  <2>7. QED
    BY <2>4, <2>5, <2>6
<1>3. \A i \in Inputs : /\ Done(SignInput(signed[i], i, {}, yes))
                        /\ SignInput(signed[i], i, {}, yes).rec.final # <<>>
  BY <1>1, <1>2, InputReady DEF SoundInputs
<1> HIDE DEF signed
<1>4. SignResult(signed, {}, yes).final
  BY <1>3 DEF SignResult, Done
<1>5. QED
  BY <1>4 DEF signed

\* Of a PSBT that sign(finalize=False) reports ready, the transaction can be
\* extracted with no key, whoever has signed, merged or put in what before.
THEOREM ReadyIsFinal == Spec => []ReadyCanBeFinalized
<1>1. TypeOK /\ FinalIsValid => ReadyCanBeFinalized
  <2> SUFFICES ASSUME TypeOK, FinalIsValid, NEW c \in Copies, NEW ks \in KeyStores,
                      SignResult(copies[c], ks, FALSE).ready
               PROVE  SignResult(SignResult(copies[c], ks, FALSE).inputs, {}, TRUE).final
    BY Zenon DEF ReadyCanBeFinalized
  <2>1. SoundInputs(copies[c]) /\ kind \in Kinds
    BY AllSound
  <2>2. FALSE \in BOOLEAN /\ Off(FALSE) /\ TRUE \in BOOLEAN /\ On(TRUE)
    BY DEF On, Off
  <2>3. QED
    BY <2>1, <2>2, ReadyInputs, Zenon
<1>2. QED
  BY <1>1, SigningInvariant, PTL

\* Whether signing an input is an error does not depend on `finalize`.
LEMMA SameError ==
    ASSUME NEW r, NEW i, NEW ks, NEW f \in BOOLEAN, NEW g \in BOOLEAN,
           SignInput(r, i, ks, f).kind # "error"
    PROVE  SignInput(r, i, ks, g).kind # "error"
<1>1. SignKeyhash(r, i, ks, f).kind # "error" => SignKeyhash(r, i, ks, g).kind # "error"
  BY DEF SignKeyhash, GotSingleSig, Info, Error
<1>2. SignMultisig(r, i, ks, f).kind # "error" => SignMultisig(r, i, ks, g).kind # "error"
  BY DEF SignMultisig, Info, Error
<1>3. SignWitness(r, i, ks, f).kind # "error" => SignWitness(r, i, ks, g).kind # "error"
  BY <1>1, <1>2 DEF SignWitness, Error, Unsignable
<1>4. SignNonWitness(r, i, ks, f).kind # "error" => SignNonWitness(r, i, ks, g).kind # "error"
  BY <1>1, <1>2 DEF SignNonWitness, Error, Unsignable
<1>5. QED
  BY <1>3, <1>4 DEF SignInput, Error, Info, Unsignable

\* An input that can be finalized is read as it was, or is final already.
LEMMA TransferredInput ==
    ASSUME NEW ins, SoundInputs(ins), NEW i \in Inputs,
           NEW no \in BOOLEAN, NEW yes \in BOOLEAN,
           Done(SignInput(ins[i], i, {}, yes)),
           SignInput(ins[i], i, {}, yes).rec.final # <<>>
    PROVE  LET n == Read(Wire(ins))[i]
           IN  /\ SignInput(n, i, {}, no).kind # "error"
               /\ Done(SignInput(n, i, {}, yes))
               /\ SignInput(n, i, {}, yes).rec.final # <<>>
<1> DEFINE r == ins[i]
           w == Wire(ins)[i]
           n == Read(Wire(ins))[i]
           opened == w.utxo = "tx" /\ IsWitness(i) /\ (IsP2SH(i) => w.rds \/ w.ws)
<1>0. r \in InputData
  BY DEF SoundInputs
<1>1. /\ r.final = <<>> => w = r
      /\ r.final # <<>> => w = [Finalized(r, r.final) EXCEPT !.sighash = None]
  BY DEF Wire
<1>2. ~ opened => n = w
  BY DEF Read
<1>3. CASE r.final # <<>>
  <2>1. ~ FinalError(r, i)
    BY <1>3 DEF SignInput, Done, Error
  <2>2. IsWitness(i) => WitnessUtxo(r)
    BY <1>3, <2>1 DEF FinalError
  <2>3. /\ w.utxo = r.utxo /\ w.final = r.final /\ w.partial = <<>>
        /\ ~ w.rds /\ ~ w.ws /\ ~ w.deriv
    <3> DEFINE f == r.final
               none == <<>>
    <3>1. w = [[r EXCEPT !.final = f, !.partial = none, !.rds = FALSE,
                         !.ws = FALSE, !.deriv = FALSE] EXCEPT !.sighash = None]
      BY <1>1, <1>3 DEF Finalized
    <3> HIDE DEF f, none, w, r
    <3>2. /\ w.utxo = r.utxo /\ w.final = f /\ w.partial = none
          /\ ~ w.rds /\ ~ w.ws /\ ~ w.deriv
      BY <1>0, <3>1 DEF InputData
    <3>3. QED
      BY <3>2 DEF f, none, w, r
  <2> HIDE DEF w, n, r
  <2>4. n = w
    BY <1>2, <2>2, <2>3 DEF WitnessUtxo
  <2>5. ~ FinalError(n, i)
    BY <2>2, <2>3, <2>4 DEF FinalError, NonfinalFields, WitnessUtxo
  <2>6. /\ SignInput(n, i, {}, no) = Info(n, 0) /\ SignInput(n, i, {}, yes) = Info(n, 0)
        /\ n.final # <<>>
    BY <1>3, <2>3, <2>4, <2>5 DEF SignInput
  <2>7. /\ SignInput(n, i, {}, no).kind # "error"
        /\ Done(SignInput(n, i, {}, yes)) /\ SignInput(n, i, {}, yes).rec.final # <<>>
    BY <2>6 DEF Info, Done
  <2>8. QED
    BY <2>7 DEF n
<1>4. CASE r.final = <<>>
  <2>1. w = r
    BY <1>1, <1>4
  <2>2. SignInput(r, i, {}, yes).kind = "info"
    BY DEF Done
  <2>3. ~ opened
    <3> SUFFICES ASSUME r.utxo = "tx", IsWitness(i)
                 PROVE  FALSE
      BY <2>1
    <3> HIDE DEF r
    <3>1. SignInput(r, i, {}, yes) = SignNonWitness(r, i, {}, yes)
      BY <1>4 DEF SignInput, FinalError, WitnessUtxo
    <3>2. SignNonWitness(r, i, {}, yes).kind # "info"
      BY DEF SignNonWitness, Error, Unsignable
    <3>3. QED
      BY <2>2, <3>1, <3>2
  <2>4. n = r
    BY <1>2, <2>1, <2>3
  <2> HIDE DEF n, r
  <2>5. SignInput(n, i, {}, no).kind # "error"
    BY <2>2, <2>4, SameError
  <2>6. QED
    BY <2>4, <2>5 DEF n, r
<1>5. QED
  BY <1>3, <1>4

LEMMA TransferredInputs ==
    ASSUME NEW ins, SoundInputs(ins), NEW no \in BOOLEAN, Off(no),
           NEW yes \in BOOLEAN, SignResult(ins, {}, yes).final,
           \A i \in Inputs : Wire(ins)[i].blobs <= 1
    PROVE  /\ Readable(Wire(ins))
           /\ SignResult(Read(Wire(ins)), {}, yes).final
<1> DEFINE n == Read(Wire(ins))
<1>1. \A i \in Inputs : /\ Done(SignInput(ins[i], i, {}, yes))
                        /\ SignInput(ins[i], i, {}, yes).rec.final # <<>>
  BY DEF SignResult, Done
<1>2. \A i \in Inputs : /\ SignInput(n[i], i, {}, no).kind # "error"
                        /\ Done(SignInput(n[i], i, {}, yes))
                        /\ SignInput(n[i], i, {}, yes).rec.final # <<>>
  BY <1>1, TransferredInput
<1> HIDE DEF n
<1>3. SignResult(n, {}, yes).final
  BY <1>2 DEF SignResult, Done
<1>4. Sane(n)
  <2>1. no = FALSE
    BY DEF Off
  <2>2. \A i \in Inputs : SignInput(n[i], i, {}, FALSE).kind # "error"
    BY <1>2, <2>1, Zenon
  <2>3. QED
    BY <2>2, Zenon DEF Sane
<1>5. Readable(Wire(ins))
  BY <1>4, Zenon DEF Readable, n
<1>6. QED
  BY <1>3, <1>5 DEF n

\* A PSBT that its holder can finalize is readable to whoever receives it,
\* who can finalize it too, if no unknown field is in it twice.
THEOREM ReadyIsTransferable == Spec => []TransferKeepsReady
<1>1. TypeOK /\ FinalIsValid => TransferKeepsReady
  <2> SUFFICES ASSUME TypeOK, FinalIsValid, NEW c \in Copies,
                      SignResult(copies[c], {}, TRUE).final,
                      \A i \in Inputs : Wire(copies[c])[i].blobs <= 1
               PROVE  /\ Readable(Wire(copies[c]))
                      /\ SignResult(Read(Wire(copies[c])), {}, TRUE).final
    BY Zenon DEF TransferKeepsReady
  <2>1. SoundInputs(copies[c])
    BY AllSound
  <2>2. FALSE \in BOOLEAN /\ Off(FALSE) /\ TRUE \in BOOLEAN
    BY DEF Off
  <2>3. QED
    BY <2>1, <2>2, TransferredInputs, Zenon
<1>2. QED
  BY <1>1, SigningInvariant, PTL

-----------------------------------------------------------------------------
(* Assembling.  Whatever other PSBTs do to the transaction they share, and    *)
(* whatever additions are refused, the inputs and outputs of a PSBT are the   *)
(* first ones of its transaction: they are all of them if there are as many.  *)

\* Assigning the parts of one PSBT (constructor, clone, merge, deserialize)
\* keeps the types of the three variables they live in.
LEMMA BecomeTyped ==
    ASSUME AssemblyTypeOK, NEW p \in Psbts, NEW t \in Txs \cup {NoTx},
           NEW ins \in Seq(TxIns), NEW outs \in Seq(TxOuts),
           Become(p, t, ins, outs)
    PROVE  /\ tx' \in [Psbts -> Txs \cup {NoTx}]
           /\ inputs' \in [Psbts -> Seq(TxIns)]
           /\ outputs' \in [Psbts -> Seq(TxOuts)]
BY DEF Become, AssemblyTypeOK

\* Every operation keeps the types.
LEMMA AssemblyTypeStep ==
    ASSUME AssemblyTypeOK, [AssemblyNext]_assemblyVars
    PROVE  AssemblyTypeOK'
<1>1. ASSUME NEW p \in Psbts, NEW t \in Txs, Construct(p, t)
      PROVE  AssemblyTypeOK'
  <2>1. vin[t] \in Seq(TxIns) /\ vout[t] \in Seq(TxOuts)
    BY DEF AssemblyTypeOK
  <2>2. QED
    BY <1>1, <2>1, BecomeTyped DEF Construct, AssemblyTypeOK
<1>2. ASSUME NEW p \in Psbts, NEW q \in Psbts, CloneParts(p, q)
      PROVE  AssemblyTypeOK'
  BY <1>2, BecomeTyped DEF CloneParts, AssemblyTypeOK
<1>3. ASSUME NEW p \in Psbts, NEW q \in Psbts, MergeParts(p, q)
      PROVE  AssemblyTypeOK'
  BY <1>3, BecomeTyped DEF MergeParts, AssemblyTypeOK
<1>4. ASSUME NEW p \in Psbts, NEW q \in Psbts, NEW t \in Txs, Reread(p, q, t)
      PROVE  AssemblyTypeOK'
  <2>1. tx[p] \in Txs
    BY <1>4 DEF Reread, Live, AssemblyTypeOK
  <2>2. vin' \in [Txs -> Seq(TxIns)] /\ vout' \in [Txs -> Seq(TxOuts)]
    BY <1>4, <2>1 DEF Reread, AssemblyTypeOK
  <2>3. cached' \in [Txs -> (Seq(TxIns) \X Seq(TxOuts)) \cup {NoTx}]
    BY <1>4 DEF Reread, AssemblyTypeOK
  <2>4. QED
    BY <1>4, <2>2, <2>3, BecomeTyped DEF Reread, AssemblyTypeOK
<1>5. ASSUME NEW p \in Psbts, NEW x \in TxIns, AddInput(p, x)
      PROVE  AssemblyTypeOK'
  <2>1. tx[p] \in Txs
    BY <1>5 DEF AddInput, Live, AssemblyTypeOK
  <2>2. vin' \in [Txs -> Seq(TxIns)]
    BY <1>5, <2>1 DEF AddInput, AssemblyTypeOK
  <2>3. inputs' \in [Psbts -> Seq(TxIns)]
    BY <1>5 DEF AddInput, AssemblyTypeOK
  <2>4. QED
    BY <1>5, <2>2, <2>3 DEF AddInput, AssemblyTypeOK
<1>6. ASSUME NEW p \in Psbts, NEW y \in TxOuts, AddOutput(p, y)
      PROVE  AssemblyTypeOK'
  <2>1. tx[p] \in Txs
    BY <1>6 DEF AddOutput, Live, AssemblyTypeOK
  <2>2. QED
    BY <1>6, <2>1 DEF AddOutput, AssemblyTypeOK
<1>7. ASSUME NEW p \in Psbts, Drop(p)
      PROVE  AssemblyTypeOK'
  <2>1. <<>> \in Seq(TxIns) /\ <<>> \in Seq(TxOuts)
    OBVIOUS
  <2>2. /\ tx' \in [Psbts -> Txs \cup {NoTx}]
        /\ inputs' \in [Psbts -> Seq(TxIns)]
        /\ outputs' \in [Psbts -> Seq(TxOuts)]
    BY <1>7, <2>1, BecomeTyped DEF Drop
  <2>3. QED
    BY <1>7, <2>2 DEF Drop, AssemblyTypeOK
<1>8. ASSUME NEW t \in Txs, GetHash(t)
      PROVE  AssemblyTypeOK'
  <2>1. Contents(t) \in Seq(TxIns) \X Seq(TxOuts)
    BY DEF Contents, AssemblyTypeOK
  <2>2. QED
    BY <1>8, <2>1 DEF GetHash, AssemblyTypeOK
<1>9. CASE UNCHANGED assemblyVars
  BY <1>9 DEF assemblyVars, AssemblyTypeOK
<1>10. QED
  BY <1>1, <1>2, <1>3, <1>4, <1>5, <1>6, <1>7, <1>8, <1>9 DEF AssemblyNext

\* One sequence begins with another.
Begins(a, b) == Len(a) <= Len(b) /\ \A i \in 1 .. Len(a) : a[i] = b[i]

LEMMA BeginsAll ==
    ASSUME NEW S, NEW a \in Seq(S), NEW b \in Seq(S), Begins(a, b), Len(b) = Len(a)
    PROVE  a = b
BY DEF Begins

LEMMA BeginsLonger ==
    ASSUME NEW S, NEW a \in Seq(S), NEW b \in Seq(S), Begins(a, b), NEW x \in S
    PROVE  Begins(a, Append(b, x))
BY DEF Begins

\* The parts of a PSBT are the first ones of its transaction.
PartsBegin ==
    \A p \in Live : Begins(inputs[p], vin[tx[p]]) /\ Begins(outputs[p], vout[tx[p]])

LEMMA ConsistentParts ==
    ASSUME AssemblyTypeOK, PartsBegin, NEW p \in Live, Consistent(p)
    PROVE  inputs[p] = vin[tx[p]] /\ outputs[p] = vout[tx[p]]
<1>1. p \in Psbts /\ tx[p] \in Txs
  BY DEF Live, AssemblyTypeOK
<1>2. /\ inputs[p] \in Seq(TxIns) /\ vin[tx[p]] \in Seq(TxIns)
      /\ outputs[p] \in Seq(TxOuts) /\ vout[tx[p]] \in Seq(TxOuts)
  BY <1>1 DEF AssemblyTypeOK
<1>3. /\ Begins(inputs[p], vin[tx[p]]) /\ Len(vin[tx[p]]) = Len(inputs[p])
      /\ Begins(outputs[p], vout[tx[p]]) /\ Len(vout[tx[p]]) = Len(outputs[p])
  BY DEF PartsBegin, Consistent
<1>4. inputs[p] = vin[tx[p]]
  BY <1>2, <1>3, BeginsAll
<1>5. outputs[p] = vout[tx[p]]
  BY <1>2, <1>3, BeginsAll
<1>6. QED
  BY <1>4, <1>5

\* The constructor, clone(), merge() and deserialize() give one PSBT its parts.
LEMMA BecomeBegins ==
    ASSUME AssemblyTypeOK, PartsBegin, NEW p \in Psbts, NEW t, NEW ins, NEW outs,
           Become(p, t, ins, outs),
           t # NoTx => Begins(ins, vin'[t]) /\ Begins(outs, vout'[t]),
           \A q \in Live : q # p => vin'[tx[q]] = vin[tx[q]] /\ vout'[tx[q]] = vout[tx[q]]
    PROVE  PartsBegin'
<1>1. /\ tx'[p] = t /\ inputs'[p] = ins /\ outputs'[p] = outs
      /\ \A q \in Psbts \ {p} :
            tx'[q] = tx[q] /\ inputs'[q] = inputs[q] /\ outputs'[q] = outputs[q]
  BY DEF Become, AssemblyTypeOK
<1>2. \A q \in Live \ {p} :
         Begins(inputs[q], vin'[tx[q]]) /\ Begins(outputs[q], vout'[tx[q]])
  BY DEF PartsBegin
<1>3. QED
  BY <1>1, <1>2 DEF PartsBegin, Live

LEMMA PartsStep ==
    ASSUME AssemblyTypeOK, PartsBegin, [AssemblyNext]_assemblyVars
    PROVE  PartsBegin'
<1>0. \A S : \A a \in Seq(S) : Begins(a, a)
  BY DEF Begins
<1>1. ASSUME NEW p \in Psbts, NEW t \in Txs, Construct(p, t)
      PROVE  PartsBegin'
  <2>1. vin[t] \in Seq(TxIns) /\ vout[t] \in Seq(TxOuts)
    BY DEF AssemblyTypeOK
  <2>2. Begins(vin[t], vin[t]) /\ Begins(vout[t], vout[t])
    BY <1>0, <2>1
  <2>3. QED
    BY <1>1, <2>2, BecomeBegins DEF Construct
<1>2. ASSUME NEW p \in Psbts, NEW q \in Psbts, CloneParts(p, q)
      PROVE  PartsBegin'
  <2>1. /\ Become(q, tx[p], inputs[p], outputs[p]) /\ UNCHANGED <<vin, vout>>
        /\ Begins(inputs[p], vin[tx[p]]) /\ Begins(outputs[p], vout[tx[p]])
    BY <1>2 DEF CloneParts, PartsBegin
  <2>2. QED
    BY <2>1, BecomeBegins
<1>3. ASSUME NEW p \in Psbts, NEW q \in Psbts, MergeParts(p, q)
      PROVE  PartsBegin'
  <2>1. CASE UNCHANGED <<tx, inputs, outputs>>
    BY <1>3, <2>1 DEF MergeParts, PartsBegin, Live
  <2>2. CASE Become(p, tx[q], inputs[q], outputs[q])
    <3>1. /\ UNCHANGED <<vin, vout>>
          /\ Begins(inputs[q], vin[tx[q]]) /\ Begins(outputs[q], vout[tx[q]])
      BY <1>3 DEF MergeParts, PartsBegin
    <3>2. QED
      BY <2>2, <3>1, BecomeBegins
  <2>3. QED
    BY <1>3, <2>1, <2>2 DEF MergeParts
<1>4. ASSUME NEW p \in Psbts, NEW q \in Psbts, NEW t \in Txs, Reread(p, q, t)
      PROVE  PartsBegin'
  <2>1. /\ p \in Live /\ Consistent(p) /\ \A r \in Live : tx[r] # t
        /\ vin' = [vin EXCEPT ![t] = vin[tx[p]]]
        /\ vout' = [vout EXCEPT ![t] = vout[tx[p]]]
        /\ Become(q, t, inputs[p], outputs[p])
    BY <1>4 DEF Reread
  <2>2. inputs[p] = vin[tx[p]] /\ outputs[p] = vout[tx[p]]
    BY <2>1, ConsistentParts
  <2>3. vin'[t] = vin[tx[p]] /\ vout'[t] = vout[tx[p]]
    BY <2>1 DEF AssemblyTypeOK
  <2>4. inputs[p] \in Seq(TxIns) /\ outputs[p] \in Seq(TxOuts)
    BY DEF AssemblyTypeOK
  <2>5. Begins(inputs[p], vin'[t]) /\ Begins(outputs[p], vout'[t])
    BY <1>0, <2>2, <2>3, <2>4
  <2>6. \A r \in Live : vin'[tx[r]] = vin[tx[r]] /\ vout'[tx[r]] = vout[tx[r]]
    BY <2>1 DEF AssemblyTypeOK, Live
  <2>7. QED
    BY <2>1, <2>5, <2>6, BecomeBegins
<1>5. ASSUME NEW p \in Psbts, NEW x \in TxIns, AddInput(p, x)
      PROVE  PartsBegin'
  <2> DEFINE t == tx[p]
  <2>1. /\ p \in Live /\ Consistent(p) /\ t \in Txs /\ UNCHANGED <<vout, tx, outputs>>
        /\ vin[t] \in Seq(TxIns)
    BY <1>5 DEF AddInput, Live, AssemblyTypeOK
  <2>2. CASE vin' = vin /\ inputs' = inputs
    BY <2>1, <2>2 DEF PartsBegin, Live
  <2>3. CASE vin' = [vin EXCEPT ![t] = Append(@, x)]
    <3>1. /\ vin'[t] = Append(vin[t], x)
          /\ \A u \in Txs \ {t} : vin'[u] = vin[u]
      BY <2>1, <2>3 DEF AssemblyTypeOK
    <3> HIDE DEF t
    <3>2. ASSUME NEW q \in Live PROVE Begins(inputs[q], vin'[tx[q]])
      <4>1. /\ Begins(inputs[q], vin[tx[q]]) /\ tx[q] \in Txs
            /\ inputs[q] \in Seq(TxIns)
        BY DEF PartsBegin, Live, AssemblyTypeOK
      <4>2. CASE tx[q] = t
        <5>1. Begins(inputs[q], vin[t]) /\ vin'[tx[q]] = Append(vin[t], x)
          BY <3>1, <4>1, <4>2
        <5>2. /\ inputs[q] \in Seq(TxIns) /\ vin[t] \in Seq(TxIns) /\ x \in TxIns
          BY <2>1, <4>1
        <5>3. Begins(inputs[q], Append(vin[t], x))
          BY ONLY <5>1, <5>2, BeginsLonger
        <5>4. QED
          BY <5>1, <5>3
      <4>3. CASE tx[q] # t
        BY <3>1, <4>1, <4>3
      <4>4. QED
        BY <4>2, <4>3
    <3>3. CASE inputs' = inputs
      BY <2>1, <3>2, <3>3 DEF PartsBegin, Live
    <3>4. CASE inputs' = [inputs EXCEPT ![p] = Append(@, x)]
      <4>1. inputs'[p] = Append(inputs[p], x) /\ \A q \in Psbts \ {p} : inputs'[q] = inputs[q]
        BY <3>4 DEF AssemblyTypeOK
      <4>2. inputs[p] = vin[t]
        BY <2>1, ConsistentParts DEF t
      <4>3. Append(vin[t], x) \in Seq(TxIns)
        BY <2>1
      <4>4. Begins(inputs'[p], vin'[tx[p]])
        BY <1>0, <3>1, <4>1, <4>2, <4>3 DEF t
      <4>5. \A q \in Live : Begins(inputs'[q], vin'[tx[q]])
        BY <3>2, <4>1, <4>4 DEF Live
      <4>6. QED
        BY <2>1, <4>5 DEF PartsBegin, Live
    <3>5. QED
      BY <1>5, <3>3, <3>4 DEF AddInput
  <2>4. QED
    BY <1>5, <2>2, <2>3 DEF AddInput
<1>6. ASSUME NEW p \in Psbts, NEW y \in TxOuts, AddOutput(p, y)
      PROVE  PartsBegin'
  <2> DEFINE t == tx[p]
  <2>1. /\ p \in Live /\ Consistent(p) /\ t \in Txs /\ UNCHANGED <<vin, tx, inputs>>
        /\ vout[t] \in Seq(TxOuts)
        /\ vout' = [vout EXCEPT ![t] = Append(@, y)]
        /\ outputs' = [outputs EXCEPT ![p] = Append(@, y)]
    BY <1>6 DEF AddOutput, Live, AssemblyTypeOK
  <2>2. /\ vout'[t] = Append(vout[t], y)
        /\ \A u \in Txs \ {t} : vout'[u] = vout[u]
        /\ outputs'[p] = Append(outputs[p], y)
        /\ \A q \in Psbts \ {p} : outputs'[q] = outputs[q]
    BY <2>1 DEF AssemblyTypeOK
  <2>3. outputs[p] = vout[t]
    BY <2>1, ConsistentParts
  <2>4. Append(vout[t], y) \in Seq(TxOuts)
    BY <2>1
  <2> HIDE DEF t
  <2>5. Begins(outputs'[p], vout'[t])
    BY <1>0, <2>2, <2>3, <2>4
  <2>6. ASSUME NEW q \in Live, q # p PROVE Begins(outputs'[q], vout'[tx[q]])
    <3>1. /\ Begins(outputs[q], vout[tx[q]]) /\ tx[q] \in Txs
          /\ outputs[q] \in Seq(TxOuts) /\ q \in Psbts
      BY DEF PartsBegin, Live, AssemblyTypeOK
    <3>2. CASE tx[q] = t
      <4>1. /\ Begins(outputs[q], vout[t]) /\ outputs'[q] = outputs[q]
            /\ vout'[tx[q]] = Append(vout[t], y)
        BY <2>2, <2>6, <3>1, <3>2
      <4>2. /\ outputs[q] \in Seq(TxOuts) /\ vout[t] \in Seq(TxOuts) /\ y \in TxOuts
        BY <2>1, <3>1
      <4>3. Begins(outputs[q], Append(vout[t], y))
        BY ONLY <4>1, <4>2, BeginsLonger
      <4>4. QED
        BY <4>1, <4>3
    <3>3. CASE tx[q] # t
      BY <2>2, <2>6, <3>1, <3>3
    <3>4. QED
      BY <3>2, <3>3
  <2>7. \A q \in Live : Begins(outputs'[q], vout'[tx[q]])
    BY <2>5, <2>6 DEF t
  <2>8. QED
    BY <2>1, <2>7 DEF PartsBegin, Live
<1>7. ASSUME NEW p \in Psbts, Drop(p)
      PROVE  PartsBegin'
  BY <1>7, BecomeBegins DEF Drop
<1>8. ASSUME NEW t \in Txs, GetHash(t)
      PROVE  PartsBegin'
  BY <1>8 DEF GetHash, PartsBegin, Live
<1>9. CASE UNCHANGED assemblyVars
  BY <1>9 DEF assemblyVars, PartsBegin, Live
<1>10. QED
  BY <1>1, <1>2, <1>3, <1>4, <1>5, <1>6, <1>7, <1>8, <1>9 DEF AssemblyNext

\* The state of the objects has its types, however they are used.
THEOREM AssemblyTypes == AssemblySpec => []AssemblyTypeOK
<1>1. AssemblyInit => AssemblyTypeOK
  BY DEF AssemblyInit, AssemblyTypeOK
<1>2. QED
  BY <1>1, AssemblyTypeStep, PTL DEF AssemblySpec

\* A PSBT that has as many inputs and outputs as its transaction has the inputs
\* and outputs of its transaction, in order, for any sharing of transactions
\* between PSBTs and any refused additions: what _check_consistency compares
\* tells whether they belong together.
THEOREM LengthsSuffice == AssemblySpec => []LengthsTell
<1>1. AssemblyInit => PartsBegin
  BY DEF AssemblyInit, PartsBegin, Live
<1>2. AssemblyTypeOK /\ PartsBegin /\ [AssemblyNext]_assemblyVars => PartsBegin'
  BY PartsStep
<1>3. AssemblyTypeOK /\ PartsBegin => LengthsTell
  BY ConsistentParts DEF LengthsTell
<1>4. QED
  BY <1>1, <1>2, <1>3, AssemblyTypes, PTL DEF AssemblySpec

=============================================================================
