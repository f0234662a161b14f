------------------------ MODULE ClassDispatch_proofs ------------------------
(* Class dispatch for any number of contexts, dispatchers and nested calls:  *)
(* outside of any method the dispatchers are those of the selected chain;    *)
(* and where the active dispatchers fit together, the dispatcher of a method *)
(* is active in it, what a method or a with block changes is undone, and     *)
(* they fit together again.  The coins may differ in their wallet            *)
(* dispatchers and in one identity that these depend on.                     *)
EXTENDS ClassDispatch, SequenceTheorems, TLAPS

-----------------------------------------------------------------------------
(* Activating a dispatcher.                                                  *)

LEMMA DependsTypes ==
    ASSUME NEW d \in Dispatchers
    PROVE  AllDepends(d) \subseteq Dispatchers
<1>1. Depends \in [Dispatchers -> SUBSET Dispatchers]
  BY GraphAssumption
<1> DEFINE one == Depends[d]
           two == one \cup UNION {Depends[e] : e \in one}
<1>2. one \subseteq Dispatchers
  BY <1>1
<1>3. two \subseteq Dispatchers
  BY <1>1, <1>2
<1>4. AllDepends(d) = two \cup UNION {Depends[e] : e \in two}
  BY DEF AllDepends
<1> HIDE DEF two
<1>5. QED
  BY <1>1, <1>3, <1>4

LEMMA IdentityTypes ==
    ASSUME NEW d \in Dispatchers
    PROVE  Identity[d] \in Identities /\ d # None
BY GraphAssumption

\* What is in a row of the table after an activation.
LEMMA Activated ==
    ASSUME NEW m \in Tables, NEW d \in Dispatchers, NEW id \in Identities
    PROVE  \/ Activate(m, d)[id] = m[id]
           \/ \E e \in AllDepends(d) \cup {d} :
                 Identity[e] = id /\ Activate(m, d)[id] = e
<1> DEFINE E == AllDepends(d) \cup {d}
<1>1. CASE m[Identity[d]] = d
  BY <1>1 DEF Activate
<1>2. CASE m[Identity[d]] # d /\ \E e \in E : Identity[e] = id
  <2>1. Activate(m, d)[id] = CHOOSE e \in E : Identity[e] = id
    BY <1>2 DEF Activate
  <2> HIDE DEF E
  <2>2. /\ (CHOOSE e \in E : Identity[e] = id) \in E
        /\ Identity[CHOOSE e \in E : Identity[e] = id] = id
    BY <1>2
  <2>3. QED
    BY <2>1, <2>2 DEF E
<1>3. CASE m[Identity[d]] # d /\ ~\E e \in E : Identity[e] = id
  BY <1>3 DEF Activate
<1>4. QED
  BY <1>1, <1>2, <1>3

LEMMA ActivateTypes ==
    ASSUME NEW m \in Tables, NEW d \in Dispatchers
    PROVE  Activate(m, d) \in Tables
<1>1. CASE m[Identity[d]] = d
  BY <1>1 DEF Activate
<1>2. CASE m[Identity[d]] # d
  <2>1. DOMAIN Activate(m, d) = Identities
        /\ Activate(m, d) = [i \in Identities |-> Activate(m, d)[i]]
    BY <1>2 DEF Activate
  <2>2. \A i \in Identities : Activate(m, d)[i] \in Dispatchers \cup {None}
    <3> TAKE i \in Identities
    <3>1. m[i] \in Dispatchers \cup {None}
      BY DEF Tables
    <3>2. QED
      BY <3>1, Activated, DependsTypes
  <2>3. QED
    BY <2>1, <2>2 DEF Tables
<1>3. QED
  BY <1>1, <1>2

\* The dispatcher becomes active.
LEMMA ActivatesIt ==
    ASSUME NEW m \in Tables, NEW d \in Dispatchers
    PROVE  Activate(m, d)[Identity[d]] = d
<1>1. CASE m[Identity[d]] = d
  BY <1>1 DEF Activate
<1>2. CASE m[Identity[d]] # d
  <2> DEFINE E == AllDepends(d) \cup {d}
             C == CHOOSE e \in E : Identity[e] = Identity[d]
  <2>1. Activate(m, d)[Identity[d]] = C
    BY <1>2, IdentityTypes DEF Activate
  <2>2. C \in E /\ Identity[C] = Identity[d]
    OBVIOUS
  <2>3. C = d
    BY <2>2, DependsAssumption
  <2>4. QED
    BY <2>1, <2>3
<1>3. QED
  BY <1>1, <1>2

\* One of another identity does not displace what a settled row holds.
LEMMA ActivateKeeps ==
    ASSUME NEW m \in Tables, NEW d \in Dispatchers, NEW x \in Dispatchers,
           Settled(Identity[x]), m[Identity[x]] = x, Identity[d] # Identity[x]
    PROVE  Activate(m, d)[Identity[x]] = x
<1>1. Identity[x] \in Identities
  BY IdentityTypes
<1>2. CASE Activate(m, d)[Identity[x]] = m[Identity[x]]
  BY <1>2
<1>3. ASSUME NEW e \in AllDepends(d) \cup {d},
             Identity[e] = Identity[x], Activate(m, d)[Identity[x]] = e
      PROVE  Activate(m, d)[Identity[x]] = x
  BY <1>3 DEF Settled
<1>4. QED
  BY <1>1, <1>2, <1>3, Activated

-----------------------------------------------------------------------------
(* The rows of a table m and the calls on a stack s.                         *)

IsCall(f, id) ==
    f.kind = "call" /\ f.class \in Dispatchers /\ Identity[f.class] = id
CallsIn(s, id) == {i \in DOMAIN s : IsCall(s[i], id)}

\* The row holds the class of the innermost call of its identity, and each of
\* these calls will put back the class of the one around it.
Nested(m, s, id) ==
    /\ \A i \in CallsIn(s, id) :
          (\A j \in CallsIn(s, id) : j <= i) => m[id] = s[i].class
    /\ \A i, j \in CallsIn(s, id) :
          i < j /\ (\A k \in CallsIn(s, id) : k <= i \/ j <= k)
             => s[j].prev = s[i].class

\* The outermost of them will put back w; w is there now if there is none.
Outside(m, s, w) ==
    /\ CallsIn(s, Identity[w]) = {} => m[Identity[w]] = w
    /\ \A i \in CallsIn(s, Identity[w]) :
          (\A j \in CallsIn(s, Identity[w]) : i <= j) => s[i].prev = w

FrameOk(f) ==
    /\ f \in Frames
    /\ f.kind = "with" => f.prev \in ParamSets
    /\ f.kind = "call" => f.class \in Dispatchers \cup Bases
    /\ f.kind = "call" /\ f.class \in Dispatchers =>
          /\ f.prev \in Dispatchers \cup {None}
          /\ f.prev # None => Identity[f.prev] = Identity[f.class]

LEMMA CallsBelow ==
    ASSUME NEW s \in Seq(Frames), NEW f, NEW id
    PROVE  /\ CallsIn(s, id) \subseteq 1 .. Len(s) /\ Len(s) \in Nat
           /\ \A i \in CallsIn(s, id) : Append(s, f)[i] = s[i]
           /\ Append(s, f)[Len(s) + 1] = f
           /\ CallsIn(Append(s, f), id)
              = CallsIn(s, id) \cup (IF IsCall(f, id) THEN {Len(s) + 1} ELSE {})
<1>1. /\ Len(s) \in Nat /\ DOMAIN s = 1 .. Len(s)
      /\ DOMAIN Append(s, f) = 1 .. Len(s) + 1
      /\ Append(s, f)[Len(s) + 1] = f
      /\ \A i \in 1 .. Len(s) : Append(s, f)[i] = s[i]
  OBVIOUS
<1>2. QED
  BY <1>1 DEF CallsIn

\* A method call: the dispatcher is activated, the one before remembered.
LEMMA CallRows ==
    ASSUME NEW m \in Tables, NEW s \in Seq(Frames), NEW d \in Dispatchers,
           NEW id \in Identities, Settled(id), Nested(m, s, id),
           NEW f, f.kind = "call", f.class = d, f.prev = m[Identity[d]]
    PROVE  Nested(Activate(m, d), Append(s, f), id)
<1> DEFINE A == CallsIn(s, id)
           B == CallsIn(Append(s, f), id)
           n == Len(s) + 1
           t == Append(s, f)
<1>1. /\ A \subseteq 1 .. Len(s) /\ Len(s) \in Nat
      /\ \A i \in A : t[i] = s[i]
      /\ t[n] = f
      /\ B = A \cup (IF IsCall(f, id) THEN {n} ELSE {})
  BY CallsBelow
<1>2. /\ \A i \in A : (\A j \in A : j <= i) => m[id] = s[i].class
      /\ \A i, j \in A : i < j /\ (\A k \in A : k <= i \/ j <= k)
                           => s[j].prev = s[i].class
  BY DEF Nested
<1>3. \A i \in A : s[i].class \in Dispatchers /\ Identity[s[i].class] = id
  BY DEF CallsIn, IsCall
<1> SUFFICES
      /\ \A i \in B : (\A j \in B : j <= i) => Activate(m, d)[id] = t[i].class
      /\ \A i, j \in B : i < j /\ (\A k \in B : k <= i \/ j <= k)
                           => t[j].prev = t[i].class
  BY DEF Nested
<1>4. CASE Identity[d] = id
  <2>1. B = A \cup {n}
    BY <1>1, <1>4 DEF IsCall
  <2>2. Activate(m, d)[id] = d
    BY <1>4, ActivatesIt
  <2> HIDE DEF A, B, n, t
  <2>3. ASSUME NEW i \in B, \A j \in B : j <= i
        PROVE  Activate(m, d)[id] = t[i].class
    <3>1. i = n
      BY <1>1, <2>1, <2>3 DEF n
    <3>2. QED
      BY <1>1, <2>2, <3>1
  <2>4. ASSUME NEW i \in B, NEW j \in B, i < j,
               \A k \in B : k <= i \/ j <= k
        PROVE  t[j].prev = t[i].class
    <3>1. i \in A /\ \A k \in A : k < n
      BY <1>1, <2>1, <2>4 DEF n
    <3>2. CASE j = n
      <4>1. \A k \in A : k <= i
        BY <1>1, <2>1, <2>4, <3>1, <3>2 DEF n
      <4>2. m[id] = s[i].class
        BY <1>2, <3>1, <4>1
      <4>3. QED
        BY <1>1, <1>4, <3>1, <3>2, <4>2
    <3>3. CASE j # n
      <4>1. j \in A
        BY <2>1, <3>3
      <4>2. s[j].prev = s[i].class
        BY <1>2, <2>1, <2>4, <3>1, <4>1
      <4>3. QED
        BY <1>1, <3>1, <4>1, <4>2
    <3>4. QED
      BY <3>2, <3>3
  <2>5. QED
    BY <2>3, <2>4
<1>5. CASE Identity[d] # id
  <2>1. B = A
    BY <1>1, <1>5 DEF IsCall
  <2> HIDE DEF A, B, n, t
  <2>2. ASSUME NEW i \in A, \A j \in A : j <= i
        PROVE  Activate(m, d)[id] = t[i].class
    <3>1. m[id] = s[i].class
      BY <1>2, <2>2
    <3>2. Activate(m, d)[id] = s[i].class
      BY <1>3, <1>5, <3>1, ActivateKeeps
    <3>3. QED
      BY <1>1, <3>2
  <2>3. QED
    BY <1>1, <1>2, <2>1, <2>2
<1>6. QED
  BY <1>4, <1>5

LEMMA CallOutside ==
    ASSUME NEW m \in Tables, NEW s \in Seq(Frames), NEW d \in Dispatchers,
           NEW w \in Dispatchers, Settled(Identity[w]), Outside(m, s, w),
           NEW f, f.kind = "call", f.class = d, f.prev = m[Identity[d]]
    PROVE  Outside(Activate(m, d), Append(s, f), w)
<1> DEFINE id == Identity[w]
           A == CallsIn(s, id)
           B == CallsIn(Append(s, f), id)
           n == Len(s) + 1
           t == Append(s, f)
<1>1. /\ A \subseteq 1 .. Len(s) /\ Len(s) \in Nat
      /\ \A i \in A : t[i] = s[i]
      /\ t[n] = f
      /\ B = A \cup (IF IsCall(f, id) THEN {n} ELSE {})
  BY CallsBelow
<1>2. /\ A = {} => m[id] = w
      /\ \A i \in A : (\A j \in A : i <= j) => s[i].prev = w
  BY DEF Outside
<1> SUFFICES
      /\ B = {} => Activate(m, d)[id] = w
      /\ \A i \in B : (\A j \in B : i <= j) => t[i].prev = w
  BY DEF Outside
<1>3. CASE Identity[d] = id
  <2>1. B = A \cup {n}
    BY <1>1, <1>3 DEF IsCall
  <2> HIDE DEF A, B, n, t
  <2>2. ASSUME NEW i \in B, \A j \in B : i <= j
        PROVE  t[i].prev = w
    <3>1. CASE i = n
      <4>1. A = {}
        BY <1>1, <2>1, <2>2, <3>1 DEF n
      <4>2. QED
        BY <1>1, <1>2, <1>3, <3>1, <4>1
    <3>2. CASE i # n
      <4>1. i \in A
        BY <2>1, <3>2
      <4>2. QED
        BY <1>1, <1>2, <2>1, <2>2, <4>1
    <3>3. QED
      BY <3>1, <3>2
  <2>3. B # {}
    BY <2>1
  <2>4. QED
    BY <2>2, <2>3
<1>4. CASE Identity[d] # id
  <2>1. B = A
    BY <1>1, <1>4 DEF IsCall
  <2>2. A = {} => Activate(m, d)[id] = w
    BY <1>2, <1>4, ActivateKeeps
  <2> HIDE DEF A, B, n, t
  <2>3. QED
    BY <1>1, <1>2, <2>1, <2>2
<1>5. QED
  BY <1>3, <1>4

\* What the finally block of the wrapper makes of the table.
AfterCall(m, f) ==
    IF f.class \in Bases \/ f.prev = None THEN m ELSE Activate(m, f.prev)

\* A settled row keeps x when a call of another identity ends.
LEMMA AfterKeeps ==
    ASSUME NEW m \in Tables, NEW f, FrameOk(f), f.kind = "call",
           NEW x \in Dispatchers, Settled(Identity[x]), m[Identity[x]] = x,
           ~IsCall(f, Identity[x])
    PROVE  AfterCall(m, f)[Identity[x]] = x
<1>1. CASE f.class \in Bases \/ f.prev = None
  BY <1>1 DEF AfterCall
<1>2. CASE f.class \in Dispatchers /\ f.prev # None
  <2>1. f.prev \in Dispatchers /\ Identity[f.prev] # Identity[x]
    BY <1>2 DEF FrameOk, IsCall
  <2>2. Activate(m, f.prev)[Identity[x]] = x
    BY <2>1, ActivateKeeps
  <2>3. QED
    BY <1>2, <2>2 DEF AfterCall
<1>3. f.class \in Dispatchers \cup Bases
  BY DEF FrameOk
<1>4. QED
  BY <1>1, <1>2, <1>3

LEMMA LeaveRows ==
    ASSUME NEW m \in Tables, NEW s \in Seq(Frames), NEW f, FrameOk(f),
           f.kind = "call", NEW id \in Identities, Settled(id),
           Nested(m, Append(s, f), id)
    PROVE  Nested(AfterCall(m, f), s, id)
<1> DEFINE A == CallsIn(s, id)
           B == CallsIn(Append(s, f), id)
           n == Len(s) + 1
           t == Append(s, f)
           M == AfterCall(m, f)
<1>1. /\ A \subseteq 1 .. Len(s) /\ Len(s) \in Nat
      /\ \A i \in A : t[i] = s[i]
      /\ t[n] = f
      /\ B = A \cup (IF IsCall(f, id) THEN {n} ELSE {})
  BY CallsBelow
<1>2. /\ \A i \in B : (\A j \in B : j <= i) => m[id] = t[i].class
      /\ \A i, j \in B : i < j /\ (\A k \in B : k <= i \/ j <= k)
                           => t[j].prev = t[i].class
  BY DEF Nested
<1>3. \A i \in A : s[i].class \in Dispatchers /\ Identity[s[i].class] = id
  BY DEF CallsIn, IsCall
<1> SUFFICES
      /\ \A i \in A : (\A j \in A : j <= i) => M[id] = s[i].class
      /\ \A i, j \in A : i < j /\ (\A k \in A : k <= i \/ j <= k)
                           => s[j].prev = s[i].class
  BY DEF Nested
<1>4. CASE IsCall(f, id)
  <2>1. B = A \cup {n}
    BY <1>1, <1>4
  <2>2. f.class \in Dispatchers /\ f.class \notin Bases
    BY <1>4, GraphAssumption DEF IsCall
  <2>3. ASSUME NEW i \in A, \A j \in A : j <= i
        PROVE  M[id] = s[i].class
    <3> HIDE DEF A, B, t, M
    <3>1. i \in B /\ n \in B /\ i < n /\ \A k \in B : k <= i \/ n <= k
      BY <1>1, <2>1, <2>3
    <3>2. f.prev = s[i].class
      BY <1>1, <1>2, <3>1
    <3>3. f.prev \in Dispatchers /\ Identity[f.prev] = id /\ f.prev # None
      BY <1>3, <3>2, IdentityTypes
    <3>4. M[id] = f.prev
      BY <2>2, <3>3, ActivatesIt DEF AfterCall, M
    <3>5. QED
      BY <3>2, <3>4
  <2> HIDE DEF A, B, t, M, n
  <2>4. ASSUME NEW i \in A, NEW j \in A, i < j,
               \A k \in A : k <= i \/ j <= k
        PROVE  s[j].prev = s[i].class
    <3>1. j <= n
      BY <1>1 DEF n
    <3>2. \A k \in B : k <= i \/ j <= k
      BY <2>1, <2>4, <3>1
    <3>3. QED
      BY <1>1, <1>2, <2>1, <2>4, <3>2
  <2>5. QED
    BY <2>3, <2>4
<1>5. CASE ~IsCall(f, id)
  <2>1. B = A
    BY <1>1, <1>5
  <2> HIDE DEF A, B, t, M, n
  <2>2. ASSUME NEW i \in A, \A j \in A : j <= i
        PROVE  M[id] = s[i].class
    <3>1. m[id] = s[i].class
      BY <1>1, <1>2, <2>1, <2>2
    <3>2. QED
      BY <1>3, <1>5, <3>1, AfterKeeps DEF M
  <2>3. QED
    BY <1>1, <1>2, <2>1, <2>2
<1>6. QED
  BY <1>4, <1>5

LEMMA LeaveOutside ==
    ASSUME NEW m \in Tables, NEW s \in Seq(Frames), NEW f, FrameOk(f),
           f.kind = "call", NEW w \in Dispatchers, Settled(Identity[w]),
           Outside(m, Append(s, f), w)
    PROVE  Outside(AfterCall(m, f), s, w)
<1> DEFINE id == Identity[w]
           A == CallsIn(s, id)
           B == CallsIn(Append(s, f), id)
           n == Len(s) + 1
           t == Append(s, f)
           M == AfterCall(m, f)
<1>1. /\ A \subseteq 1 .. Len(s) /\ Len(s) \in Nat
      /\ \A i \in A : t[i] = s[i]
      /\ t[n] = f
      /\ B = A \cup (IF IsCall(f, id) THEN {n} ELSE {})
  BY CallsBelow
<1>2. /\ B = {} => m[id] = w
      /\ \A i \in B : (\A j \in B : i <= j) => t[i].prev = w
  BY DEF Outside
<1> SUFFICES
      /\ A = {} => M[id] = w
      /\ \A i \in A : (\A j \in A : i <= j) => s[i].prev = w
  BY DEF Outside
<1>3. CASE IsCall(f, id)
  <2>1. B = A \cup {n}
    BY <1>1, <1>3
  <2>2. f.class \in Dispatchers /\ f.class \notin Bases
    BY <1>3, GraphAssumption DEF IsCall
  <2>3. ASSUME A = {}
        PROVE  M[id] = w
    <3> HIDE DEF A, B, t, M
    <3>1. f.prev = w
      BY <1>1, <1>2, <2>1, <2>3
    <3>2. QED
      BY <2>2, <3>1, ActivatesIt, IdentityTypes DEF AfterCall, M
  <2> HIDE DEF A, B, t, M, n
  <2>4. ASSUME NEW i \in A, \A j \in A : i <= j
        PROVE  s[i].prev = w
    <3>1. i <= n
      BY <1>1 DEF n
    <3>2. QED
      BY <1>1, <1>2, <2>1, <2>4, <3>1
  <2>5. QED
    BY <2>3, <2>4
<1>4. CASE ~IsCall(f, id)
  <2>1. B = A
    BY <1>1, <1>4
  <2>2. A = {} => M[id] = w
    BY <1>2, <1>4, <2>1, AfterKeeps
  <2> HIDE DEF A, B, t, M, n
  <2>3. QED
    BY <1>1, <1>2, <2>1, <2>2
<1>5. QED
  BY <1>3, <1>4

-----------------------------------------------------------------------------
(* The invariant.                                                            *)

\* A table whose rows hold dispatchers of the identity of the row.
TableOk(m) ==
    /\ m \in Tables
    /\ \A id \in Identities : m[id] # None => Identity[m[id]] = id

\* The dispatchers that a selected chain puts outside of any method.
OfChain(p) == {Wallet[p], Psbt[p]}

\* A context with table m, stack s and parameters p; k tells whether these
\* were selected with success.  A with block is not entered inside of a method.
ContextOk(m, s, p, k) ==
    /\ TableOk(m)
    /\ s \in Seq(Frames) /\ \A i \in DOMAIN s : FrameOk(s[i])
    /\ p \in ParamSets
    /\ \A i, j \in DOMAIN s : i < j /\ s[j].kind = "with" => s[i].kind = "with"
    /\ \A id \in Identities : Settled(id) => Nested(m, s, id)
    /\ ChainsApart /\ k => /\ Selectable(p)
                           /\ \A w \in OfChain(p) : Outside(m, s, w)

IInv ==
    /\ TypeOK /\ known \subseteq alive
    /\ \A c \in Contexts : c \notin alive => stack[c] = <<>>
    /\ \A c \in Contexts :
          ContextOk(disp[c], stack[c], params[c], c \in known)

LEMMA ActivateOk ==
    ASSUME NEW m, TableOk(m), NEW d \in Dispatchers
    PROVE  TableOk(Activate(m, d))
<1>1. Activate(m, d) \in Tables
  BY ActivateTypes DEF TableOk
<1>2. ASSUME NEW id \in Identities, Activate(m, d)[id] # None
      PROVE  Identity[Activate(m, d)[id]] = id
  <2>1. CASE Activate(m, d)[id] = m[id]
    BY <1>2, <2>1 DEF TableOk
  <2>2. CASE \E e \in AllDepends(d) \cup {d} :
                Identity[e] = id /\ Activate(m, d)[id] = e
    BY <2>2
  <2>3. QED
    BY <2>1, <2>2, Activated DEF TableOk
<1>3. QED
  BY <1>1, <1>2 DEF TableOk

\* A step of context c.
LEMMA OneContext ==
    ASSUME IInv, NEW c \in Contexts, NEW m, NEW s, NEW p,
           disp' = [disp EXCEPT ![c] = m], stack' = [stack EXCEPT ![c] = s],
           params' = [params EXCEPT ![c] = p],
           known' \ {c} = known \ {c}, known' \subseteq alive',
           alive' = alive \cup {c}, broken' \subseteq Contexts,
           ContextOk(m, s, p, c \in known')
    PROVE  IInv'
<1>1. /\ TypeOK /\ known \subseteq alive
      /\ \A e \in Contexts : e \notin alive => stack[e] = <<>>
      /\ \A e \in Contexts :
            ContextOk(disp[e], stack[e], params[e], e \in known)
  BY DEF IInv
<1>2. /\ disp'[c] = m /\ params'[c] = p /\ stack'[c] = s
      /\ \A e \in Contexts \ {c} :
            /\ disp'[e] = disp[e] /\ params'[e] = params[e]
            /\ stack'[e] = stack[e]
  BY <1>1 DEF TypeOK
<1>3. \A e \in Contexts : e \notin alive' => stack'[e] = <<>>
  BY <1>1, <1>2
<1>4. ASSUME NEW e \in Contexts
      PROVE  ContextOk(disp'[e], stack'[e], params'[e], e \in known')
  <2>1. CASE e = c
    BY <1>2, <2>1
  <2>2. CASE e # c
    <3>1. e \in known' <=> e \in known
      BY <2>2
    <3>2. CASE e \in known
      <4>1. ContextOk(disp[e], stack[e], params[e], e \in known')
        BY <1>1, <3>1, <3>2 DEF ContextOk
      <4>2. QED
        BY <1>2, <2>2, <4>1
    <3>3. CASE e \notin known
      <4>1. ContextOk(disp[e], stack[e], params[e], e \in known')
        BY <1>1, <3>1, <3>3 DEF ContextOk
      <4>2. QED
        BY <1>2, <2>2, <4>1
    <3>4. QED
      BY <3>2, <3>3
  <2>3. QED
    BY <2>1, <2>2
<1>5. TypeOK'
  <2>1. m \in Tables /\ s \in Seq(Frames) /\ p \in ParamSets
    BY DEF ContextOk, TableOk
  <2>2. alive' \subseteq Contexts /\ known' \subseteq Contexts
    BY <1>1 DEF TypeOK
  <2>3. /\ disp' \in [Contexts -> Tables]
        /\ params' \in [Contexts -> ParamSets]
        /\ stack' \in [Contexts -> Seq(Frames)]
    BY <1>1, <2>1 DEF TypeOK
  <2>4. QED
    BY <2>2, <2>3 DEF TypeOK
<1>6. QED
  BY <1>3, <1>4, <1>5 DEF IInv

-----------------------------------------------------------------------------
(* Selecting a chain, outside of any method.                                 *)

OnlyWiths(s) == \A i \in DOMAIN s : s[i].kind = "with"

LEMMA WithoutCalls ==
    ASSUME NEW s, OnlyWiths(s), NEW m, NEW id
    PROVE  CallsIn(s, id) = {} /\ Nested(m, s, id)
<1>1. CallsIn(s, id) = {}
  BY DEF OnlyWiths, CallsIn, IsCall
<1>2. QED
  BY <1>1 DEF Nested

\* Frames of with blocks may come and go.
LEMMA OtherWiths ==
    ASSUME NEW m, NEW s, NEW p, NEW k, ContextOk(m, s, p, k), OnlyWiths(s),
           NEW t \in Seq(Frames), OnlyWiths(t),
           \A i \in DOMAIN t : FrameOk(t[i])
    PROVE  ContextOk(m, t, p, k)
<1>1. \A id : CallsIn(s, id) = {} /\ CallsIn(t, id) = {} /\ Nested(m, t, id)
  BY WithoutCalls
<1>2. \A w : Outside(m, s, w) => Outside(m, t, w)
  BY <1>1 DEF Outside
<1>3. TableOk(m) /\ p \in ParamSets
  BY DEF ContextOk
<1>4. \A i, j \in DOMAIN t : i < j /\ t[j].kind = "with" => t[i].kind = "with"
  BY DEF OnlyWiths
<1>5. ChainsApart /\ k => /\ Selectable(p)
                         /\ \A w \in OfChain(p) : Outside(m, t, w)
  BY <1>2 DEF ContextOk
<1>6. QED
  BY <1>1, <1>3, <1>4, <1>5 DEF ContextOk

\* The table that select_chain_params leaves.
Selected(m, q) ==
    IF Selectable(q) THEN SelectTable(m, q) ELSE FailedTable(m, q)

LEMMA SelectOk ==
    ASSUME NEW m, TableOk(m), NEW q \in ParamSets, NEW s \in Seq(Frames),
           OnlyWiths(s), \A i \in DOMAIN s : FrameOk(s[i])
    PROVE  ContextOk(Selected(m, q), s, q, Selectable(q))
<1>1. /\ Wallet[q] \in Dispatchers \cup Bases
      /\ Psbt[q] \in Dispatchers \cup Bases
  BY GraphAssumption
<1>2. TableOk(Selected(m, q))
  <2>1. CASE Selectable(q)
    BY <2>1, ActivateOk DEF Selectable, Selected, SelectTable
  <2>2. CASE ~Selectable(q) /\ Wallet[q] \in Bases
    BY <2>2 DEF Selected, FailedTable
  <2>3. CASE ~Selectable(q) /\ Wallet[q] \notin Bases
    <3>1. TableOk(Activate(m, Wallet[q]))
      BY <1>1, <2>3, ActivateOk
    <3>2. QED
      BY <2>3, <3>1 DEF Selected, FailedTable
  <2>4. QED
    BY <2>1, <2>2, <2>3
<1>3. ASSUME ChainsApart, Selectable(q), NEW w \in OfChain(q)
      PROVE  Outside(Selected(m, q), s, w)
  <2> DEFINE a == Activate(m, Wallet[q])
             b == Activate(a, Psbt[q])
  <2>1. /\ Wallet[q] \in Dispatchers /\ Psbt[q] \in Dispatchers
        /\ Selected(m, q) = b
    BY <1>3 DEF Selectable, Selected, SelectTable
  <2>2. /\ Identity[Wallet[q]] # Identity[Psbt[q]]
        /\ Settled(Identity[Wallet[q]])
    BY <1>3 DEF ChainsApart
  <2>3. m \in Tables /\ a \in Tables
    BY <2>1, ActivateTypes DEF TableOk
  <2>4. a[Identity[Wallet[q]]] = Wallet[q]
    BY <2>1, <2>3, ActivatesIt
  <2> HIDE DEF a
  <2>5. b[Identity[Wallet[q]]] = Wallet[q]
    BY <2>1, <2>2, <2>3, <2>4, ActivateKeeps
  <2>6. b[Identity[Psbt[q]]] = Psbt[q]
    BY <2>1, <2>3, ActivatesIt
  <2>7. b[Identity[w]] = w
    BY <2>5, <2>6 DEF OfChain
  <2>8. CallsIn(s, Identity[w]) = {}
    BY WithoutCalls
  <2> HIDE DEF b
  <2>9. QED
    BY <2>1, <2>7, <2>8 DEF Outside
<1>4. \A id \in Identities : Nested(Selected(m, q), s, id)
  BY WithoutCalls
<1>5. \A i, j \in DOMAIN s : i < j /\ s[j].kind = "with" => s[i].kind = "with"
  BY DEF OnlyWiths
<1>6. QED
  BY <1>2, <1>3, <1>4, <1>5 DEF ContextOk

LEMMA SelectEffect ==
    ASSUME IInv, NEW c \in Contexts, NEW q, Select(c, q)
    PROVE  /\ params' = [params EXCEPT ![c] = q]
           /\ disp' = [disp EXCEPT ![c] = Selected(disp[c], q)]
           /\ known' \ {c} = known \ {c}
           /\ c \in known' <=> Selectable(q)
           /\ known' \subseteq known \cup {c}
<1>1. disp \in [Contexts -> Tables]
  BY DEF IInv, TypeOK
<1>2. CASE Selectable(q)
  BY <1>1, <1>2 DEF Select, Selected
<1>3. CASE ~Selectable(q)
  BY <1>1, <1>3 DEF Select, Selected
<1>4. QED
  BY <1>2, <1>3

\* What the invariant says of a context that is not in a method.
LEMMA OutsideMethods ==
    ASSUME IInv, NEW c \in Contexts, ~InCall(c)
    PROVE  /\ ContextOk(disp[c], stack[c], params[c], c \in known)
           /\ TableOk(disp[c]) /\ params[c] \in ParamSets
           /\ stack[c] \in Seq(Frames) /\ OnlyWiths(stack[c])
           /\ \A i \in DOMAIN stack[c] : FrameOk(stack[c][i])
<1>1. ContextOk(disp[c], stack[c], params[c], c \in known)
  BY DEF IInv
<1>2. /\ TableOk(disp[c]) /\ params[c] \in ParamSets
      /\ stack[c] \in Seq(Frames)
      /\ \A i \in DOMAIN stack[c] : FrameOk(stack[c][i])
  BY <1>1 DEF ContextOk
<1>3. \A i \in DOMAIN stack[c] : stack[c][i].kind \in {"call", "with"}
  BY <1>2 DEF FrameOk, Frames
<1>4. OnlyWiths(stack[c])
  BY <1>3 DEF InCall, OnlyWiths
<1>5. QED
  BY <1>1, <1>2, <1>4

-----------------------------------------------------------------------------
(* One lemma for each action.                                                *)

LEMMA SelectParamsStep ==
    ASSUME IInv, NEW c \in Contexts, NEW q \in ParamSets, SelectParams(c, q)
    PROVE  IInv'
<1>1. /\ c \in alive /\ ~InCall(c) /\ Select(c, q)
      /\ UNCHANGED <<alive, stack, broken>>
  BY DEF SelectParams
<1>2. ContextOk(Selected(disp[c], q), stack[c], q, Selectable(q))
  BY <1>1, OutsideMethods, SelectOk
<1>3. /\ params' = [params EXCEPT ![c] = q]
      /\ disp' = [disp EXCEPT ![c] = Selected(disp[c], q)]
      /\ known' \ {c} = known \ {c}
      /\ c \in known' <=> Selectable(q)
      /\ known' \subseteq known \cup {c}
  BY <1>1, SelectEffect
<1>4. stack' = [stack EXCEPT ![c] = stack[c]]
  BY <1>1 DEF IInv, TypeOK
<1>5. known \subseteq alive /\ broken \subseteq Contexts
  BY DEF IInv, TypeOK
<1>6. ContextOk(Selected(disp[c], q), stack[c], q, c \in known')
  BY <1>2, <1>3 DEF ContextOk
<1>7. QED
  BY <1>1, <1>3, <1>4, <1>5, <1>6, OneContext, ZenonT(30)

LEMMA WithFrameOk ==
    ASSUME IInv, NEW c \in Contexts
    PROVE  /\ WithFrame(params[c], c) \in Frames
           /\ WithFrame(params[c], c).kind = "with"
           /\ FrameOk(WithFrame(params[c], c))
<1>1. disp[c] \in Tables /\ params[c] \in ParamSets
  BY DEF IInv, TypeOK
<1>2. InEffect(c) \in Tables \X ParamSets \X BOOLEAN
  <2>1. \A x \in Tables, y \in ParamSets, z \in BOOLEAN :
           <<x, y, z>> \in Tables \X ParamSets \X BOOLEAN
    OBVIOUS
  <2>2. (c \in known) \in BOOLEAN
    OBVIOUS
  <2>3. QED
    BY <1>1, <2>1, <2>2 DEF InEffect
<1>3. QED
  BY <1>1, <1>2 DEF WithFrame, FrameOk, Frames

LEMMA EnterWithStep ==
    ASSUME IInv, NEW c \in Contexts, NEW q \in ParamSets, EnterWith(c, q)
    PROVE  IInv'
<1> DEFINE f == WithFrame(params[c], c)
           s == IF Selectable(q) THEN Append(stack[c], f) ELSE stack[c]
<1>1. /\ c \in alive /\ ~InCall(c) /\ Select(c, q)
      /\ UNCHANGED <<alive, broken>>
  BY DEF EnterWith
<1>2. stack' = [stack EXCEPT ![c] = s]
  BY DEF EnterWith, Push, IInv, TypeOK
<1>3. f \in Frames /\ f.kind = "with" /\ FrameOk(f)
  BY WithFrameOk
<1> HIDE DEF f
<1>4. s \in Seq(Frames) /\ OnlyWiths(s) /\ \A i \in DOMAIN s : FrameOk(s[i])
  <2>1. stack[c] \in Seq(Frames) /\ OnlyWiths(stack[c])
        /\ \A i \in DOMAIN stack[c] : FrameOk(stack[c][i])
    BY <1>1, OutsideMethods
  <2>2. QED
    BY <1>3, <2>1 DEF OnlyWiths
<1> HIDE DEF s
<1>5. ContextOk(Selected(disp[c], q), s, q, Selectable(q))
  BY <1>1, <1>4, OutsideMethods, SelectOk
<1>6. /\ params' = [params EXCEPT ![c] = q]
      /\ disp' = [disp EXCEPT ![c] = Selected(disp[c], q)]
      /\ known' \ {c} = known \ {c}
      /\ c \in known' <=> Selectable(q)
      /\ known' \subseteq known \cup {c}
  BY <1>1, SelectEffect
<1>7. known \subseteq alive /\ broken \subseteq Contexts
  BY DEF IInv, TypeOK
<1>8. ContextOk(Selected(disp[c], q), s, q, c \in known')
  BY <1>5, <1>6 DEF ContextOk
<1>9. QED
  BY <1>1, <1>2, <1>6, <1>7, <1>8, OneContext

\* The frame on top, and those below it.
LEMMA Topmost ==
    ASSUME NEW s \in Seq(Frames), s # <<>>
    PROVE  /\ Front(s) \in Seq(Frames) /\ Last(s) \in Frames
           /\ s = Append(Front(s), Last(s))
           /\ Len(s) \in DOMAIN s /\ Last(s) = s[Len(s)]
           /\ Len(s) \in Nat /\ Len(Front(s)) = Len(s) - 1
           /\ \A i \in DOMAIN Front(s) :
                 i \in DOMAIN s /\ i < Len(s) /\ Front(s)[i] = s[i]
<1>1. Len(s) \in Nat \ {0} /\ DOMAIN s = 1 .. Len(s)
  OBVIOUS
<1>2. Front(s) = SubSeq(s, 1, Len(s) - 1) /\ Last(s) = s[Len(s)]
  BY DEF Front, Last
<1> DEFINE t == SubSeq(s, 1, Len(s) - 1)
<1>3. /\ t \in Seq(Frames) /\ Len(t) = Len(s) - 1
      /\ \A i \in 1 .. Len(s) - 1 : t[i] = s[i]
  BY <1>1
<1> HIDE DEF t
<1>4. DOMAIN t = 1 .. Len(s) - 1
  BY <1>1, <1>3
<1>5. s = Append(t, s[Len(s)])
  <2> DEFINE e == s[Len(s)]
             u == Append(t, e)
  <2>1. e \in Frames
    BY <1>1
  <2>2. /\ u \in Seq(Frames) /\ Len(u) = Len(t) + 1
        /\ \A i \in 1 .. Len(t) : u[i] = t[i]
        /\ u[Len(t) + 1] = e
    BY <1>3, <2>1, AppendProperties
  <2> HIDE DEF u
  <2>3. Len(u) = Len(s) /\ \A i \in 1 .. Len(s) : s[i] = u[i]
    BY <1>1, <1>3, <2>2
  <2>4. s = u
    BY <2>2, <2>3, SeqEqual
  <2>5. QED
    BY <2>4 DEF u
<1>6. QED
  BY <1>1, <1>2, <1>3, <1>4, <1>5 DEF t

LEMMA ExitWithStep ==
    ASSUME IInv, NEW c \in Contexts, ExitWith(c)
    PROVE  IInv'
<1> DEFINE s == stack[c]
           t == Front(s)
           q == Last(s).prev
<1>1. /\ s # <<>> /\ Last(s).kind = "with" /\ Select(c, q)
      /\ stack' = [stack EXCEPT ![c] = t]
      /\ UNCHANGED <<alive, broken>>
  BY DEF ExitWith, Pop, IInv, TypeOK
<1>2. /\ s \in Seq(Frames) /\ TableOk(disp[c])
      /\ \A i \in DOMAIN s : FrameOk(s[i])
      /\ \A i, j \in DOMAIN s : i < j /\ s[j].kind = "with" => s[i].kind = "with"
  BY DEF IInv, ContextOk
<1>3. c \in alive /\ known \subseteq alive /\ broken \subseteq Contexts
  BY <1>1 DEF IInv, TypeOK
<1> HIDE DEF s
<1>4. /\ t \in Seq(Frames)
      /\ Len(s) \in DOMAIN s /\ Last(s) = s[Len(s)]
      /\ \A i \in DOMAIN t : i \in DOMAIN s /\ i < Len(s) /\ t[i] = s[i]
  BY <1>1, <1>2, Topmost
<1>5. q \in ParamSets
  BY <1>1, <1>2, <1>4 DEF FrameOk
<1> HIDE DEF t, q
<1>6. OnlyWiths(t) /\ \A i \in DOMAIN t : FrameOk(t[i])
  BY <1>1, <1>2, <1>4 DEF OnlyWiths
<1>7. ContextOk(Selected(disp[c], q), t, q, Selectable(q))
  BY <1>2, <1>4, <1>5, <1>6, SelectOk
<1>8. /\ params' = [params EXCEPT ![c] = q]
      /\ disp' = [disp EXCEPT ![c] = Selected(disp[c], q)]
      /\ known' \ {c} = known \ {c}
      /\ c \in known' <=> Selectable(q)
      /\ known' \subseteq known \cup {c}
  BY <1>1, SelectEffect
<1>9. ContextOk(Selected(disp[c], q), t, q, c \in known')
  BY <1>7, <1>8 DEF ContextOk
<1>10. QED
  BY <1>1, <1>3, <1>8, <1>9, OneContext

LEMMA CreateTaskStep ==
    ASSUME IInv, NEW c \in Contexts, NEW t \in Contexts, CreateTask(c, t)
    PROVE  IInv'
<1>1. /\ c \in alive /\ t \notin alive /\ ~InCall(c) /\ c # t
      /\ alive' = alive \cup {t}
      /\ disp' = [disp EXCEPT ![t] = disp[c]]
      /\ params' = [params EXCEPT ![t] = params[c]]
      /\ known' = IF c \in known THEN known \cup {t} ELSE known
      /\ UNCHANGED <<stack, broken>>
  BY DEF CreateTask
<1>2. /\ known \subseteq alive /\ broken \subseteq Contexts
      /\ stack[t] = <<>>
      /\ stack \in [Contexts -> Seq(Frames)]
  BY <1>1 DEF IInv, TypeOK
<1>3. stack' = [stack EXCEPT ![t] = <<>>]
  BY <1>1, <1>2
<1>4. /\ OnlyWiths(<<>>) /\ <<>> \in Seq(Frames)
      /\ \A i \in DOMAIN <<>> : FrameOk(<<>>[i])
  BY DEF OnlyWiths
<1>5. ContextOk(disp[c], <<>>, params[c], c \in known)
  <2>1. ContextOk(disp[c], stack[c], params[c], c \in known)
        /\ OnlyWiths(stack[c])
    BY <1>1, OutsideMethods
  <2>2. QED
    BY <1>4, <2>1, OtherWiths
<1>6. t \in known' <=> c \in known
  BY <1>1, <1>2
<1>7. ContextOk(disp[c], <<>>, params[c], t \in known')
  BY <1>5, <1>6 DEF ContextOk
<1>8. known' \ {t} = known \ {t} /\ known' \subseteq alive'
  BY <1>1, <1>2
<1>9. QED
  BY <1>1, <1>2, <1>3, <1>7, <1>8, OneContext

LEMMA StartThreadStep ==
    ASSUME IInv, NEW c \in Contexts, StartThread(c)
    PROVE  IInv'
<1>1. /\ alive' = alive \cup {c}
      /\ UNCHANGED <<disp, params, stack, known, broken>>
  BY DEF StartThread
<1>2. /\ disp' = [disp EXCEPT ![c] = disp[c]]
      /\ params' = [params EXCEPT ![c] = params[c]]
      /\ stack' = [stack EXCEPT ![c] = stack[c]]
  BY <1>1 DEF IInv, TypeOK
<1>3. /\ known' \subseteq alive' /\ known' \ {c} = known \ {c}
      /\ broken' \subseteq Contexts
      /\ ContextOk(disp[c], stack[c], params[c], c \in known)
  BY <1>1 DEF IInv, TypeOK
<1>4. ContextOk(disp[c], stack[c], params[c], c \in known')
  BY <1>1, <1>3
<1>5. QED
  BY <1>1, <1>2, <1>3, <1>4, OneContext

LEMMA CallFrameOk ==
    ASSUME IInv, NEW c \in Contexts, NEW d \in Dispatchers \cup Bases
    PROVE  LET prev == IF d \in Bases THEN None ELSE disp[c][Identity[d]]
               f == CallFrame(d, prev, c)
           IN  /\ f \in Frames /\ f.kind = "call" /\ f.class = d
               /\ f.prev = prev /\ FrameOk(f)
<1> DEFINE prev == IF d \in Bases THEN None ELSE disp[c][Identity[d]]
           f == CallFrame(d, prev, c)
<1>1. TableOk(disp[c]) /\ disp[c] \in Tables /\ params[c] \in ParamSets
  BY DEF IInv, ContextOk, TableOk
<1>2. InEffect(c) \in Tables \X ParamSets \X BOOLEAN
  <2>1. \A x \in Tables, y \in ParamSets, z \in BOOLEAN :
           <<x, y, z>> \in Tables \X ParamSets \X BOOLEAN
    OBVIOUS
  <2>2. (c \in known) \in BOOLEAN
    OBVIOUS
  <2>3. QED
    BY <1>1, <2>1, <2>2 DEF InEffect
<1>3. prev \in Dispatchers \cup {None}
  BY <1>1, IdentityTypes DEF Tables
<1>4. d \in Dispatchers /\ prev # None => Identity[prev] = Identity[d]
  BY <1>1, IdentityTypes DEF TableOk
<1> HIDE DEF prev
<1>5. f.kind = "call" /\ f.class = d /\ f.prev = prev /\ f.before = InEffect(c)
  BY DEF CallFrame
<1>6. f \in Frames
  BY <1>2, <1>3 DEF CallFrame, Frames
<1>7. FrameOk(f)
  BY <1>3, <1>4, <1>5, <1>6 DEF FrameOk
<1>8. QED
  BY <1>5, <1>6, <1>7 DEF prev

LEMMA CallMethodStep ==
    ASSUME IInv, NEW c \in Contexts, NEW d \in Dispatchers \cup Bases,
           CallMethod(c, d)
    PROVE  IInv'
<1> DEFINE m == disp[c]
           M == IF d \in Bases THEN m ELSE Activate(m, d)
           s == stack[c]
           prev == IF d \in Bases THEN None ELSE disp[c][Identity[d]]
           f == CallFrame(d, prev, c)
           t == Append(s, f)
           p == params[c]
           k == c \in known
<1>1. /\ c \in alive
      /\ disp' = [disp EXCEPT ![c] = M] /\ stack' = [stack EXCEPT ![c] = t]
      /\ UNCHANGED <<alive, params, known, broken>>
  BY DEF CallMethod, Push, IInv, TypeOK
<1>2. params' = [params EXCEPT ![c] = p]
  BY <1>1 DEF IInv, TypeOK
<1>3. known \subseteq alive /\ broken \subseteq Contexts
      /\ ContextOk(m, s, p, k)
  BY DEF IInv, TypeOK
<1>4. f \in Frames /\ f.kind = "call" /\ f.class = d /\ f.prev = prev /\ FrameOk(f)
  BY CallFrameOk
<1>5. prev = IF d \in Bases THEN None ELSE m[Identity[d]]
  OBVIOUS
<1>6. Dispatchers \cap Bases = {}
  BY GraphAssumption
<1> HIDE DEF f, prev, m, s, p, k
<1>7. /\ s \in Seq(Frames) /\ TableOk(m) /\ m \in Tables /\ p \in ParamSets
      /\ \A i \in DOMAIN s : FrameOk(s[i])
      /\ \A i, j \in DOMAIN s : i < j /\ s[j].kind = "with" => s[i].kind = "with"
  BY <1>3 DEF ContextOk, TableOk
<1>8. TableOk(M)
  BY <1>7, ActivateOk
<1>9. /\ t \in Seq(Frames) /\ Len(s) \in Nat
      /\ DOMAIN s = 1 .. Len(s) /\ DOMAIN t = 1 .. Len(s) + 1
      /\ t[Len(s) + 1] = f /\ \A i \in DOMAIN s : t[i] = s[i]
  BY <1>4, <1>7
<1>10. /\ \A i \in DOMAIN t : FrameOk(t[i])
       /\ \A i, j \in DOMAIN t : i < j /\ t[j].kind = "with" => t[i].kind = "with"
  <2> HIDE DEF t
  <2>1. \A i \in DOMAIN t : i \in DOMAIN s \/ i = Len(s) + 1
    BY <1>9
  <2>2. QED
    BY <1>4, <1>7, <1>9, <2>1
<1>11. ASSUME ContextOk(M, t, p, k)
       PROVE  IInv'
  <2> HIDE DEF M, t
  <2>1. ContextOk(M, t, p, c \in known')
    BY <1>1, <1>11 DEF k
  <2>2. alive' = alive \cup {c} /\ known' \ {c} = known \ {c}
        /\ known' \subseteq alive' /\ broken' \subseteq Contexts
    BY <1>1, <1>3
  <2>3. QED
    BY <1>1, <1>2, <2>1, <2>2, OneContext
\* A method of a class of a base dispatcher activates nothing.
<1>12. CASE d \in Bases
  <2>1. \A id : ~IsCall(f, id)
    BY <1>4, <1>6, <1>12 DEF IsCall
  <2>2. \A id : /\ CallsIn(s, id) = CallsIn(t, id)
                /\ \A i \in CallsIn(s, id) : t[i] = s[i]
    <3> TAKE id
    <3>1. /\ \A i \in CallsIn(s, id) : t[i] = s[i]
          /\ CallsIn(t, id) = CallsIn(s, id)
                \cup (IF IsCall(f, id) THEN {Len(s) + 1} ELSE {})
      BY <1>7, CallsBelow
    <3>2. QED
      BY <2>1, <3>1
  <2> HIDE DEF t
  <2>3. \A id : Nested(m, s, id) => Nested(m, t, id)
    BY <2>2 DEF Nested
  <2>4. \A w : Outside(m, s, w) => Outside(m, t, w)
    BY <2>2 DEF Outside
  <2>5. ContextOk(m, t, p, k)
    BY <1>3, <1>7, <1>9, <1>10, <2>3, <2>4 DEF ContextOk
  <2>6. M = m
    BY <1>12
  <2>7. QED
    BY <1>11, <2>5, <2>6
<1>13. CASE d \in Dispatchers
  <2>1. M = Activate(m, d) /\ f.prev = m[Identity[d]]
    BY <1>4, <1>5, <1>6, <1>13
  <2>2. \A id \in Identities : Settled(id) => Nested(M, t, id)
    BY <1>3, <1>4, <1>7, <1>13, <2>1, CallRows DEF ContextOk
  <2>3. ASSUME ChainsApart, k
        PROVE  Selectable(p) /\ \A w \in OfChain(p) : Outside(M, t, w)
    <3>1. Selectable(p) /\ \A w \in OfChain(p) : Outside(m, s, w)
      BY <1>3, <2>3 DEF ContextOk
    <3>2. \A w \in OfChain(p) : w \in Dispatchers /\ Settled(Identity[w])
      BY <1>7, <2>3, <3>1 DEF ChainsApart, Selectable, OfChain
    <3>3. QED
      BY <1>4, <1>7, <1>13, <2>1, <3>1, <3>2, CallOutside
  <2> HIDE DEF M, t
  <2>4. ContextOk(M, t, p, k)
    BY <1>7, <1>8, <1>9, <1>10, <2>2, <2>3 DEF ContextOk
  <2>5. QED
    BY <1>11, <2>4
<1>14. QED
  BY <1>12, <1>13

LEMMA LeaveMethodStep ==
    ASSUME IInv, NEW c \in Contexts, LeaveMethod(c)
    PROVE  IInv'
<1> DEFINE m == disp[c]
           t == stack[c]
           s == Front(t)
           f == Last(t)
           M == AfterCall(m, f)
           p == params[c]
           k == c \in known
<1>1. /\ t # <<>> /\ f.kind = "call"
      /\ stack' = [stack EXCEPT ![c] = s]
      /\ UNCHANGED <<alive, params, known>>
  BY DEF LeaveMethod, Pop, IInv, TypeOK
<1>2. /\ disp' = [disp EXCEPT ![c] = M]
      /\ params' = [params EXCEPT ![c] = p]
      /\ broken' \subseteq Contexts
  BY <1>1 DEF LeaveMethod, AfterCall, IInv, TypeOK
<1>3. known \subseteq alive /\ ContextOk(m, t, p, k) /\ c \in alive
  BY <1>1 DEF IInv, TypeOK
<1> HIDE DEF m, t, p, k
<1>4. /\ t \in Seq(Frames) /\ TableOk(m) /\ m \in Tables /\ p \in ParamSets
      /\ \A i \in DOMAIN t : FrameOk(t[i])
      /\ \A i, j \in DOMAIN t : i < j /\ t[j].kind = "with" => t[i].kind = "with"
  BY <1>3 DEF ContextOk, TableOk
<1>5. /\ s \in Seq(Frames) /\ f \in Frames /\ t = Append(s, f)
      /\ Len(t) \in DOMAIN t /\ f = t[Len(t)]
      /\ \A i \in DOMAIN s : i \in DOMAIN t /\ i < Len(t) /\ s[i] = t[i]
  BY <1>1, <1>4, Topmost
<1>6. FrameOk(f)
  BY <1>4, <1>5
<1> HIDE DEF f, s
<1>7. /\ \A i \in DOMAIN s : FrameOk(s[i])
      /\ \A i, j \in DOMAIN s : i < j /\ s[j].kind = "with" => s[i].kind = "with"
  BY <1>4, <1>5
<1>8. TableOk(M)
  <2>1. f.class \notin Bases /\ f.prev # None => f.prev \in Dispatchers
    BY <1>1, <1>6 DEF FrameOk
  <2>2. QED
    BY <1>4, <2>1, ActivateOk DEF AfterCall
<1>9. \A id \in Identities : Settled(id) => Nested(M, s, id)
  <2> TAKE id \in Identities
  <2> HAVE Settled(id)
  <2>1. Nested(m, Append(s, f), id)
    BY <1>3, <1>5 DEF ContextOk
  <2>2. QED
    BY <1>1, <1>4, <1>5, <1>6, <2>1, LeaveRows
<1>10. ASSUME ChainsApart, k
       PROVE  Selectable(p) /\ \A w \in OfChain(p) : Outside(M, s, w)
  <2>1. Selectable(p) /\ \A w \in OfChain(p) : Outside(m, Append(s, f), w)
    BY <1>3, <1>5, <1>10 DEF ContextOk
  <2>2. \A w \in OfChain(p) : w \in Dispatchers /\ Settled(Identity[w])
    BY <1>4, <1>10, <2>1 DEF ChainsApart, Selectable, OfChain
  <2>3. QED
    BY <1>1, <1>4, <1>5, <1>6, <2>1, <2>2, LeaveOutside
<1> HIDE DEF M
<1>11. ContextOk(M, s, p, k)
  BY <1>4, <1>5, <1>7, <1>8, <1>9, <1>10 DEF ContextOk
<1>12. ContextOk(M, s, p, c \in known')
  BY <1>1, <1>11 DEF k
<1>13. alive' = alive \cup {c} /\ known' \ {c} = known \ {c}
       /\ known' \subseteq alive'
  BY <1>1, <1>3
<1>14. QED
  BY <1>1, <1>2, <1>12, <1>13, OneContext

-----------------------------------------------------------------------------
(* The theorems.                                                             *)

LEMMA IInvInit == Init => IInv
<1> SUFFICES ASSUME Init PROVE IInv
  OBVIOUS
<1> DEFINE m == SelectTable(NoTable, Default)
<1>1. TableOk(NoTable)
  BY DEF TableOk, NoTable, Tables
<1>2. Selectable(Default) /\ Default \in ParamSets /\ Main \in Contexts
  BY GraphAssumption DEF Selectable
<1>3. /\ OnlyWiths(<<>>) /\ <<>> \in Seq(Frames)
      /\ \A i \in DOMAIN <<>> : FrameOk(<<>>[i])
  BY DEF OnlyWiths
<1>4. ContextOk(m, <<>>, Default, TRUE)
  <2>1. Selected(NoTable, Default) = m
    BY <1>2 DEF Selected
  <2> HIDE DEF m
  <2>2. ContextOk(m, <<>>, Default, Selectable(Default))
    BY <1>1, <1>2, <1>3, <2>1, SelectOk
  <2>3. QED
    BY <1>2, <2>2 DEF ContextOk
<1>5. ContextOk(NoTable, <<>>, Default, FALSE)
  <2>1. \A id : Nested(NoTable, <<>>, id)
    BY <1>3, WithoutCalls
  <2>2. QED
    BY <1>1, <1>2, <1>3, <2>1 DEF ContextOk, OnlyWiths
<1> HIDE DEF m
<1>6. m \in Tables /\ NoTable \in Tables
  BY <1>4, <1>5 DEF ContextOk, TableOk
<1>7. /\ alive = {Main} /\ known = {Main} /\ broken = {}
      /\ disp = [c \in Contexts |-> IF c = Main THEN m ELSE NoTable]
      /\ params = [c \in Contexts |-> Default]
      /\ stack = [c \in Contexts |-> <<>>]
  BY DEF Init, m
<1>8. TypeOK
  BY <1>2, <1>3, <1>6, <1>7 DEF TypeOK
<1>9. ASSUME NEW c \in Contexts
      PROVE  ContextOk(disp[c], stack[c], params[c], c \in known)
  <2>1. CASE c = Main
    <3>1. disp[c] = m /\ stack[c] = <<>> /\ params[c] = Default
      BY <1>7, <2>1
    <3>2. ContextOk(m, <<>>, Default, c \in known)
      BY <1>4 DEF ContextOk
    <3>3. QED
      BY <3>1, <3>2
  <2>2. CASE c # Main
    <3>1. /\ disp[c] = NoTable /\ stack[c] = <<>> /\ params[c] = Default
          /\ c \notin known
      BY <1>7, <2>2
    <3>2. ContextOk(NoTable, <<>>, Default, c \in known)
      BY <1>5, <3>1 DEF ContextOk
    <3>3. QED
      BY <3>1, <3>2
  <2>3. QED
    BY <2>1, <2>2
<1>10. QED
  BY <1>7, <1>8, <1>9 DEF IInv

LEMMA IInvStep == IInv /\ [Next]_vars => IInv'
<1> SUFFICES ASSUME IInv, [Next]_vars PROVE IInv'
  OBVIOUS
<1>1. CASE UNCHANGED vars
  BY <1>1 DEF vars, IInv, TypeOK
<1>2. ASSUME NEW c \in Contexts, StartThread(c)
      PROVE  IInv'
  BY <1>2, StartThreadStep
<1>3. ASSUME NEW c \in Contexts, NEW t \in Contexts, CreateTask(c, t)
      PROVE  IInv'
  BY <1>3, CreateTaskStep
<1>4. ASSUME NEW c \in Contexts, NEW p \in ParamSets, SelectParams(c, p)
      PROVE  IInv'
  BY <1>4, SelectParamsStep
<1>5. ASSUME NEW c \in Contexts, NEW p \in ParamSets, EnterWith(c, p)
      PROVE  IInv'
  BY <1>5, EnterWithStep
<1>6. ASSUME NEW c \in Contexts, ExitWith(c)
      PROVE  IInv'
  BY <1>6, ExitWithStep
<1>7. ASSUME NEW c \in Contexts, NEW d \in Dispatchers \cup Bases,
             CallMethod(c, d)
      PROVE  IInv'
  BY <1>7, CallMethodStep
<1>8. ASSUME NEW c \in Contexts, LeaveMethod(c)
      PROVE  IInv'
  BY <1>8, LeaveMethodStep
<1>9. QED
  BY <1>1, <1>2, <1>3, <1>4, <1>5, <1>6, <1>7, <1>8 DEF Next

\* The innermost call of a row is the one on top.
LEMMA TopLevel == IInv /\ ChainsApart => ParamsInEffect
<1> SUFFICES ASSUME IInv, ChainsApart, NEW c \in alive \cap known, ~InCall(c)
             PROVE  \A w \in OfChain(params[c]) : disp[c][Identity[w]] = w
  BY DEF ParamsInEffect, OfChain
<1>1. c \in Contexts
  BY DEF IInv, TypeOK
<1>2. \A w \in OfChain(params[c]) : Outside(disp[c], stack[c], w)
  BY <1>1 DEF IInv, ContextOk
<1>3. \A id : CallsIn(stack[c], id) = {}
  BY <1>1, OutsideMethods, WithoutCalls
<1>4. QED
  BY <1>2, <1>3 DEF Outside

\* The invariant of any number of threads and tasks, each with any nesting of
\* calls and with blocks (activate_class_dispatcher, the wrapper of methods,
\* select_chain_params and ChainParams).
THEOREM Invariance == Spec => []IInv
<1>1. QED
  BY IInvInit, IInvStep, PTL DEF Spec

\* The types of the state (ContextLocalClassDispatchers, ContextVarsCompat).
THEOREM TypeCorrect == Spec => []TypeOK
<1>1. IInv => TypeOK
  BY DEF IInv
<1>2. QED
  BY <1>1, Invariance, PTL

\* For any coins whose wallet and PSBT dispatchers nobody depends on, the
\* dispatchers outside of any method are those of the selected chain.
THEOREM ChainInEffect == ChainsApart => (Spec => []ParamsInEffect)
<1> SUFFICES ASSUME ChainsApart PROVE Spec => []ParamsInEffect
  OBVIOUS
<1>1. IInv => ParamsInEffect
  BY TopLevel
<1>2. QED
  BY <1>1, Invariance, PTL

-----------------------------------------------------------------------------
(* Tables whose dispatchers fit together.                                    *)

\* The identities that activating a dispatcher may change.
Ids(d) == IdentitiesOf(AllDepends(d) \cup {d})

\* A dispatcher changes all that one of the identity of its dependency does.
LEMMA IdsClosed ==
    ASSUME NEW d \in Dispatchers, NEW g \in Dispatchers, Identity[d] \in Ids(g)
    PROVE  Ids(d) \subseteq Ids(g)
<1>1. PICK e \in AllDepends(g) \cup {g} : Identity[e] = Identity[d]
  BY DEF Ids, IdentitiesOf
<1>2. e \in Dispatchers
  BY DependsTypes
<1>3. IdentitiesOf(AllDepends(d)) = IdentitiesOf(AllDepends(e))
  BY <1>1, <1>2, InheritanceAssumption
<1>4. AllDepends(e) \subseteq AllDepends(g)
  BY DependsAssumption
<1>5. IdentitiesOf(AllDepends(d)) \subseteq IdentitiesOf(AllDepends(g))
  BY <1>3, <1>4 DEF IdentitiesOf
<1>6. \A x : Ids(x) = IdentitiesOf(AllDepends(x)) \cup {Identity[x]}
  BY DEF Ids, IdentitiesOf
<1>7. QED
  BY <1>5, <1>6

LEMMA SameIds ==
    ASSUME NEW d \in Dispatchers, NEW x \in Dispatchers, Identity[d] = Identity[x]
    PROVE  Ids(d) = Ids(x)
<1>1. Identity[d] \in Ids(x) /\ Identity[x] \in Ids(d)
  BY DEF Ids, IdentitiesOf
<1>2. QED
  BY <1>1, IdsClosed

\* The rows that an activation changes, and those that it leaves alone.
LEMMA ActivateRows ==
    ASSUME NEW m \in Tables, NEW d \in Dispatchers
    PROVE  /\ m[Identity[d]] = d => Activate(m, d) = m
           /\ \A j \in Identities : j \notin Ids(d) => Activate(m, d)[j] = m[j]
           /\ m[Identity[d]] # d =>
                 \A e \in AllDepends(d) : Activate(m, d)[Identity[e]] = e
<1>1. m[Identity[d]] = d => Activate(m, d) = m
  BY DEF Activate
<1>2. ASSUME NEW j \in Identities, j \notin Ids(d)
      PROVE  Activate(m, d)[j] = m[j]
  BY <1>2, Activated DEF Ids, IdentitiesOf
<1>3. ASSUME m[Identity[d]] # d, NEW e \in AllDepends(d)
      PROVE  Activate(m, d)[Identity[e]] = e
  <2> DEFINE E == AllDepends(d) \cup {d}
             C == CHOOSE x \in E : Identity[x] = Identity[e]
  <2>1. e \in E /\ Identity[e] \in Identities
    BY DependsTypes, IdentityTypes
  <2>2. Activate(m, d)[Identity[e]] = C
    BY <1>3, <2>1 DEF Activate
  <2>3. C \in E /\ Identity[C] = Identity[e]
    BY <2>1
  <2> HIDE DEF C
  <2>4. C = e
    BY <2>1, <2>3, DependsAssumption
  <2>5. QED
    BY <2>2, <2>4
<1>4. QED
  BY <1>1, <1>2, <1>3

\* A table that has a dispatcher of every identity.
Full(m) == TableOk(m) /\ \A id \in Identities : m[id] # None

LEMMA FullRows ==
    ASSUME NEW m, Full(m)
    PROVE  /\ m \in Tables
           /\ \A id \in Identities : m[id] \in Dispatchers /\ Identity[m[id]] = id
BY DEF Full, TableOk, Tables

LEMMA FullActivate ==
    ASSUME NEW m, Full(m), NEW d \in Dispatchers
    PROVE  Full(Activate(m, d))
<1>1. m \in Tables /\ TableOk(Activate(m, d))
  BY ActivateOk, FullRows DEF Full
<1>2. ASSUME NEW id \in Identities PROVE Activate(m, d)[id] # None
  <2>1. \A e \in AllDepends(d) \cup {d} : e # None
    BY DependsTypes, IdentityTypes
  <2>2. QED
    BY <1>1, <2>1, Activated DEF Full
<1>3. QED
  BY <1>1, <1>2 DEF Full

\* The dispatchers of the table are active ones that fit together.
Fits(m) == TableOk(m) /\ FitTogether(m)

LEMMA FitsRows ==
    ASSUME NEW m, Fits(m)
    PROVE  /\ Full(m)
           /\ \A id \in Identities : Rivalled(m[id]) =>
                 \A e \in AllDepends(m[id]) : m[Identity[e]] = e
BY DEF Fits, Full, FitTogether

\* Selecting a chain keeps a table that fits together so.
LEMMA ActivateFits ==
    ASSUME CoinsShare, NEW m, Fits(m), NEW q \in ParamSets, Wallet[q] \in Dispatchers
    PROVE  Fits(Activate(m, Wallet[q]))
<1> DEFINE w == Wallet[q]
           M == Activate(m, w)
<1>1. Full(m) /\ w \in Dispatchers /\ m \in Tables
  BY FitsRows, FullRows
<1>2. Full(M)
  BY <1>1, FullActivate
<1> HIDE DEF w
<1>3. CASE m[Identity[w]] = w
  BY <1>1, <1>3, ActivateRows DEF w
<1>4. CASE m[Identity[w]] # w
  <2>1. /\ \A e \in AllDepends(w) : M[Identity[e]] = e
        /\ \A j \in Identities : j \notin Ids(w) => M[j] = m[j]
        /\ M[Identity[w]] = w
    BY <1>1, <1>4, ActivateRows, ActivatesIt
  <2> SUFFICES ASSUME NEW id \in Identities, Rivalled(M[id]),
                      NEW e \in AllDepends(M[id])
               PROVE  M[Identity[e]] = e
    BY <1>2 DEF Fits, FitTogether, Full, w
  <2> DEFINE x == M[id]
  <2>2. x \in Dispatchers /\ Identity[x] = id
    BY <1>2, FullRows
  <2>3. e \in Dispatchers /\ Identity[e] \in Identities
    BY <2>2, DependsTypes, IdentityTypes
  <2>4. CASE id \in Ids(w)
    <3>1. PICK y \in AllDepends(w) \cup {w} : Identity[y] = id
      BY <2>4 DEF Ids, IdentitiesOf
    <3>2. x = y
      BY <2>1, <3>1
    <3>3. e \in AllDepends(w)
      BY <1>1, <3>1, <3>2, DependsAssumption
    <3>4. QED
      BY <2>1, <3>3
  <2>5. CASE id \notin Ids(w)
    <3>1. x = m[id] /\ Identity[w] \in Ids(w)
      BY <2>1, <2>5 DEF Ids, IdentitiesOf
    <3>2. m[Identity[e]] = e
      BY <3>1, FitsRows
    <3>3. Identity[x] # Identity[Wallet[q]]
      BY <2>2, <2>5, <3>1 DEF w
    <3>4. Settled(Identity[e])
      BY <2>2, <3>3 DEF CoinsShare
    <3>5. M[Identity[e]] \in Dispatchers /\ Identity[M[Identity[e]]] = Identity[e]
      BY <1>2, <2>3, FullRows
    <3>6. QED
      BY <2>2, <3>4, <3>5 DEF Settled
  <2>6. QED
    BY <2>4, <2>5
<1>5. QED
  BY <1>3, <1>4

LEMMA SelectFits ==
    ASSUME CoinsShare, NEW m, Fits(m), NEW q \in ParamSets
    PROVE  Fits(Selected(m, q))
<1>1. /\ Wallet[q] \in Dispatchers \cup Bases
      /\ Psbt[q] \in Dispatchers \cup Bases
  BY GraphAssumption
<1>2. CASE Selectable(q)
  <2> DEFINE a == Activate(m, Wallet[q])
             x == Psbt[q]
  <2>1. Wallet[q] \in Dispatchers /\ x \in Dispatchers /\ ~Rivalled(x)
    BY <1>2 DEF Selectable, CoinsShare
  <2>2. Fits(a)
    BY <2>1, ActivateFits
  <2>3. Selected(m, q) = Activate(a, x)
    BY <1>2 DEF Selected, SelectTable
  <2> HIDE DEF a, x
  <2>4. Identity[x] \in Identities /\ Full(a) /\ a \in Tables
    BY <2>1, <2>2, IdentityTypes, FitsRows, FullRows
  <2>5. a[Identity[x]] \in Dispatchers /\ Identity[a[Identity[x]]] = Identity[x]
    BY <2>4, FullRows
  <2>6. a[Identity[x]] = x
    BY <2>1, <2>5 DEF Rivalled
  <2>7. QED
    BY <2>1, <2>2, <2>3, <2>4, <2>6, ActivateRows
<1>3. CASE ~Selectable(q) /\ Wallet[q] \in Bases
  BY <1>3 DEF Selected, FailedTable
<1>4. CASE ~Selectable(q) /\ Wallet[q] \notin Bases
  <2>1. Fits(Activate(m, Wallet[q]))
    BY <1>1, <1>4, ActivateFits
  <2>2. QED
    BY <1>4, <2>1 DEF Selected, FailedTable
<1>5. QED
  BY <1>2, <1>3, <1>4

\* Of the tables that fit together only one is that of a chain.
LEMMA SelectBack ==
    ASSUME CoinsShare, NEW q \in ParamSets, Selectable(q), NEW m, Fits(m),
           NEW b, Fits(b), b[Identity[Wallet[q]]] = Wallet[q]
    PROVE  Selected(m, q) = b
<1> DEFINE w == Wallet[q]
           M == Selected(m, q)
           none == <<>>
<1>1. w \in Dispatchers /\ Identity[w] \in Identities
  BY IdentityTypes DEF Selectable
<1>2. Fits(M)
  BY SelectFits
<1>3. M[Identity[w]] = w
  <2>1. none \in Seq(Frames) /\ OnlyWiths(none) /\ \A i \in DOMAIN none : FrameOk(none[i])
    BY DEF OnlyWiths
  <2> HIDE DEF none, M
  <2>2. ContextOk(Selected(m, q), none, q, Selectable(q))
    BY <2>1, SelectOk DEF Fits
  <2>3. Outside(M, none, w)
    BY <2>2 DEF ContextOk, CoinsShare, OfChain, M
  <2>4. CallsIn(none, Identity[w]) = {}
    BY <2>1, WithoutCalls
  <2>5. QED
    BY <2>3, <2>4 DEF Outside
<1> HIDE DEF M, w
<1>4. Full(M) /\ Full(b) /\ M \in Tables /\ b \in Tables
  BY <1>2, FitsRows, FullRows
<1>5. ASSUME NEW id \in Identities PROVE M[id] = b[id]
  <2>1. CASE id = Identity[w]
    BY <1>3, <2>1 DEF w
  <2>2. CASE Rivalled(w) /\ id \in IdentitiesOf(AllDepends(w))
    <3>1. PICK e \in AllDepends(w) : Identity[e] = id
      BY <2>2 DEF IdentitiesOf
    <3>2. M[Identity[e]] = e
      BY <1>1, <1>2, <1>3, <2>2, FitsRows
    <3>3. b[Identity[e]] = e
      BY <1>1, <2>2, FitsRows DEF w
    <3>4. QED
      BY <3>1, <3>2, <3>3
  <2>3. CASE \A x, y \in Dispatchers : Identity[x] = id /\ Identity[y] = id => x = y
    <3>1. /\ M[id] \in Dispatchers /\ Identity[M[id]] = id
          /\ b[id] \in Dispatchers /\ Identity[b[id]] = id
      BY <1>4, FullRows
    <3>2. QED
      BY <2>3, <3>1
  <2>4. QED
    BY <2>1, <2>2, <2>3 DEF CoinsShare, w
<1>6. QED
  BY <1>4, <1>5 DEF Tables, M

-----------------------------------------------------------------------------
(* What the calls on a stack s may have changed in a table B: the rows of    *)
(* identities that the class of a call, or what it depends on, belongs to.   *)

Moves(f, id) ==
    /\ f.kind = "call" /\ f.class \in Dispatchers /\ f.prev # f.class
    /\ id \in Ids(f.class)

\* No call from position a to position n of s has moved the identity.
Unmoved(s, a, n, id) == \A k \in DOMAIN s : a <= k /\ k <= n => ~Moves(s[k], id)

\* The rows that no call since position a has moved are those of B, and each
\* call whose identity was not moved before it will put back that of B.
Track(B, a, m, s) ==
    /\ Full(m)
    /\ \A id \in Identities : Unmoved(s, a, Len(s), id) => m[id] = B[id]
    /\ \A k \in DOMAIN s :
          /\ a <= k /\ s[k].kind = "call" /\ s[k].class \in Dispatchers
          /\ Unmoved(s, a, k - 1, Identity[s[k].class])
          => s[k].prev = B[Identity[s[k].class]]

\* The body of a method begins with the table as it is.
LEMMA TrackStart ==
    ASSUME NEW m, Full(m), NEW s \in Seq(Frames), NEW a \in Nat, a > Len(s)
    PROVE  Track(m, a, m, s)
<1>1. \A k \in DOMAIN s : ~(a <= k)
  OBVIOUS
<1>2. QED
  BY <1>1 DEF Track

\* Nothing has been moved since: the table is the one that it was.
LEMMA TrackEnd ==
    ASSUME NEW B, Full(B), NEW m, NEW s \in Seq(Frames), NEW a \in Nat, a > Len(s),
           Track(B, a, m, s)
    PROVE  m = B
<1>1. \A k \in DOMAIN s : ~(a <= k)
  OBVIOUS
<1>2. \A id \in Identities : m[id] = B[id]
  BY <1>1 DEF Track, Unmoved
<1>3. m \in Tables /\ B \in Tables
  BY FullRows DEF Track
<1>4. QED
  BY <1>2, <1>3 DEF Tables

\* One more frame on the stack.
LEMMA UnmovedBelow ==
    ASSUME NEW s \in Seq(Frames), NEW f, NEW a \in Nat
    PROVE  /\ Len(s) \in Nat /\ DOMAIN s = 1 .. Len(s)
           /\ Len(Append(s, f)) = Len(s) + 1
           /\ DOMAIN Append(s, f) = DOMAIN s \cup {Len(s) + 1}
           /\ Append(s, f)[Len(s) + 1] = f
           /\ \A k \in DOMAIN s : Append(s, f)[k] = s[k]
           /\ \A n \in Int : \A id : n <= Len(s) =>
                 (Unmoved(Append(s, f), a, n, id) <=> Unmoved(s, a, n, id))
           /\ \A id : a <= Len(s) + 1 =>
                 (Unmoved(Append(s, f), a, Len(s) + 1, id)
                  <=> Unmoved(s, a, Len(s), id) /\ ~Moves(f, id))
<1> DEFINE t == Append(s, f)
<1>1. /\ Len(s) \in Nat /\ DOMAIN s = 1 .. Len(s) /\ Len(t) = Len(s) + 1
      /\ DOMAIN t = DOMAIN s \cup {Len(s) + 1}
      /\ t[Len(s) + 1] = f
      /\ \A k \in DOMAIN s : t[k] = s[k]
  OBVIOUS
<1> HIDE DEF t
<1>2. ASSUME NEW n \in Int, NEW id, n <= Len(s)
      PROVE  Unmoved(t, a, n, id) <=> Unmoved(s, a, n, id)
  <2>1. ~(Len(s) + 1 <= n)
    BY <1>1, <1>2
  <2>2. QED
    BY <1>1, <2>1 DEF Unmoved
<1>3. ASSUME NEW id, a <= Len(s) + 1
      PROVE  Unmoved(t, a, Len(s) + 1, id)
             <=> Unmoved(s, a, Len(s), id) /\ ~Moves(f, id)
  <2>1. \A k \in DOMAIN s : k <= Len(s) /\ k <= Len(s) + 1
    BY <1>1
  <2>2. QED
    BY <1>1, <1>3, <2>1 DEF Unmoved
<1>4. QED
  BY <1>1, <1>2, <1>3 DEF t

\* What the wrapper of a method makes of the table.
Entered(m, d) == IF d \in Bases THEN m ELSE Activate(m, d)

LEMMA TrackCall ==
    ASSUME NEW B, NEW a \in Nat, NEW m, NEW s \in Seq(Frames), Track(B, a, m, s),
           a <= Len(s) + 1, NEW d \in Dispatchers \cup Bases,
           NEW f, f.kind = "call", f.class = d,
           f.prev = IF d \in Bases THEN None ELSE m[Identity[d]]
    PROVE  Track(B, a, Entered(m, d), Append(s, f))
<1> DEFINE t == Append(s, f)
           n == Len(s) + 1
           M == Entered(m, d)
<1>1. /\ Len(s) \in Nat /\ DOMAIN s = 1 .. Len(s) /\ Len(t) = n
      /\ DOMAIN t = DOMAIN s \cup {n} /\ t[n] = f
      /\ \A k \in DOMAIN s : t[k] = s[k]
      /\ \A i \in Int : \A id : i <= Len(s) =>
            (Unmoved(t, a, i, id) <=> Unmoved(s, a, i, id))
      /\ \A id : Unmoved(t, a, n, id) <=> Unmoved(s, a, Len(s), id) /\ ~Moves(f, id)
  BY UnmovedBelow
<1>2. /\ Full(m) /\ m \in Tables
      /\ \A id \in Identities : Unmoved(s, a, Len(s), id) => m[id] = B[id]
      /\ \A k \in DOMAIN s :
            /\ a <= k /\ s[k].kind = "call" /\ s[k].class \in Dispatchers
            /\ Unmoved(s, a, k - 1, Identity[s[k].class])
            => s[k].prev = B[Identity[s[k].class]]
  BY FullRows DEF Track
<1>3. Dispatchers \cap Bases = {}
  BY GraphAssumption
<1> HIDE DEF t
<1>4. Full(M)
  BY <1>2, FullActivate DEF Entered
<1>5. ASSUME NEW id \in Identities, Unmoved(t, a, n, id)
      PROVE  M[id] = B[id]
  <2>1. m[id] = B[id] /\ ~Moves(f, id)
    BY <1>1, <1>2, <1>5
  <2>2. CASE d \in Bases
    BY <2>1, <2>2 DEF Entered
  <2>3. CASE d \in Dispatchers /\ m[Identity[d]] = d
    BY <1>2, <1>3, <2>1, <2>3, ActivateRows DEF Entered
  <2>4. CASE d \in Dispatchers /\ m[Identity[d]] # d
    <3>1. id \notin Ids(d)
      BY <1>3, <2>1, <2>4 DEF Moves
    <3>2. QED
      BY <1>2, <1>3, <2>1, <2>4, <3>1, ActivateRows DEF Entered
  <2>5. QED
    BY <2>2, <2>3, <2>4
<1> HIDE DEF M
<1>6. ASSUME NEW k \in DOMAIN t, a <= k, t[k].kind = "call",
             t[k].class \in Dispatchers, Unmoved(t, a, k - 1, Identity[t[k].class])
      PROVE  t[k].prev = B[Identity[t[k].class]]
  <2>1. CASE k \in DOMAIN s
    <3>1. k - 1 \in Int /\ k - 1 <= Len(s)
      BY <1>1, <2>1
    <3>2. QED
      BY <1>1, <1>2, <1>6, <2>1, <3>1
  <2>2. CASE k = n
    <3>1. d \in Dispatchers /\ d \notin Bases /\ Identity[d] \in Identities
      BY <1>1, <1>3, <1>6, <2>2, IdentityTypes
    <3>2. n - 1 = Len(s)
      BY <1>1
    <3>3. Unmoved(s, a, Len(s), Identity[d])
      BY <1>1, <1>6, <2>2, <3>2
    <3>4. QED
      BY <1>1, <1>2, <2>2, <3>1, <3>3
  <2>3. QED
    BY <1>1, <2>1, <2>2
<1>7. QED
  BY <1>1, <1>4, <1>5, <1>6 DEF Track, M, t

\* The end of a call.  The row of a settled identity holds the class of the
\* innermost call; for the other identity there may be another dispatcher,
\* but what that depends on is settled.
LEMMA TrackLeave ==
    ASSUME CoinsShare, NEW B, Fits(B), NEW a \in Nat, NEW m, NEW s \in Seq(Frames),
           a <= Len(s) + 1, NEW f, FrameOk(f), f.kind = "call",
           Track(B, a, m, Append(s, f)),
           \A id \in Identities : Settled(id) => Nested(m, Append(s, f), id)
    PROVE  Track(B, a, AfterCall(m, f), s)
<1> DEFINE t == Append(s, f)
           n == Len(s) + 1
           M == AfterCall(m, f)
           d == f.class
           p == f.prev
           i == Identity[d]
<1>1. /\ Len(s) \in Nat /\ DOMAIN s = 1 .. Len(s) /\ Len(t) = n
      /\ DOMAIN t = DOMAIN s \cup {n} /\ t[n] = f
      /\ \A k \in DOMAIN s : t[k] = s[k]
      /\ \A j \in Int : \A id : j <= Len(s) =>
            (Unmoved(t, a, j, id) <=> Unmoved(s, a, j, id))
      /\ \A id : Unmoved(t, a, n, id) <=> Unmoved(s, a, Len(s), id) /\ ~Moves(f, id)
  BY UnmovedBelow
<1> HIDE DEF t
<1>2. /\ Full(m) /\ m \in Tables
      /\ \A id \in Identities : Unmoved(t, a, n, id) => m[id] = B[id]
      /\ \A k \in DOMAIN t :
            /\ a <= k /\ t[k].kind = "call" /\ t[k].class \in Dispatchers
            /\ Unmoved(t, a, k - 1, Identity[t[k].class])
            => t[k].prev = B[Identity[t[k].class]]
  BY <1>1, FullRows DEF Track, t
<1>3. /\ Dispatchers \cap Bases = {} /\ None \notin Dispatchers
      /\ d \in Dispatchers \cup Bases
      /\ d \in Dispatchers => /\ p \in Dispatchers \cup {None}
                              /\ p # None => Identity[p] = i
                              /\ i \in Identities
  BY GraphAssumption, IdentityTypes DEF FrameOk
<1>4. Full(B) /\ B \in Tables
  BY FitsRows, FullRows
<1>5. Full(M)
  BY <1>2, <1>3, FullActivate DEF AfterCall
<1>6. \A k \in DOMAIN s :
         /\ a <= k /\ s[k].kind = "call" /\ s[k].class \in Dispatchers
         /\ Unmoved(s, a, k - 1, Identity[s[k].class])
         => s[k].prev = B[Identity[s[k].class]]
  <2> TAKE k \in DOMAIN s
  <2>1. k - 1 \in Int /\ k - 1 <= Len(s) /\ k \in DOMAIN t /\ t[k] = s[k]
    BY <1>1
  <2>2. QED
    BY <1>1, <1>2, <2>1
<1>7. ASSUME NEW id \in Identities, Unmoved(s, a, Len(s), id)
      PROVE  M[id] = B[id]
  <2>1. CASE d \in Bases
    <3>1. ~Moves(f, id)
      BY <1>3, <2>1 DEF Moves
    <3>2. QED
      BY <1>1, <1>2, <1>7, <2>1, <3>1 DEF AfterCall
  <2>2. CASE d \in Dispatchers /\ id \notin Ids(d)
    <3>1. m[id] = B[id]
      BY <1>1, <1>2, <1>7, <2>2 DEF Moves
    <3>2. CASE p = None
      BY <3>1, <3>2 DEF AfterCall
    <3>3. CASE p # None
      <4>1. p \in Dispatchers /\ id \notin Ids(p) /\ d \notin Bases
        BY <1>3, <2>2, <3>3, SameIds
      <4>2. QED
        BY <1>2, <3>1, <3>3, <4>1, ActivateRows DEF AfterCall
    <3>4. QED
      BY <3>2, <3>3
  <2>3. CASE d \in Dispatchers /\ id \in Ids(d)
    <3>1. ASSUME NEW k \in DOMAIN s, a <= k
          PROVE  ~Moves(s[k], i)
      <4>1. ~Moves(s[k], id)
        BY <1>1, <1>7, <3>1 DEF Unmoved
      <4>2. s[k].class \in Dispatchers /\ i \in Ids(s[k].class)
            => id \in Ids(s[k].class)
        BY <2>3, IdsClosed
      <4>3. QED
        BY <4>1, <4>2 DEF Moves
    <3>2. Unmoved(s, a, Len(s), i)
      BY <3>1 DEF Unmoved
    <3>3. p = B[i]
      <4>1. n - 1 = Len(s) /\ n \in DOMAIN t /\ Len(s) \in Int /\ Len(s) <= Len(s)
        BY <1>1
      <4>2. Unmoved(t, a, n - 1, i)
        BY <1>1, <3>2, <4>1
      <4>3. QED
        BY <1>1, <1>2, <2>3, <4>1, <4>2
    <3>4. p \in Dispatchers /\ Identity[p] = i /\ p # None /\ d \notin Bases
      BY <1>3, <1>4, <2>3, <3>3, FullRows
    <3>5. M = Activate(m, p)
      BY <3>4 DEF AfterCall
    <3>6. CASE p = d
      <4>1. \A x : ~Moves(f, x)
        BY <3>6 DEF Moves
      <4>2. m[id] = B[id] /\ m[i] = B[i]
        BY <1>1, <1>2, <1>3, <1>7, <2>3, <3>2, <4>1
      <4>3. QED
        BY <1>2, <3>3, <3>4, <3>5, <4>2, ActivateRows
    <3>7. CASE p # d /\ id = i
      BY <1>2, <3>3, <3>4, <3>5, <3>7, ActivatesIt
    <3>8. CASE p # d /\ id # i
      <4>1. id \in Ids(p)
        BY <2>3, <3>4, SameIds
      <4>2. PICK e \in AllDepends(p) : Identity[e] = id
        BY <3>4, <3>8, <4>1 DEF Ids, IdentitiesOf
      <4>3. Rivalled(p)
        BY <2>3, <3>4, <3>8 DEF Rivalled
      <4>4. B[id] = e
        BY <1>3, <2>3, <3>3, <4>2, <4>3, FitsRows
      <4>5. CASE m[i] # p
        BY <1>2, <3>4, <3>5, <4>2, <4>4, <4>5, ActivateRows
      <4>6. CASE m[i] = p
        <5>1. M = m
          BY <1>2, <3>4, <3>5, <4>6, ActivateRows
        <5>2. ~Settled(i)
          <6> SUFFICES ASSUME Settled(i) PROVE FALSE
            OBVIOUS
          <6>1. Nested(m, t, i)
            BY <1>3, <2>3 DEF t
          <6>2. n \in CallsIn(t, i) /\ \A j \in CallsIn(t, i) : j <= n
            BY <1>1, <2>3 DEF CallsIn, IsCall
          <6>3. m[i] = d
            BY <1>1, <6>1, <6>2 DEF Nested
          <6>4. QED
            BY <3>8, <4>6, <6>3
        <5>3. Settled(id)
          BY <1>3, <2>3, <3>8, <5>2 DEF CoinsShare
        <5>4. m[id] \in Dispatchers /\ Identity[m[id]] = id
          BY <1>2, FullRows
        <5>5. m[id] = e
          BY <3>4, <4>2, <5>3, <5>4 DEF Settled
        <5>6. QED
          BY <4>4, <5>1, <5>5
      <4>7. QED
        BY <4>5, <4>6
    <3>9. QED
      BY <3>6, <3>7, <3>8
  <2>4. QED
    BY <1>3, <2>1, <2>2, <2>3
<1> HIDE DEF M
<1>8. QED
  BY <1>5, <1>6, <1>7 DEF Track, M

-----------------------------------------------------------------------------
(* What the frames of a context remember.                                    *)

FirstCall(s, i) == s[i].kind = "call" /\ \A j \in 1 .. i - 1 : s[j].kind # "call"

\* The table outside of methods fits together: the present one, or the one
\* before the outermost call.
RestFits(m, s) ==
    /\ OnlyWiths(s) => FitTogether(m)
    /\ \A i \in DOMAIN s : FirstCall(s, i) => FitTogether(s[i].before[1])

\* Parameters do not change in a method; tables that fitted together, before it
\* and when its body began, are there but for what the calls since have moved.
CallTrack(m, s, p, k, i) ==
    LET b == s[i].before
        M == Entered(b[1], s[i].class)
    IN  /\ b[2] = p /\ (b[3] <=> k)
        /\ FitTogether(b[1]) => Track(b[1], i, m, s)
        /\ FitTogether(M) => Track(M, i + 1, m, s)

\* A with block will select the chain again that it found selected.
WithTrack(m, s, i) ==
    LET b == s[i].before
        q == s[i].prev
    IN  /\ b[3] => b[2] = q /\ Selectable(q) /\ b[1][Identity[Wallet[q]]] = Wallet[q]
        /\ FitTogether(b[1]) => RestFits(m, s)

Tracked(m, s, p, k) ==
    \A i \in DOMAIN s :
        /\ TableOk(s[i].before[1])
        /\ s[i].kind = "call" => CallTrack(m, s, p, k, i)
        /\ s[i].kind = "with" => WithTrack(m, s, i)

TInv == \A c \in Contexts : Tracked(disp[c], stack[c], params[c], c \in known)

LEMMA EffectParts ==
    ASSUME NEW c
    PROVE  /\ InEffect(c)[1] = disp[c] /\ InEffect(c)[2] = params[c]
           /\ InEffect(c)[3] <=> c \in known
<1> DEFINE k == c \in known
<1>1. InEffect(c) = <<disp[c], params[c], k>>
  BY DEF InEffect
<1>2. \A x, y, z : <<x, y, z>>[1] = x /\ <<x, y, z>>[2] = y /\ <<x, y, z>>[3] = z
  OBVIOUS
<1> HIDE DEF k
<1>3. InEffect(c)[1] = disp[c] /\ InEffect(c)[2] = params[c] /\ InEffect(c)[3] = k
  BY <1>1, <1>2
<1>4. QED
  BY <1>3, Zenon DEF k

\* A step of context c.
LEMMA OneTracked ==
    ASSUME IInv, TInv, NEW c \in Contexts, NEW m, NEW s, NEW p,
           disp' = [disp EXCEPT ![c] = m], stack' = [stack EXCEPT ![c] = s],
           params' = [params EXCEPT ![c] = p],
           known' \ {c} = known \ {c}, Tracked(m, s, p, c \in known')
    PROVE  TInv'
<1>1. /\ disp'[c] = m /\ params'[c] = p /\ stack'[c] = s
      /\ \A e \in Contexts \ {c} :
            /\ disp'[e] = disp[e] /\ params'[e] = params[e]
            /\ stack'[e] = stack[e] /\ (e \in known' <=> e \in known)
  BY DEF IInv, TypeOK
<1>2. Tracked(disp'[c], stack'[c], params'[c], c \in known')
  BY <1>1
<1>3. ASSUME NEW e \in Contexts \ {c}
      PROVE  Tracked(disp'[e], stack'[e], params'[e], e \in known')
  <2>1. Tracked(disp[e], stack[e], params[e], e \in known)
    BY DEF TInv
  <2>2. \A i : CallTrack(disp[e], stack[e], params[e], e \in known, i)
               => CallTrack(disp[e], stack[e], params[e], e \in known', i)
    BY <1>1 DEF CallTrack
  <2>3. Tracked(disp[e], stack[e], params[e], e \in known')
    BY <2>1, <2>2 DEF Tracked
  <2>4. QED
    BY <1>1, <2>3
<1>4. QED
  BY <1>2, <1>3 DEF TInv

\* With blocks: what is asked of the table does not depend on the stack.
LEMMA WithsRest ==
    ASSUME NEW m, NEW s, OnlyWiths(s)
    PROVE  RestFits(m, s) <=> FitTogether(m)
BY DEF RestFits, OnlyWiths, FirstCall

\* A table that fits together as long as the one before it did.
LEMMA WithsTracked ==
    ASSUME NEW m, NEW s, OnlyWiths(s), NEW p, NEW k, Tracked(m, s, p, k),
           NEW M, FitTogether(m) => FitTogether(M), NEW q, NEW l
    PROVE  Tracked(M, s, q, l)
<1>1. RestFits(m, s) => RestFits(M, s)
  BY WithsRest
<1>2. QED
  BY <1>1 DEF Tracked, WithTrack, OnlyWiths

\* The frames below the topmost one.
LEMMA WithsBelow ==
    ASSUME NEW m, NEW s \in Seq(Frames), OnlyWiths(s), NEW t, OnlyWiths(t),
           DOMAIN t \subseteq DOMAIN s, \A i \in DOMAIN t : t[i] = s[i],
           NEW p, NEW k, Tracked(m, s, p, k)
    PROVE  Tracked(m, t, p, k)
<1>1. RestFits(m, s) => RestFits(m, t)
  BY WithsRest
<1>2. QED
  BY <1>1 DEF Tracked, WithTrack, OnlyWiths

LEMMA SelectParamsTracked ==
    ASSUME CoinsShare, IInv, TInv, NEW c \in Contexts, NEW q \in ParamSets,
           SelectParams(c, q)
    PROVE  TInv'
<1>1. ~InCall(c) /\ Select(c, q) /\ stack' = stack
  BY DEF SelectParams
<1>2. /\ params' = [params EXCEPT ![c] = q]
      /\ disp' = [disp EXCEPT ![c] = Selected(disp[c], q)]
      /\ known' \ {c} = known \ {c}
  BY <1>1, SelectEffect
<1>3. stack' = [stack EXCEPT ![c] = stack[c]]
  BY <1>1 DEF IInv, TypeOK
<1>4. OnlyWiths(stack[c]) /\ TableOk(disp[c])
  BY <1>1, OutsideMethods
<1>5. FitTogether(disp[c]) => FitTogether(Selected(disp[c], q))
  BY <1>4, SelectFits DEF Fits
<1>6. Tracked(disp[c], stack[c], params[c], c \in known)
  BY DEF TInv
<1>7. Tracked(Selected(disp[c], q), stack[c], q, c \in known')
  BY <1>4, <1>5, <1>6, WithsTracked
<1>8. QED
  BY <1>2, <1>3, <1>7, OneTracked

LEMMA EnterWithTracked ==
    ASSUME CoinsShare, IInv, TInv, NEW c \in Contexts, NEW q \in ParamSets,
           EnterWith(c, q)
    PROVE  TInv'
<1> DEFINE f == WithFrame(params[c], c)
           u == stack[c]
           s == IF Selectable(q) THEN Append(u, f) ELSE u
           m == disp[c]
           M == Selected(m, q)
<1>1. /\ ~InCall(c) /\ Select(c, q) /\ stack' = [stack EXCEPT ![c] = s] /\ c \in alive
  BY DEF EnterWith, Push, IInv, TypeOK
<1>2. /\ params' = [params EXCEPT ![c] = q] /\ disp' = [disp EXCEPT ![c] = M]
      /\ known' \ {c} = known \ {c}
  BY <1>1, SelectEffect
<1>3. /\ f \in Frames /\ f.kind = "with" /\ f.prev = params[c]
      /\ f.before[1] = m /\ f.before[2] = params[c] /\ (f.before[3] <=> c \in known)
  BY WithFrameOk, EffectParts DEF WithFrame
<1>4. OnlyWiths(u) /\ u \in Seq(Frames) /\ TableOk(m)
      /\ ContextOk(m, u, params[c], c \in known)
  BY <1>1, OutsideMethods
<1>5. FitTogether(m) => FitTogether(M)
  BY <1>4, SelectFits DEF Fits
<1>6. Tracked(m, u, params[c], c \in known)
  BY DEF TInv
<1>7. ASSUME c \in known
      PROVE  /\ Selectable(params[c])
             /\ m[Identity[Wallet[params[c]]]] = Wallet[params[c]]
  <2>1. ParamsInEffect
    BY TopLevel DEF CoinsShare
  <2>2. QED
    BY <1>1, <1>4, <1>7, <2>1 DEF ParamsInEffect, ContextOk, CoinsShare
<1> HIDE DEF f, m, M, u
<1>8. OnlyWiths(s) /\ (Selectable(q) => /\ DOMAIN s = DOMAIN u \cup {Len(u) + 1}
                                        /\ s[Len(u) + 1] = f
                                        /\ \A i \in DOMAIN u : s[i] = u[i])
  BY <1>3, <1>4 DEF OnlyWiths
<1> HIDE DEF s
<1>9. RestFits(M, s) <=> FitTogether(M)
  BY <1>8, WithsRest
<1>10. \A i \in DOMAIN u : /\ TableOk(u[i].before[1])
                           /\ WithTrack(m, u, i)
  BY <1>4, <1>6 DEF Tracked, OnlyWiths
<1>11. RestFits(m, u) <=> FitTogether(m)
  BY <1>4, WithsRest
<1>12. \A i \in DOMAIN s : TableOk(s[i].before[1]) /\ WithTrack(M, s, i)
  <2>1. CASE Selectable(q)
    <3>1. \A i \in DOMAIN u : TableOk(s[i].before[1]) /\ WithTrack(M, s, i)
      BY <1>5, <1>8, <1>9, <1>10, <1>11, <2>1 DEF WithTrack
    <3>2. TableOk(f.before[1]) /\ (FitTogether(f.before[1]) => RestFits(M, s))
      BY <1>3, <1>4, <1>5, <1>9
    <3>3. f.before[3] => /\ f.before[2] = f.prev /\ Selectable(f.prev)
                         /\ f.before[1][Identity[Wallet[f.prev]]] = Wallet[f.prev]
      BY <1>3, <1>7
    <3>4. WithTrack(M, s, Len(u) + 1)
      BY <1>8, <2>1, <3>2, <3>3 DEF WithTrack
    <3>5. QED
      BY <1>8, <2>1, <3>1, <3>2, <3>4
  <2>2. CASE ~Selectable(q)
    <3>1. s = u
      BY <2>2 DEF s
    <3>2. QED
      BY <1>5, <1>9, <1>10, <1>11, <3>1 DEF WithTrack
  <2>3. QED
    BY <2>1, <2>2
<1>13. Tracked(M, s, q, c \in known')
  BY <1>8, <1>12 DEF Tracked, OnlyWiths
<1>14. QED
  BY <1>1, <1>2, <1>13, OneTracked

\* What ExitWith does to its context.
LEMMA ExitEffects ==
    ASSUME IInv, NEW c \in Contexts, ExitWith(c)
    PROVE  LET f == Last(stack[c])
               q == f.prev
               s == Front(stack[c])
           IN  /\ params' = [params EXCEPT ![c] = q] /\ q \in ParamSets
               /\ disp' = [disp EXCEPT ![c] = Selected(disp[c], q)]
               /\ known' \ {c} = known \ {c} /\ (c \in known' <=> Selectable(q))
               /\ stack' = [stack EXCEPT ![c] = s]
               /\ stack[c] \in Seq(Frames) /\ OnlyWiths(stack[c]) /\ OnlyWiths(s)
               /\ Len(stack[c]) \in DOMAIN stack[c] /\ f = stack[c][Len(stack[c])]
               /\ f.kind = "with" /\ f \in Frames
               /\ \A i \in DOMAIN s : i \in DOMAIN stack[c] /\ s[i] = stack[c][i]
<1> DEFINE t == stack[c]
           s == Front(t)
           f == Last(t)
           q == f.prev
<1>1. /\ t # <<>> /\ f.kind = "with" /\ Select(c, q)
      /\ stack' = [stack EXCEPT ![c] = s]
  BY DEF ExitWith, Pop, IInv, TypeOK
<1>2. /\ t \in Seq(Frames) /\ \A i \in DOMAIN t : FrameOk(t[i])
      /\ \A i, j \in DOMAIN t : i < j /\ t[j].kind = "with" => t[i].kind = "with"
  BY DEF IInv, ContextOk
<1> HIDE DEF t
<1>3. /\ Len(t) \in DOMAIN t /\ f = t[Len(t)] /\ f \in Frames
      /\ \A i \in DOMAIN s : i \in DOMAIN t /\ i < Len(t) /\ s[i] = t[i]
  BY <1>1, <1>2, Topmost
<1>4. q \in ParamSets
  BY <1>1, <1>2, <1>3 DEF FrameOk
<1> HIDE DEF f, s
<1>5. \A i \in DOMAIN t : t[i].kind = "with"
  <2> TAKE i \in DOMAIN t
  <2>1. i < Len(t) \/ i = Len(t)
    BY <1>2
  <2>2. QED
    BY <1>1, <1>2, <1>3, <2>1
<1> HIDE DEF q
<1>6. /\ params' = [params EXCEPT ![c] = q]
      /\ disp' = [disp EXCEPT ![c] = Selected(disp[c], q)]
      /\ known' \ {c} = known \ {c} /\ (c \in known' <=> Selectable(q))
  BY <1>1, SelectEffect
<1>7. QED
  BY <1>1, <1>2, <1>3, <1>4, <1>5, <1>6 DEF OnlyWiths, f, s, q, t

LEMMA ExitWithTracked ==
    ASSUME CoinsShare, IInv, TInv, NEW c \in Contexts, ExitWith(c)
    PROVE  TInv'
<1> DEFINE q == Last(stack[c]).prev
           t == stack[c]
           s == Front(t)
           m == disp[c]
           M == Selected(m, q)
<1>1. /\ params' = [params EXCEPT ![c] = q] /\ disp' = [disp EXCEPT ![c] = M]
      /\ known' \ {c} = known \ {c} /\ stack' = [stack EXCEPT ![c] = s]
      /\ t \in Seq(Frames) /\ OnlyWiths(t) /\ OnlyWiths(s) /\ q \in ParamSets
      /\ DOMAIN s \subseteq DOMAIN t /\ \A i \in DOMAIN s : s[i] = t[i]
  BY ExitEffects
<1>2. Tracked(m, t, params[c], c \in known) /\ TableOk(m)
  BY DEF TInv, IInv, ContextOk
<1> HIDE DEF t, s, q
<1>3. Tracked(m, s, params[c], c \in known)
  BY <1>1, <1>2, WithsBelow
<1>4. FitTogether(m) => FitTogether(M)
  BY <1>1, <1>2, SelectFits DEF Fits
<1> HIDE DEF m, M
<1>5. Tracked(M, s, q, c \in known')
  BY <1>1, <1>3, <1>4, WithsTracked
<1>6. QED
  BY <1>1, <1>5, OneTracked

LEMMA CreateTaskTracked ==
    ASSUME IInv, TInv, NEW c \in Contexts, NEW t \in Contexts, CreateTask(c, t)
    PROVE  TInv'
<1>1. /\ t \notin alive
      /\ disp' = [disp EXCEPT ![t] = disp[c]]
      /\ params' = [params EXCEPT ![t] = params[c]]
      /\ known' = IF c \in known THEN known \cup {t} ELSE known
      /\ stack' = stack
  BY DEF CreateTask
<1> DEFINE e == <<>>
<1>2. stack' = [stack EXCEPT ![t] = e] /\ DOMAIN e = {}
  BY <1>1 DEF IInv, TypeOK
<1> HIDE DEF e
<1>3. Tracked(disp[c], e, params[c], t \in known')
  BY <1>2 DEF Tracked
<1>4. known' \ {t} = known \ {t}
  BY <1>1
<1>5. QED
  BY <1>1, <1>2, <1>3, <1>4, OneTracked

\* What CallMethod does to its context.
LEMMA CallEffects ==
    ASSUME IInv, NEW c \in Contexts, NEW d \in Dispatchers \cup Bases,
           CallMethod(c, d)
    PROVE  \E f \in Frames :
               /\ f.kind = "call" /\ f.class = d
               /\ f.prev = IF d \in Bases THEN None ELSE disp[c][Identity[d]]
               /\ f.before[1] = disp[c] /\ f.before[2] = params[c]
               /\ (f.before[3] <=> c \in known)
               /\ disp' = [disp EXCEPT ![c] = Entered(disp[c], d)]
               /\ stack' = [stack EXCEPT ![c] = Append(stack[c], f)]
               /\ params' = params /\ known' = known
<1> DEFINE prev == IF d \in Bases THEN None ELSE disp[c][Identity[d]]
           f == CallFrame(d, prev, c)
<1>1. f \in Frames /\ f.kind = "call" /\ f.class = d /\ f.prev = prev
  BY CallFrameOk
<1>2. f.before[1] = disp[c] /\ f.before[2] = params[c] /\ (f.before[3] <=> c \in known)
  BY EffectParts DEF CallFrame
<1>3. /\ disp' = [disp EXCEPT ![c] = Entered(disp[c], d)]
      /\ stack' = [stack EXCEPT ![c] = Append(stack[c], f)]
      /\ params' = params /\ known' = known
  BY DEF CallMethod, Push, IInv, TypeOK, Entered
<1> HIDE DEF f
<1>4. QED
  BY <1>1, <1>2, <1>3

\* Going into a method.
LEMMA CallRest ==
    ASSUME NEW m, NEW s \in Seq(Frames), RestFits(m, s), NEW M,
           NEW f, f.kind = "call", f.before[1] = m
    PROVE  RestFits(M, Append(s, f))
<1> DEFINE t == Append(s, f)
<1>1. /\ Len(s) \in Nat /\ DOMAIN s = 1 .. Len(s) /\ DOMAIN t = 1 .. Len(s) + 1
      /\ t[Len(s) + 1] = f /\ \A i \in DOMAIN s : t[i] = s[i] /\ s[i] \in Frames
  OBVIOUS
<1>2. \A i \in DOMAIN s : s[i].kind \in {"call", "with"}
  BY <1>1 DEF Frames
<1> HIDE DEF t
<1>3. ~OnlyWiths(t)
  BY <1>1 DEF OnlyWiths
<1>4. ASSUME NEW i \in DOMAIN t, FirstCall(t, i)
      PROVE  FitTogether(t[i].before[1])
  <2>1. CASE i \in DOMAIN s
    <3>1. FirstCall(s, i) /\ t[i] = s[i]
      BY <1>1, <1>4, <2>1 DEF FirstCall
    <3>2. QED
      BY <2>1, <3>1 DEF RestFits
  <2>2. CASE i = Len(s) + 1
    <3>1. OnlyWiths(s)
      BY <1>2, <1>1, <1>4, <2>2 DEF FirstCall, OnlyWiths
    <3>2. QED
      BY <1>1, <2>2, <3>1 DEF RestFits
  <2>3. QED
    BY <1>1, <2>1, <2>2
<1>5. QED
  BY <1>3, <1>4 DEF RestFits, t

LEMMA CallMethodTracked ==
    ASSUME IInv, TInv, NEW c \in Contexts, NEW d \in Dispatchers \cup Bases,
           CallMethod(c, d)
    PROVE  TInv'
<1> DEFINE m == disp[c]
           s == stack[c]
           p == params[c]
           k == c \in known
           M == Entered(m, d)
<1>1. PICK f \in Frames :
         /\ f.kind = "call" /\ f.class = d
         /\ f.prev = IF d \in Bases THEN None ELSE m[Identity[d]]
         /\ f.before[1] = m /\ f.before[2] = p /\ (f.before[3] <=> k)
         /\ disp' = [disp EXCEPT ![c] = M]
         /\ stack' = [stack EXCEPT ![c] = Append(s, f)]
         /\ params' = params /\ known' = known
  BY CallEffects
<1> DEFINE t == Append(s, f)
           n == Len(s) + 1
<1>2. /\ s \in Seq(Frames) /\ TableOk(m) /\ Tracked(m, s, p, k)
  BY DEF IInv, TypeOK, ContextOk, TInv
<1>3. params' = [params EXCEPT ![c] = p]
  BY <1>1 DEF IInv, TypeOK
<1> HIDE DEF m, s, p, k
<1>4. /\ Len(s) \in Nat /\ DOMAIN s = 1 .. Len(s) /\ DOMAIN t = 1 .. n
      /\ n \in Nat /\ t \in Seq(Frames) /\ Len(t) = n
      /\ t[n] = f /\ \A i \in DOMAIN s : t[i] = s[i]
  BY <1>2
<1> HIDE DEF t, M
<1>5. ASSUME NEW i \in DOMAIN s
      PROVE  /\ TableOk(t[i].before[1])
             /\ t[i].kind = "call" => CallTrack(M, t, p, k, i)
             /\ t[i].kind = "with" => WithTrack(M, t, i)
  <2>1. /\ t[i] = s[i] /\ TableOk(s[i].before[1])
        /\ i \in Nat /\ i + 1 \in Nat /\ i <= n /\ i + 1 <= n
    BY <1>2, <1>4 DEF Tracked
  <2>2. ASSUME NEW B, NEW a \in Nat, a <= n, Track(B, a, m, s)
        PROVE  Track(B, a, M, t)
    BY <1>1, <1>2, <2>2, TrackCall DEF M, t
  <2>3. ASSUME s[i].kind = "call"
        PROVE  CallTrack(M, t, p, k, i)
    <3>1. CallTrack(m, s, p, k, i)
      BY <1>2, <2>3 DEF Tracked
    <3>2. QED
      BY <2>1, <2>2, <3>1 DEF CallTrack
  <2>4. ASSUME s[i].kind = "with"
        PROVE  WithTrack(M, t, i)
    <3>1. WithTrack(m, s, i)
      BY <1>2, <2>4 DEF Tracked
    <3>2. RestFits(m, s) => RestFits(M, t)
      BY <1>1, <1>2, CallRest DEF t
    <3>3. QED
      BY <2>1, <3>1, <3>2 DEF WithTrack
  <2>5. QED
    BY <2>1, <2>3, <2>4
<1>6. CallTrack(M, t, p, k, n)
  <2>1. ASSUME FitTogether(m) PROVE Track(m, n, M, t)
    <3>1. Full(m)
      BY <1>2, <2>1, FitsRows DEF Fits
    <3>2. Track(m, n, m, s)
      BY <1>2, <1>4, <3>1, TrackStart
    <3>3. QED
      BY <1>1, <1>2, <1>4, <3>2, TrackCall DEF M, t
  <2>2. ASSUME FitTogether(M) PROVE Track(M, n + 1, M, t)
    <3>1. TableOk(M)
      BY <1>2, ActivateOk, GraphAssumption DEF M, Entered
    <3>2. Full(M)
      BY <2>2, <3>1, FitsRows DEF Fits
    <3>3. QED
      BY <1>4, <3>2, TrackStart
  <2>3. Entered(f.before[1], f.class) = M
    BY <1>1 DEF M
  <2>4. QED
    BY <1>1, <1>4, <2>1, <2>2, <2>3 DEF CallTrack
<1>7. Tracked(M, t, p, k)
  <2>1. \A i \in DOMAIN t : i \in DOMAIN s \/ i = n
    BY <1>4
  <2>2. f.kind # "with"
    BY <1>1
  <2>3. QED
    BY <1>1, <1>2, <1>4, <1>5, <1>6, <2>1, <2>2 DEF Tracked
<1>8. Tracked(M, t, p, c \in known')
  BY <1>1, <1>7 DEF k
<1>9. QED
  BY <1>1, <1>3, <1>8, OneTracked DEF t

\* What LeaveMethod does to its context.
LEMMA LeaveEffects ==
    ASSUME IInv, NEW c \in Contexts, LeaveMethod(c)
    PROVE  LET f == Last(stack[c])
               s == Front(stack[c])
           IN  /\ disp' = [disp EXCEPT ![c] = AfterCall(disp[c], f)]
               /\ stack' = [stack EXCEPT ![c] = s]
               /\ params' = params /\ known' = known
               /\ s \in Seq(Frames) /\ stack[c] = Append(s, f)
               /\ f.kind = "call" /\ FrameOk(f) /\ f \in Frames
<1> DEFINE t == stack[c]
           s == Front(t)
           f == Last(t)
<1>1. /\ t # <<>> /\ f.kind = "call"
      /\ stack' = [stack EXCEPT ![c] = s]
      /\ UNCHANGED <<alive, params, known>>
  BY DEF LeaveMethod, Pop, IInv, TypeOK
<1>2. disp' = [disp EXCEPT ![c] = AfterCall(disp[c], f)]
  BY <1>1 DEF LeaveMethod, AfterCall, IInv, TypeOK
<1>3. t \in Seq(Frames) /\ \A i \in DOMAIN t : FrameOk(t[i])
  BY DEF IInv, TypeOK, ContextOk
<1> HIDE DEF t
<1>4. s \in Seq(Frames) /\ t = Append(s, f) /\ Len(t) \in DOMAIN t /\ f = t[Len(t)]
  BY <1>1, <1>3, Topmost
<1>5. FrameOk(f) /\ f \in Frames
  BY <1>3, <1>4 DEF FrameOk
<1>6. QED
  BY <1>1, <1>2, <1>4, <1>5 DEF t

\* A context in which the frame f of a call is about to be left.
Leaving(m, s, f, p, k) ==
    /\ s \in Seq(Frames) /\ FrameOk(f) /\ f \in Frames /\ f.kind = "call"
    /\ \A i \in DOMAIN s : FrameOk(s[i])
    /\ \A id \in Identities : Settled(id) => Nested(m, Append(s, f), id)
    /\ Tracked(m, Append(s, f), p, k)

LEMMA AppendParts ==
    ASSUME NEW s \in Seq(Frames), NEW f \in Frames
    PROVE  /\ Len(s) \in Nat /\ DOMAIN s = 1 .. Len(s)
           /\ DOMAIN Append(s, f) = 1 .. Len(s) + 1
           /\ Append(s, f)[Len(s) + 1] = f
           /\ \A i \in DOMAIN s : Append(s, f)[i] = s[i] /\ s[i] \in Frames
OBVIOUS

LEMMA IsLeaving ==
    ASSUME IInv, TInv, NEW c \in Contexts, LeaveMethod(c)
    PROVE  Leaving(disp[c], Front(stack[c]), Last(stack[c]), params[c], c \in known)
<1>1. /\ Tracked(disp[c], stack[c], params[c], c \in known)
      /\ \A i \in DOMAIN stack[c] : FrameOk(stack[c][i])
      /\ \A id \in Identities : Settled(id) => Nested(disp[c], stack[c], id)
  BY DEF IInv, ContextOk, TInv
<1> DEFINE s == Front(stack[c])
           f == Last(stack[c])
<1>2. s \in Seq(Frames) /\ stack[c] = Append(s, f) /\ f \in Frames
      /\ f.kind = "call" /\ FrameOk(f)
  BY LeaveEffects
<1> HIDE DEF s, f
<1>3. \A i \in DOMAIN s : FrameOk(s[i])
  BY <1>1, <1>2, AppendParts
<1>4. Leaving(disp[c], s, f, params[c], c \in known)
  BY <1>1, <1>2, <1>3 DEF Leaving
<1>5. QED
  BY <1>4 DEF s, f

\* The table comes back that fitted together before the call.
LEMMA LeaveBack ==
    ASSUME CoinsShare, NEW m, NEW s, NEW f, NEW p, NEW k, Leaving(m, s, f, p, k),
           FitTogether(f.before[1])
    PROVE  AfterCall(m, f) = f.before[1] /\ f.before[2] = p /\ (f.before[3] <=> k)
<1> DEFINE t == Append(s, f)
           n == Len(s) + 1
           b == f.before[1]
           M == AfterCall(m, f)
<1>1. /\ s \in Seq(Frames) /\ FrameOk(f) /\ f \in Frames /\ f.kind = "call"
      /\ \A id \in Identities : Settled(id) => Nested(m, t, id)
      /\ Tracked(m, t, p, k)
  BY DEF Leaving
<1>2. n \in Nat /\ n \in DOMAIN t /\ t[n] = f /\ n > Len(s) /\ n <= Len(s) + 1
  BY <1>1, AppendParts
<1> HIDE DEF t, n
<1>3. TableOk(b) /\ CallTrack(m, t, p, k, n)
  BY <1>1, <1>2 DEF Tracked
<1>4. Fits(b) /\ Full(b)
  BY <1>3, FitsRows DEF Fits
<1>5. Track(b, n, m, t) /\ f.before[2] = p /\ (f.before[3] <=> k)
  BY <1>2, <1>3 DEF CallTrack
<1> HIDE DEF b, M
<1>6. Track(b, n, M, s)
  BY <1>1, <1>2, <1>4, <1>5, TrackLeave DEF t, M
<1>7. M = b
  BY <1>1, <1>2, <1>4, <1>6, TrackEnd
<1>8. QED
  BY <1>5, <1>7 DEF M, b

LEMMA LeaveRest ==
    ASSUME CoinsShare, NEW m, NEW s, NEW f, NEW p, NEW k, Leaving(m, s, f, p, k),
           RestFits(m, Append(s, f))
    PROVE  RestFits(AfterCall(m, f), s)
<1> DEFINE t == Append(s, f)
           n == Len(s) + 1
<1>1. /\ s \in Seq(Frames) /\ f \in Frames /\ f.kind = "call"
  BY DEF Leaving
<1>2. /\ Len(s) \in Nat /\ DOMAIN s = 1 .. Len(s) /\ DOMAIN t = 1 .. n /\ t[n] = f
      /\ \A i \in DOMAIN s : t[i] = s[i]
  BY <1>1, AppendParts
<1> HIDE DEF t
<1>3. \A i \in DOMAIN t : FirstCall(t, i) => FitTogether(t[i].before[1])
  BY DEF RestFits, t
<1>4. ASSUME NEW i \in DOMAIN s, FirstCall(s, i)
      PROVE  FitTogether(s[i].before[1])
  <2>1. i \in DOMAIN t /\ FirstCall(t, i)
    BY <1>2, <1>4 DEF FirstCall
  <2>2. QED
    BY <1>2, <1>3, <2>1
<1>5. ASSUME OnlyWiths(s)
      PROVE  FitTogether(AfterCall(m, f))
  <2>1. n \in DOMAIN t /\ FirstCall(t, n)
    BY <1>1, <1>2, <1>5 DEF FirstCall, OnlyWiths
  <2>2. FitTogether(f.before[1])
    BY <1>2, <1>3, <2>1
  <2>3. QED
    BY <2>2, LeaveBack
<1>6. QED
  BY <1>4, <1>5 DEF RestFits

\* The frames below go on as they were.
LEMMA LeaveTracks ==
    ASSUME CoinsShare, NEW m, NEW s, NEW f, NEW p, NEW k, Leaving(m, s, f, p, k)
    PROVE  Tracked(AfterCall(m, f), s, p, k)
<1> DEFINE t == Append(s, f)
           n == Len(s) + 1
           M == AfterCall(m, f)
<1>1. /\ s \in Seq(Frames) /\ FrameOk(f) /\ f \in Frames /\ f.kind = "call"
      /\ \A id \in Identities : Settled(id) => Nested(m, t, id)
      /\ Tracked(m, t, p, k)
  BY DEF Leaving
<1>2. /\ Len(s) \in Nat /\ DOMAIN s = 1 .. Len(s) /\ DOMAIN t = 1 .. n /\ n \in Nat
      /\ \A i \in DOMAIN s : t[i] = s[i] /\ s[i] \in Frames
  BY <1>1, AppendParts
<1>3. \A i \in DOMAIN s : FrameOk(s[i])
  BY DEF Leaving
<1>4. RestFits(m, t) => RestFits(M, s)
  BY LeaveRest
<1> HIDE DEF t, M
<1>5. ASSUME NEW B, Fits(B), NEW a \in Nat, a <= n, Track(B, a, m, t)
      PROVE  Track(B, a, M, s)
  BY <1>1, <1>5, TrackLeave DEF t, M, n
<1>6. ASSUME NEW i \in DOMAIN s
      PROVE  /\ TableOk(s[i].before[1])
             /\ s[i].kind = "call" => CallTrack(M, s, p, k, i)
             /\ s[i].kind = "with" => WithTrack(M, s, i)
  <2> DEFINE b == s[i].before[1]
             E == Entered(b, s[i].class)
  <2>1. /\ t[i] = s[i] /\ i \in DOMAIN t /\ TableOk(b)
        /\ i \in Nat /\ i + 1 \in Nat /\ i <= n /\ i + 1 <= n
    BY <1>1, <1>2 DEF Tracked
  <2>2. ASSUME s[i].kind = "call"
        PROVE  CallTrack(M, s, p, k, i)
    <3>1. CallTrack(m, t, p, k, i)
      BY <1>1, <2>1, <2>2 DEF Tracked
    <3>2. FitTogether(b) => Track(b, i, M, s)
      BY <1>5, <2>1, <3>1 DEF CallTrack, Fits
    <3>3. TableOk(E)
      <4>1. s[i].class \in Dispatchers \cup Bases
        BY <1>3, <2>2 DEF FrameOk
      <4>2. QED
        BY <2>1, <4>1, ActivateOk DEF Entered
    <3>4. FitTogether(E) => Track(E, i + 1, M, s)
      BY <1>5, <2>1, <3>1, <3>3 DEF CallTrack, Fits
    <3>5. QED
      BY <2>1, <3>1, <3>2, <3>4 DEF CallTrack
  <2>3. ASSUME s[i].kind = "with"
        PROVE  WithTrack(M, s, i)
    <3>1. WithTrack(m, t, i)
      BY <1>1, <2>1, <2>3 DEF Tracked
    <3>2. QED
      BY <1>4, <2>1, <3>1 DEF WithTrack
  <2>4. QED
    BY <2>1, <2>2, <2>3
<1>7. QED
  BY <1>6 DEF Tracked, M

LEMMA LeaveMethodTracked ==
    ASSUME CoinsShare, IInv, TInv, NEW c \in Contexts, LeaveMethod(c)
    PROVE  TInv'
<1> DEFINE s == Front(stack[c])
           f == Last(stack[c])
           m == disp[c]
           M == AfterCall(m, f)
           p == params[c]
<1>1. /\ disp' = [disp EXCEPT ![c] = M] /\ stack' = [stack EXCEPT ![c] = s]
      /\ params' = params /\ known' = known
  BY LeaveEffects
<1>2. params' = [params EXCEPT ![c] = p]
  BY <1>1 DEF IInv, TypeOK
<1>3. Leaving(m, s, f, p, c \in known)
  BY IsLeaving
<1> HIDE DEF m, s, f, p
<1>4. Tracked(M, s, p, c \in known)
  BY <1>3, LeaveTracks
<1> HIDE DEF M
<1>5. Tracked(M, s, p, c \in known')
  BY <1>1, <1>4
<1>6. QED
  BY <1>1, <1>2, <1>5, OneTracked

LEMMA TInvInit == Init => TInv
BY DEF Init, TInv, Tracked

LEMMA TInvStep == CoinsShare /\ IInv /\ TInv /\ [Next]_vars => TInv'
<1> SUFFICES ASSUME CoinsShare, IInv, TInv, [Next]_vars PROVE TInv'
  OBVIOUS
<1>1. CASE UNCHANGED <<disp, params, stack, known>>
  BY <1>1 DEF TInv
<1>2. ASSUME NEW c \in Contexts, StartThread(c) PROVE TInv'
  BY <1>1, <1>2 DEF StartThread
<1>3. QED
  BY <1>1, <1>2, CreateTaskTracked, SelectParamsTracked, EnterWithTracked,
     ExitWithTracked, CallMethodTracked, LeaveMethodTracked DEF Next, vars

-----------------------------------------------------------------------------
(* What follows for the properties.                                          *)

\* The invariant of what calls and with blocks will put back, for any nesting
\* of them in any contexts: a table that fitted together is known at each call
\* but for what the calls inside it have moved (the wrapper of methods, util.py,
\* and ChainParams).
THEOREM TracksInvariance == CoinsShare => (Spec => [](IInv /\ TInv))
<1> SUFFICES ASSUME CoinsShare PROVE Spec => [](IInv /\ TInv)
  OBVIOUS
<1>1. IInv /\ TInv /\ [Next]_vars => TInv'
  BY TInvStep
<1>2. QED
  BY <1>1, IInvInit, TInvInit, IInvStep, PTL DEF Spec

\* The call on top of the stack.
LEMMA TopCall ==
    ASSUME IInv, TInv, NEW c \in Contexts, stack[c] # <<>>,
           Last(stack[c]).kind = "call", Last(stack[c]).class \in Dispatchers,
           \/ Settled(Identity[Last(stack[c]).class])
           \/ FitTogether(Activate(Last(stack[c]).before[1], Last(stack[c]).class))
    PROVE  disp[c][Identity[Last(stack[c]).class]] = Last(stack[c]).class
<1> DEFINE t == stack[c]
           f == Last(t)
           m == disp[c]
           n == Len(t)
           d == f.class
           b == f.before[1]
<1>1. /\ t \in Seq(Frames) /\ m \in Tables
      /\ \A id \in Identities : Settled(id) => Nested(m, t, id)
      /\ Tracked(m, t, params[c], c \in known)
  BY DEF IInv, TypeOK, ContextOk, TInv
<1> HIDE DEF t, m
<1>2. /\ n \in Nat /\ n \in DOMAIN t /\ f = t[n] /\ \A i \in DOMAIN t : i <= n
  BY <1>1, Topmost DEF t
<1> HIDE DEF n, f
<1>3. f.kind = "call" /\ d \in Dispatchers /\ Identity[d] \in Identities /\ d \notin Bases
  BY IdentityTypes, GraphAssumption DEF f, t
<1>4. CASE Settled(Identity[d])
  <2>1. Nested(m, t, Identity[d])
    BY <1>1, <1>3, <1>4
  <2>2. n \in CallsIn(t, Identity[d]) /\ \A j \in CallsIn(t, Identity[d]) : j <= n
    BY <1>2, <1>3 DEF CallsIn, IsCall
  <2>3. m[Identity[d]] = d
    BY <1>2, <2>1, <2>2 DEF Nested
  <2>4. QED
    BY <2>3 DEF m, f, t
<1>5. CASE FitTogether(Activate(b, d))
  <2> DEFINE E == Activate(b, d)
  <2>1. TableOk(b) /\ CallTrack(m, t, params[c], c \in known, n) /\ b \in Tables
    BY <1>1, <1>2, <1>3 DEF Tracked, TableOk
  <2>2. TableOk(E) /\ E[Identity[d]] = d
    BY <1>3, <2>1, ActivateOk, ActivatesIt
  <2>3. Entered(b, d) = E
    BY <1>3 DEF Entered
  <2> HIDE DEF E, b
  <2>4. Track(E, n + 1, m, t)
    BY <1>2, <1>5, <2>1, <2>3 DEF CallTrack, E, b
  <2>5. Full(E)
    BY <1>5, <2>2, FitsRows DEF Fits, E
  <2>6. m = E
    BY <1>1, <1>2, <2>4, <2>5, TrackEnd DEF n
  <2>7. QED
    BY <2>2, <2>6 DEF m, f, t
<1>6. QED
  BY <1>4, <1>5 DEF t, f

\* In each method the dispatcher of its class is active, for any nesting of
\* methods of any classes, if the table fits together when its body begins or
\* no coin has another dispatcher of what depends on it.
THEOREM MethodsOwn == CoinsShare => (Spec => []OwnDispatcher)
<1> SUFFICES ASSUME CoinsShare PROVE Spec => []OwnDispatcher
  OBVIOUS
<1>1. IInv /\ TInv => OwnDispatcher
  <2> SUFFICES ASSUME IInv, TInv PROVE OwnDispatcher
    OBVIOUS
  <2>1. alive \subseteq Contexts
    BY DEF IInv, TypeOK
  <2>2. QED
    BY <2>1, TopCall DEF OwnDispatcher
<1>2. QED
  BY <1>1, TracksInvariance, PTL

\* A context that has been found to fit together outside of methods.
FoundTogether(c) == c \in alive /\ RestFits(disp[c], stack[c])

\* A selection outside of methods.
LEMMA SelectTogether ==
    ASSUME CoinsShare, NEW m, TableOk(m), NEW s, OnlyWiths(s), RestFits(m, s),
           NEW q \in ParamSets, NEW t, OnlyWiths(t)
    PROVE  RestFits(Selected(m, q), t)
<1>1. FitTogether(m)
  BY WithsRest
<1>2. FitTogether(Selected(m, q))
  BY <1>1, SelectFits DEF Fits
<1>3. QED
  BY <1>2, WithsRest

LEMMA OwnStepTogether ==
    ASSUME CoinsShare, IInv, TInv, NEW c \in Contexts, RestFits(disp[c], stack[c]),
           \/ \E q \in ParamSets : SelectParams(c, q)
           \/ \E q \in ParamSets : EnterWith(c, q)
           \/ ExitWith(c)
           \/ \E d \in Dispatchers \cup Bases : CallMethod(c, d)
           \/ LeaveMethod(c)
    PROVE  RestFits(disp'[c], stack'[c])
<1> DEFINE m == disp[c]
           s == stack[c]
<1>1. /\ disp \in [Contexts -> Tables] /\ stack \in [Contexts -> Seq(Frames)]
      /\ TableOk(m) /\ s \in Seq(Frames)
  BY DEF IInv, TypeOK, ContextOk
<1>2. ASSUME NEW q \in ParamSets, SelectParams(c, q)
      PROVE  RestFits(disp'[c], stack'[c])
  <2>1. ~InCall(c) /\ Select(c, q) /\ stack' = stack
    BY <1>2 DEF SelectParams
  <2>2. disp'[c] = Selected(m, q) /\ stack'[c] = s /\ OnlyWiths(s)
    BY <1>1, <2>1, SelectEffect, OutsideMethods
  <2> HIDE DEF m, s
  <2>3. RestFits(Selected(m, q), s)
    BY <1>1, <2>2, SelectTogether DEF m, s
  <2>4. QED
    BY <2>2, <2>3
<1>3. ASSUME NEW q \in ParamSets, EnterWith(c, q)
      PROVE  RestFits(disp'[c], stack'[c])
  <2> DEFINE f == WithFrame(params[c], c)
             t == IF Selectable(q) THEN Append(s, f) ELSE s
  <2>1. ~InCall(c) /\ Select(c, q) /\ stack' = [stack EXCEPT ![c] = t]
    BY <1>1, <1>3 DEF EnterWith, Push
  <2>2. disp'[c] = Selected(m, q) /\ stack'[c] = t /\ OnlyWiths(s)
    BY <1>1, <2>1, SelectEffect, OutsideMethods
  <2>3. f \in Frames /\ f.kind = "with"
    BY WithFrameOk
  <2> HIDE DEF m, s, f
  <2>4. OnlyWiths(t)
    <3>1. CASE Selectable(q)
      <4>1. /\ DOMAIN Append(s, f) = DOMAIN s \cup {Len(s) + 1}
            /\ Append(s, f)[Len(s) + 1] = f
            /\ \A i \in DOMAIN s : Append(s, f)[i] = s[i]
        BY <1>1, <2>3
      <4>2. OnlyWiths(Append(s, f))
        BY <2>2, <2>3, <4>1 DEF OnlyWiths
      <4>3. QED
        BY <3>1, <4>2
    <3>2. QED
      BY <2>2, <3>1
  <2> HIDE DEF t
  <2>5. RestFits(Selected(m, q), t)
    BY <1>1, <2>2, <2>4, SelectTogether DEF m, s
  <2>6. QED
    BY <2>2, <2>5
<1>4. ASSUME ExitWith(c)
      PROVE  RestFits(disp'[c], stack'[c])
  <2> DEFINE q == Last(s).prev
             t == Front(s)
  <2>1. /\ disp' = [disp EXCEPT ![c] = Selected(m, q)]
        /\ stack' = [stack EXCEPT ![c] = t]
        /\ OnlyWiths(s) /\ OnlyWiths(t) /\ q \in ParamSets
    BY <1>4, ExitEffects
  <2>2. disp'[c] = Selected(m, q) /\ stack'[c] = t
    BY <1>1, <2>1
  <2> HIDE DEF m, s, q, t
  <2>3. RestFits(Selected(m, q), t)
    BY <1>1, <2>1, SelectTogether DEF m, s
  <2>4. QED
    BY <2>2, <2>3
<1>5. ASSUME NEW d \in Dispatchers \cup Bases, CallMethod(c, d)
      PROVE  RestFits(disp'[c], stack'[c])
  <2>1. PICK f \in Frames :
           /\ f.kind = "call" /\ f.before[1] = m
           /\ disp' = [disp EXCEPT ![c] = Entered(m, d)]
           /\ stack' = [stack EXCEPT ![c] = Append(s, f)]
    BY <1>5, CallEffects
  <2>2. disp'[c] = Entered(m, d) /\ stack'[c] = Append(s, f)
    BY <1>1, <2>1
  <2> HIDE DEF m, s
  <2>3. RestFits(Entered(m, d), Append(s, f))
    BY <1>1, <2>1, CallRest DEF m, s
  <2>4. QED
    BY <2>2, <2>3
<1>6. ASSUME LeaveMethod(c)
      PROVE  RestFits(disp'[c], stack'[c])
  <2> DEFINE f == Last(s)
             t == Front(s)
             p == params[c]
  <2>1. /\ disp' = [disp EXCEPT ![c] = AfterCall(m, f)]
        /\ stack' = [stack EXCEPT ![c] = t] /\ s = Append(t, f)
    BY <1>6, LeaveEffects
  <2>2. disp'[c] = AfterCall(m, f) /\ stack'[c] = t
    BY <1>1, <2>1
  <2>3. Leaving(m, t, f, p, c \in known)
    BY <1>6, IsLeaving
  <2>4. RestFits(m, Append(t, f))
    BY <2>1
  <2> HIDE DEF m, s, f, t, p
  <2>5. RestFits(AfterCall(m, f), t)
    BY <2>3, <2>4, LeaveRest
  <2>6. QED
    BY <2>2, <2>5
<1>7. QED
  BY <1>2, <1>3, <1>4, <1>5, <1>6

LEMMA TogetherStep ==
    ASSUME CoinsShare, IInv, TInv, NEW c \in Contexts, FoundTogether(c), [Next]_vars
    PROVE  FoundTogether(c)'
<1>1. c \in alive /\ RestFits(disp[c], stack[c])
  BY DEF FoundTogether
<1>2. disp \in [Contexts -> Tables] /\ stack \in [Contexts -> Seq(Frames)]
  BY DEF IInv, TypeOK
<1>3. CASE disp'[c] = disp[c] /\ stack'[c] = stack[c] /\ c \in alive'
  BY <1>1, <1>3 DEF FoundTogether
<1>4. CASE UNCHANGED vars
  BY <1>1, <1>3, <1>4 DEF vars
<1>5. CASE Next
  <2>1. PICK e \in Contexts :
          \/ StartThread(e)
          \/ \E t \in Contexts : CreateTask(e, t)
          \/ \E p \in ParamSets : SelectParams(e, p)
          \/ \E p \in ParamSets : EnterWith(e, p)
          \/ ExitWith(e)
          \/ \E d \in Dispatchers \cup Bases : CallMethod(e, d)
          \/ LeaveMethod(e)
    BY <1>5 DEF Next
  <2>2. CASE StartThread(e)
    BY <1>1, <1>3, <2>2 DEF StartThread
  <2>3. ASSUME NEW t \in Contexts, CreateTask(e, t) PROVE FoundTogether(c)'
    BY <1>1, <1>2, <1>3, <2>3 DEF CreateTask
  <2>4. CASE ~StartThread(e) /\ ~\E t \in Contexts : CreateTask(e, t)
    <3>1. c \in alive'
      BY <1>1, <2>1, <2>4 DEF SelectParams, EnterWith, ExitWith, CallMethod,
                               LeaveMethod
    <3>2. CASE e = c
      <4>1. RestFits(disp'[c], stack'[c])
        BY <1>1, <2>1, <2>4, <3>2, OwnStepTogether
      <4>2. QED
        BY <3>1, <4>1 DEF FoundTogether
    <3>3. CASE e # c
      <4>1. disp'[c] = disp[c] /\ stack'[c] = stack[c]
        BY <1>2, <2>1, <2>4, <3>3 DEF SelectParams, EnterWith, ExitWith,
           CallMethod, LeaveMethod, Select, Push, Pop
      <4>2. QED
        BY <1>3, <3>1, <4>1
    <3>4. QED
      BY <3>2, <3>3
  <2>5. QED
    BY <2>2, <2>3, <2>4
<1>6. QED
  BY <1>4, <1>5

\* Whatever is called, raised or selected, outside of methods the dispatchers
\* of a context go on to fit together once they do, as in the context that
\* imported the package.
THEOREM TogetherStays == CoinsShare => (Spec => StaysTogether)
<1> SUFFICES ASSUME CoinsShare PROVE Spec => StaysTogether
  OBVIOUS
<1> SUFFICES ASSUME NEW c \in Contexts
             PROVE  Spec => [](c \in alive /\ ~InCall(c) /\ FitTogether(disp[c])
                               => [](~InCall(c) => FitTogether(disp[c])))
  BY DEF StaysTogether
<1>1. IInv /\ c \in alive /\ ~InCall(c) /\ FitTogether(disp[c]) => FoundTogether(c)
  <2>1. IInv /\ ~InCall(c) => OnlyWiths(stack[c])
    BY OutsideMethods
  <2>2. QED
    BY <2>1, WithsRest DEF FoundTogether
<1>2. IInv /\ FoundTogether(c) => (~InCall(c) => FitTogether(disp[c]))
  <2>1. IInv /\ ~InCall(c) => OnlyWiths(stack[c])
    BY OutsideMethods
  <2>2. QED
    BY <2>1 DEF FoundTogether, RestFits
<1>3. IInv /\ TInv /\ FoundTogether(c) /\ [Next]_vars => FoundTogether(c)'
  BY TogetherStep
<1>4. Spec => [](IInv /\ TInv)
  BY TracksInvariance
<1>5. QED
  BY <1>1, <1>2, <1>3, <1>4, PTL DEF Spec

\* What is in effect is what a frame remembers.
LEMMA InEffectIs ==
    ASSUME NEW c, NEW b \in Tables \X ParamSets \X BOOLEAN,
           disp'[c] = b[1], params'[c] = b[2], c \in known' <=> b[3]
    PROVE  InEffect(c)' = b
<1> DEFINE k == c \in known'
<1>1. InEffect(c)' = <<disp'[c], params'[c], k>>
  BY DEF InEffect
<1>2. k = b[3]
  <2>1. b[3] = TRUE \/ b[3] = FALSE
    OBVIOUS
  <2>2. CASE b[3] = TRUE
    <3>1. k
      BY <2>2
    <3>2. k = TRUE
      BY <3>1, Zenon
    <3>3. QED
      BY <2>2, <3>2
  <2>3. CASE b[3] = FALSE
    <3>1. ~k
      BY <2>3
    <3>2. k \in BOOLEAN
      OBVIOUS
    <3>3. k # TRUE
      BY <3>1
    <3>4. QED
      BY <2>3, <3>2, <3>3
  <2>4. QED
    BY <2>1, <2>2, <2>3
<1> HIDE DEF k
<1>3. b = <<b[1], b[2], b[3]>>
  <2>1. PICK x \in Tables, y \in ParamSets, z \in BOOLEAN : b = <<x, y, z>>
    OBVIOUS
  <2>2. \A u, v, w : <<u, v, w>>[1] = u /\ <<u, v, w>>[2] = v /\ <<u, v, w>>[3] = w
    OBVIOUS
  <2>3. b[1] = x /\ b[2] = y /\ b[3] = z
    BY <2>1, <2>2, Zenon
  <2>4. QED
    BY <2>1, <2>3, Zenon
<1>4. QED
  BY <1>1, <1>2, <1>3

LEMMA Shrinks ==
    ASSUME IInv, Next, NEW c \in Contexts, Len(stack'[c]) < Len(stack[c])
    PROVE  ExitWith(c) \/ LeaveMethod(c)
<1> DEFINE L == Len(stack[c])
<1>1. stack \in [Contexts -> Seq(Frames)] /\ L \in Nat
  BY DEF IInv, TypeOK
<1>2. stack'[c] # stack[c]
  BY <1>1
<1>3. PICK e \in Contexts :
        \/ StartThread(e)
        \/ \E t \in Contexts : CreateTask(e, t)
        \/ \E p \in ParamSets : SelectParams(e, p)
        \/ \E p \in ParamSets : EnterWith(e, p)
        \/ ExitWith(e)
        \/ \E d \in Dispatchers \cup Bases : CallMethod(e, d)
        \/ LeaveMethod(e)
  BY DEF Next
<1>4. ASSUME NEW f, Push(e, f) PROVE FALSE
  <2>1. stack'[c] = Append(stack[c], f) \/ stack'[c] = stack[c]
    BY <1>1, <1>4 DEF Push
  <2> DEFINE s == stack[c]
  <2>2. Len(Append(s, f)) = Len(s) + 1
    BY <1>1
  <2>3. QED
    BY <1>1, <1>2, <2>1, <2>2
<1>5. CASE StartThread(e)
  BY <1>2, <1>5 DEF StartThread
<1>6. CASE \E t \in Contexts : CreateTask(e, t)
  BY <1>2, <1>6 DEF CreateTask
<1>7. CASE \E p \in ParamSets : SelectParams(e, p)
  BY <1>2, <1>7 DEF SelectParams
<1>8. CASE \E p \in ParamSets : EnterWith(e, p)
  BY <1>2, <1>4, <1>8 DEF EnterWith
<1>9. CASE \E d \in Dispatchers \cup Bases : CallMethod(e, d)
  BY <1>4, <1>9 DEF CallMethod
<1>10. CASE ExitWith(e) \/ LeaveMethod(e)
  BY <1>1, <1>2, <1>10 DEF ExitWith, LeaveMethod, Pop
<1>11. QED
  BY <1>3, <1>5, <1>6, <1>7, <1>8, <1>9, <1>10

LEMMA ExitRestores ==
    ASSUME CoinsShare, IInv, TInv, NEW c \in Contexts, ExitWith(c),
           Last(stack[c]).before[3], FitTogether(Last(stack[c]).before[1])
    PROVE  InEffect(c)' = Last(stack[c]).before
<1> DEFINE s == stack[c]
           m == disp[c]
           f == Last(s)
           q == f.prev
           b == f.before
<1>1. /\ params' = [params EXCEPT ![c] = q] /\ q \in ParamSets
      /\ disp' = [disp EXCEPT ![c] = Selected(m, q)]
      /\ (c \in known' <=> Selectable(q)) /\ f \in Frames /\ f.kind = "with"
      /\ Len(s) \in DOMAIN s /\ f = s[Len(s)] /\ OnlyWiths(s)
  BY ExitEffects
<1>2. /\ disp'[c] = Selected(m, q) /\ params'[c] = q /\ TableOk(m)
      /\ Tracked(m, s, params[c], c \in known)
  BY <1>1 DEF IInv, TypeOK, ContextOk, TInv
<1>3. b \in Tables \X ParamSets \X BOOLEAN /\ b[3] /\ FitTogether(b[1])
  BY <1>1 DEF Frames
<1> HIDE DEF s, m, f
<1>4. TableOk(b[1]) /\ WithTrack(m, s, Len(s))
  BY <1>1, <1>2 DEF Tracked
<1>5. /\ b[2] = q /\ Selectable(q) /\ b[1][Identity[Wallet[q]]] = Wallet[q]
      /\ RestFits(m, s)
  BY <1>1, <1>3, <1>4 DEF WithTrack
<1> HIDE DEF q, b
<1>6. Fits(m) /\ Fits(b[1])
  BY <1>1, <1>2, <1>3, <1>4, <1>5, WithsRest DEF Fits
<1>7. Selected(m, q) = b[1]
  BY <1>1, <1>5, <1>6, SelectBack
<1>8. InEffect(c)' = b
  BY <1>1, <1>2, <1>3, <1>5, <1>7, InEffectIs
<1>9. QED
  BY <1>8 DEF b, f, s

LEMMA LeaveRestores ==
    ASSUME CoinsShare, IInv, TInv, NEW c \in Contexts, LeaveMethod(c),
           FitTogether(Last(stack[c]).before[1])
    PROVE  InEffect(c)' = Last(stack[c]).before
<1> DEFINE f == Last(stack[c])
           s == Front(stack[c])
           m == disp[c]
           p == params[c]
           b == f.before
           k == c \in known
<1>1. /\ disp' = [disp EXCEPT ![c] = AfterCall(m, f)]
      /\ params' = params /\ known' = known /\ f \in Frames
  BY LeaveEffects
<1>2. disp'[c] = AfterCall(m, f) /\ params'[c] = p /\ (c \in known' <=> k)
  BY <1>1 DEF IInv, TypeOK
<1>3. Leaving(m, s, f, p, k) /\ FitTogether(f.before[1])
  BY IsLeaving
<1>4. b \in Tables \X ParamSets \X BOOLEAN
  BY <1>1 DEF Frames
<1> HIDE DEF f, s, m, p, k
<1>5. AfterCall(m, f) = b[1] /\ b[2] = p /\ (b[3] <=> k)
  BY <1>3, LeaveBack
<1> HIDE DEF b
<1>6. InEffect(c)' = b
  BY <1>2, <1>4, <1>5, InEffectIs
<1>7. QED
  BY <1>6 DEF b, f

\* When a method returns or raises, or a with block ends, all in effect is as
\* it was before, for any calls and selections in between and in other
\* contexts, if the dispatchers fitted together then.
THEOREM ChangesAreTemporary == CoinsShare => (Spec => Restored)
<1> SUFFICES ASSUME CoinsShare PROVE Spec => Restored
  OBVIOUS
<1> DEFINE A == \A c \in alive :
                  LET f == Last(stack[c]) IN
                  /\ Len(stack'[c]) < Len(stack[c])
                  /\ FitTogether(f.before[1])
                  /\ f.kind = "with" => f.before[3]
                  => InEffect(c)' = f.before
<1>1. IInv /\ TInv /\ [Next]_vars => [A]_vars
  <2> SUFFICES ASSUME IInv, TInv, Next, NEW c \in alive,
                      Len(stack'[c]) < Len(stack[c]),
                      FitTogether(Last(stack[c]).before[1]),
                      Last(stack[c]).kind = "with" => Last(stack[c]).before[3]
               PROVE  InEffect(c)' = Last(stack[c]).before
    OBVIOUS
  <2>1. c \in Contexts
    BY DEF IInv, TypeOK
  <2>2. ExitWith(c) \/ LeaveMethod(c)
    BY <2>1, Shrinks
  <2>3. CASE ExitWith(c)
    <3>1. Last(stack[c]).kind = "with"
      BY <2>3 DEF ExitWith
    <3>2. QED
      BY <2>1, <2>3, <3>1, ExitRestores
  <2>4. CASE LeaveMethod(c)
    BY <2>1, <2>4, LeaveRestores
  <2>5. QED
    BY <2>2, <2>3, <2>4
<1>2. Spec => [](IInv /\ TInv)
  BY TracksInvariance
<1>3. QED
  BY <1>1, <1>2, PTL DEF Spec, Restored
=============================================================================
