------------------------------- MODULE CoreTx -------------------------------
(***************************************************************************)
(* Transactions and their parts (core/__init__.py): immutable classes with *)
(* mutable twins.  While a method of a mutable class runs, the mutable     *)
(* context is on and every class called makes objects of its mutable twin. *)
(* Objects live in a heap, because who shares a part with whom is the      *)
(* question; what no handle of the program reaches is collected.  A script,*)
(* an amount, an outpoint's hash and index are one datum.                  *)
(***************************************************************************)
EXTENDS Naturals, SequencesExt, FiniteSetsExt

CONSTANTS Data,       \* what outpoints and outputs hold
          Handles,    \* the program's variables that hold transactions
          MaxInputs,  \* bound: inputs of a transaction
          NoObject

ASSUME CoreTxAssumption ==
  /\ Data # {} /\ Handles # {} /\ MaxInputs \in Nat \ {0}
  /\ NoObject \notin Nat

VARIABLES heap,     \* the live objects, by identity
          tx,       \* what each handle holds
          input,    \* an input the program holds apart from them
          enabled,  \* _mutable_context.mutable_context_enabled
          class     \* the class each handle's transaction was asked of

vars == <<heap, tx, input, enabled, class>>

Twins == {"mutable", "immutable"}

IsMutable(h, o) == h[o].mutable

Children(r) ==
  CASE r.of = "input"       -> {r.prevout}
    [] r.of = "witness"     -> ToSet(r.vtxinwit)
    [] r.of = "transaction" -> ToSet(r.vin) \union ToSet(r.vout) \union {r.wit}
    [] OTHER                -> {}

(* A transaction, its inputs and its witness, and what those hold. *)
ReachAll(h, S) ==
  LET below(T) == UNION {Children(h[x]) : x \in T}
      parts    == below(S)
  IN S \union parts \union below(parts)

Reach(h, o) == ReachAll(h, {o})

Live(h, roots) == [o \in ReachAll(h, roots \ {NoObject}) |-> h[o]]

(***************************************************************************)
(* What an object says, whatever its identity and mutability.              *)
(***************************************************************************)
Datum(h, o)       == h[o].data
Spends(h, o)      == Datum(h, h[o].prevout)
Map(h, Op(_, _), s) == [i \in DOMAIN s |-> Op(h, s[i])]
Witnesses(h, o)   == Map(h, Datum, h[o].vtxinwit)

WitnessIsNull(h, o) == \A w \in ToSet(h[o].vtxinwit) : h[w].data = "empty"

Value(h, o) ==
  CASE h[o].of = "input"       -> <<Spends(h, o)>>
    [] h[o].of = "witness"     -> Witnesses(h, o)
    [] h[o].of = "transaction" ->
         <<Map(h, Spends, h[o].vin), Map(h, Datum, h[o].vout),
           Witnesses(h, h[o].wit)>>
    [] OTHER                   -> <<h[o].data>>

(***************************************************************************)
(* Construction.  m is the mutability in force: the class asked for is     *)
(* mutable, or the context is on.  Every constructor and from_instance     *)
(* gives the heap after it and the object.                                 *)
(***************************************************************************)
New(h, r) ==
  LET o == CHOOSE n \in 1 .. Cardinality(DOMAIN h) + 1 : n \notin DOMAIN h
  IN [heap |-> [x \in DOMAIN h \union {o} |-> IF x = o THEN r ELSE h[x]],
      id   |-> o]

(* A leaf is an outpoint, an output or the witness of an input. *)
Leaf(h, m, of, data) == New(h, [of |-> of, data |-> data, mutable |-> m])

Unconverted(h, m, o) == ~m /\ ~IsMutable(h, o)

LeafFrom(h, m, o) ==
  IF Unconverted(h, m, o) THEN [heap |-> h, id |-> o]
  ELSE Leaf(h, m, h[o].of, h[o].data)

(* Mutant of NewInput: only a mutable input copies its outpoint. *)
NewInputKeepsOutpoint(h, m, prevout) ==
  LET p == IF m THEN LeafFrom(h, m, prevout)
           ELSE [heap |-> h, id |-> prevout]
  IN New(p.heap, [of |-> "input", prevout |-> p.id, mutable |-> m])

NewInput(h, m, prevout) ==
  LET p == IF m \/ IsMutable(h, prevout) THEN LeafFrom(h, m, prevout)
           ELSE [heap |-> h, id |-> prevout]
  IN New(p.heap, [of |-> "input", prevout |-> p.id, mutable |-> m])

InputFrom(h, m, o) ==
  LET p == LeafFrom(h, m, h[o].prevout)
  IN IF Unconverted(h, m, o) THEN [heap |-> h, id |-> o]
     ELSE NewInput(p.heap, m, p.id)

(* From(h, m, o) for each of a list of parts, one after the other. *)
FromAll(h, m, parts, From(_, _, _)) ==
  LET made[n \in 0 .. Len(parts)] ==
        IF n = 0 THEN [heap |-> h, ids |-> <<>>]
        ELSE LET sofar == made[n - 1]
                 r     == From(sofar.heap, m, parts[n])
             IN [heap |-> r.heap, ids |-> Append(sofar.ids, r.id)]
  IN made[Len(parts)]

(* The leaves that hold the values s. *)
Leaves(h, m, of, s) == FromAll(h, m, s, LAMBDA g, n, d : Leaf(g, n, of, d))

NewWitness(h, m, vtxinwit) ==
  LET w == FromAll(h, m, vtxinwit, LeafFrom)
  IN New(w.heap, [of |-> "witness", vtxinwit |-> w.ids, mutable |-> m])

WitnessFrom(h, m, o) ==
  IF Unconverted(h, m, o) THEN [heap |-> h, id |-> o]
  ELSE NewWitness(h, m, h[o].vtxinwit)

(* One empty witness for each input, or none when the class is immutable. *)
EmptyWitness(h, m, n) ==
  LET all == Leaves(h, m, "inwit", [i \in 1 .. (IF m THEN n ELSE 0) |-> "empty"])
  IN NewWitness(all.heap, m, all.ids)

(* Mutant of WitnessOf: a witness of the right class is taken as it is. *)
WitnessOfKept(h, m, vin, wit) ==
  IF wit = NoObject \/ (m /\ WitnessIsNull(h, wit))
  THEN EmptyWitness(h, m, Len(vin))
  ELSE IF IsMutable(h, wit) = m THEN [heap |-> h, id |-> wit]
       ELSE WitnessFrom(h, m, wit)

(* The witness of a transaction asked for with vin and the witness wit. *)
WitnessOf(h, m, vin, wit) ==
  IF wit = NoObject \/ (m /\ WitnessIsNull(h, wit))
  THEN EmptyWitness(h, m, Len(vin)) ELSE WitnessFrom(h, m, wit)

(* Making the empty witness of a mutable transaction runs through vin and  *)
(* vout: of iterables that can be run through only once nothing is left.   *)
Exhausted(h, m, wit, once) ==
  once /\ m /\ (wit = NoObject \/ WitnessIsNull(h, wit))

(* CTransaction(vin, vout, witness=wit) *)
NewTx(h, m, vin, vout, wit, once) ==
  LET left(s) == IF Exhausted(h, m, wit, once) THEN <<>> ELSE s
      w    == WitnessOf(h, m, vin, wit)
      ins  == FromAll(w.heap, m, left(vin), InputFrom)
      outs == FromAll(ins.heap, m, left(vout), LeafFrom)
  IN New(outs.heap, [of |-> "transaction", vin |-> ins.ids, vout |-> outs.ids,
                     wit |-> w.id, mutable |-> m])

TxFrom(h, m, o) ==
  LET ins  == FromAll(h, m, h[o].vin, InputFrom)
      outs == FromAll(ins.heap, m, h[o].vout, LeafFrom)
      w    == WitnessFrom(outs.heap, m, h[o].wit)
  IN IF Unconverted(h, m, o) THEN [heap |-> h, id |-> o]
     ELSE NewTx(w.heap, m, ins.ids, outs.ids, w.id, FALSE)

(***************************************************************************)
(* Serialization.  Bytes are a sequence of fields; a count of inputs of    *)
(* zero is the marker, and the byte after it the flag.                     *)
(***************************************************************************)
Count(n) == <<"count", n>>
Fields(of, values) ==
  [i \in 1 .. Len(values) + 1 |->
     IF i = 1 THEN Count(Len(values)) ELSE <<of, values[i - 1]>>]

(* Unset when the assertion fails that every input has its witness. *)
Write(h, o, include_witness) ==
  LET v    == Value(h, o)
      body == Fields("input", v[1]) \o Fields("output", v[2])
      wit  == [i \in DOMAIN v[3] |-> <<"inwit", v[3][i]>>]
  IN IF ~include_witness \/ WitnessIsNull(h, h[o].wit) THEN {body}
     ELSE IF Len(v[3]) = Len(v[1])
          THEN {<<Count(0), Count(1)>> \o body \o wit} ELSE {}

(* The vector of parts that starts at b[i], if one does. *)
Vector(b, i, of) ==
  {v \in {SubSeq(b, i + 1, i + n) : n \in 0 .. Len(b) - i} :
     /\ i <= Len(b) /\ b[i] = Count(Len(v))
     /\ \A f \in ToSet(v) : f[1] = of}

(* What the bytes of a transaction say; nothing when they are refused. *)
Read(b) ==
  LET flag  == IF Len(b) > 1 /\ b[1] = Count(0) /\ b[2][1] = "count"
               THEN b[2][2] ELSE 0
      at    == IF flag = 0 THEN 1 ELSE 3
      said(fields) == [i \in DOMAIN fields |-> fields[i][2]]
      parts == UNION {{<<ins, outs, SubSeq(b, at + Len(ins \o outs) + 2, Len(b))>> :
                         outs \in Vector(b, at + Len(ins) + 1, "output")} :
                        ins \in Vector(b, at, "input")}
  IN {<<said(p[1]), said(p[2]), said(p[3])>> :
        p \in {q \in parts :
          /\ flag \in {0, 1}
          /\ Len(q[3]) = IF flag = 1 THEN Len(q[1]) ELSE 0
          /\ flag = 1 => \E f \in ToSet(q[3]) : f # <<"inwit", "empty">>}}

TxOfValue(h, m, v) ==
  LET points == Leaves(h, m, "outpoint", v[1])
      ins    == FromAll(points.heap, m, points.ids, NewInput)
      outs   == Leaves(ins.heap, m, "output", v[2])
      inwits == Leaves(outs.heap, m, "inwit", v[3])
      w      == NewWitness(inwits.heap, m, inwits.ids)
  IN NewTx(w.heap, m, ins.ids, outs.ids,
           IF v[3] = <<>> THEN NoObject ELSE w.id, FALSE)

(* Mutant of GetTxid: the hash of all that is written. *)
HashOfAll(h, o) == Write(h, o, TRUE)

(* The txid is the hash of the transaction without its witnesses. *)
GetTxid(h, o) == Write(h, o, FALSE)

-----------------------------------------------------------------------------
Init ==
  /\ heap = << >> /\ enabled = FALSE
  /\ tx = [k \in Handles |-> NoObject] /\ input = NoObject
  /\ class = [k \in Handles |-> "immutable"]

(* The class a call makes objects of. *)
InForce(c) == c = "mutable" \/ enabled

(* Mutant of Restored: the context is put back only on the way out of a    *)
(* method that returns.                                                    *)
RestoredOnReturn(c) == InForce(c)

(* The context when a method of class c has returned, or has raised.       *)
Restored(c) == enabled

Roots == {tx[k] : k \in Handles} \union {input}

Hold(k, c, made) ==
  /\ tx' = [tx EXCEPT ![k] = made.id]
  /\ class' = [class EXCEPT ![k] = c]
  /\ heap' = Live(made.heap, (Roots \ {tx[k]}) \union
                {tx[j] : j \in Handles \ {k}} \union {input, made.id})
  /\ UNCHANGED <<input, enabled>>

Change(h) ==
  /\ heap' = Live(h, Roots)
  /\ UNCHANGED <<tx, input, enabled, class>>

(* An input of class c, given an outpoint of class p. *)
MakeInput(c, p, d) ==
  LET point == Leaf(heap, InForce(p), "outpoint", d)
      made  == NewInput(point.heap, InForce(c), point.id)
  IN /\ input' = made.id
     /\ heap' = Live(made.heap, {tx[k] : k \in Handles} \union {made.id})
     /\ UNCHANGED <<tx, enabled, class>>

(* A transaction of class c of the input, n times, and one output. *)
MakeTx(k, c, n, wit) ==
  LET out    == Leaf(heap, InForce("immutable"), "output", CHOOSE d \in Data : TRUE)
      inwits == Leaves(out.heap, InForce("immutable"), "inwit", wit)
      w      == NewWitness(inwits.heap, InForce("immutable"), inwits.ids)
  IN /\ input # NoObject
     /\ Hold(k, c, NewTx(w.heap, InForce(c), [i \in 1 .. n |-> input],
                         <<out.id>>, IF wit = <<>> THEN NoObject ELSE w.id,
                         FALSE))

(* A transaction of class c of the parts of another, with or without its   *)
(* witness, given as sequences or as iterables that can be used once (an   *)
(* immutable class uses them once, so that it makes no difference there).  *)
Rebuild(k, c, j, once, with_wit) ==
  /\ tx[j] # NoObject /\ (once => c = "mutable")
  /\ LET o == heap[tx[j]]
     IN Hold(k, c, NewTx(heap, InForce(c), o.vin, o.vout,
                         IF with_wit THEN o.wit ELSE NoObject, once))

(* from_tx, to_mutable, to_immutable, clone *)
Copy(k, c, j) ==
  /\ tx[j] # NoObject
  /\ Hold(k, c, TxFrom(heap, InForce(c), tx[j]))

(* c.deserialize(tx.serialize()) *)
Reread(k, c, j) ==
  /\ tx[j] # NoObject
  /\ \E b \in Write(heap, tx[j], TRUE) :
       \E v \in Read(b) : Hold(k, c, TxOfValue(heap, InForce(c), v))

(* The constructor refuses its arguments, or the data to read. *)
Refuse(c) ==
  /\ enabled' = Restored(c)
  /\ UNCHANGED <<heap, tx, input, class>>

MutableTx(k) == tx[k] # NoObject /\ IsMutable(heap, tx[k])

(* tx.vin.append(input): the program does not keep it. *)
AppendInput(k) ==
  /\ MutableTx(k) /\ input # NoObject
  /\ Len(heap[tx[k]].vin) < MaxInputs
  /\ input' = NoObject
  /\ heap' = [heap EXCEPT ![tx[k]].vin = Append(@, input)]
  /\ UNCHANGED <<tx, enabled, class>>

(* tx.vin[i].prevout.n = d, or the same of the input held apart. *)
SetOutpoint(o, d) ==
  /\ heap[o].of = "input" /\ IsMutable(heap, heap[o].prevout)
  /\ d # Spends(heap, o)
  /\ Change([heap EXCEPT ![heap[o].prevout].data = d])

(* tx.vin[i].prevout = COutPoint(...) *)
ReplaceOutpoint(o, d) ==
  /\ heap[o].of = "input" /\ IsMutable(heap, o) /\ d # Spends(heap, o)
  /\ LET p == Leaf(heap, InForce("immutable"), "outpoint", d)
     IN Change([p.heap EXCEPT ![o].prevout = p.id])

(* tx.vout[i].nValue = d *)
SetOutput(o, d) ==
  /\ heap[o].of = "output" /\ IsMutable(heap, o) /\ d # Datum(heap, o)
  /\ Change([heap EXCEPT ![o].data = d])

(* tx.wit.vtxinwit[i].scriptWitness = d *)
SetWitness(o, d) ==
  /\ heap[o].of = "inwit" /\ IsMutable(heap, o) /\ d # Datum(heap, o)
  /\ Change([heap EXCEPT ![o].data = d])

Stacks == {"empty", "sigs"}

Next ==
  \/ \E c, p \in Twins, d \in Data : MakeInput(c, p, d)
  \/ \E k \in Handles, c \in Twins, n \in 0 .. MaxInputs :
       \E wit \in {<<>>, <<"sigs">>} : MakeTx(k, c, n, wit)
  \/ \E k \in Handles, c \in Twins : \E j \in Handles \ {k} :
       \/ \E once, with_wit \in BOOLEAN : Rebuild(k, c, j, once, with_wit)
       \/ Copy(k, c, j)
       \/ Reread(k, c, j)
  \/ \E c \in Twins : Refuse(c)
  \/ \E k \in Handles : AppendInput(k)
  \/ \E o \in DOMAIN heap, d \in Data :
       SetOutpoint(o, d) \/ ReplaceOutpoint(o, d) \/ SetOutput(o, d)
  \/ \E o \in DOMAIN heap, d \in Stacks : SetWitness(o, d)

Spec == Init /\ [][Next]_vars

-----------------------------------------------------------------------------
(* Everything in the heap is reached from a handle, and every part of an   *)
(* object is in the heap.                                                  *)
TypeOK ==
  /\ enabled \in BOOLEAN /\ class \in [Handles -> Twins]
  /\ Roots \ {NoObject} \subseteq DOMAIN heap
  /\ \A o \in DOMAIN heap : Children(heap[o]) \subseteq DOMAIN heap

(* What an immutable object says never changes, however the objects it was *)
(* made of, or that were made of it, are edited: its hash is computed once *)
(* and kept (ImmutableSerializable.GetHash).                               *)
ImmutablesStay ==
  [][\A o \in DOMAIN heap \intersect DOMAIN heap' :
       ~IsMutable(heap, o) => Value(heap', o) = Value(heap, o)]_vars

(* A transaction just made shares no mutable part with anything that was   *)
(* there before: an edit of one is never seen in the other.                *)
CopiesAreApart ==
  [][\A k \in Handles : tx'[k] # tx[k] =>
       \A o \in Reach(heap', tx'[k]) \intersect DOMAIN heap :
         ~IsMutable(heap, o)]_vars

(* What is asked of an immutable class is immutable to the last part, and  *)
(* what is asked of a mutable one can be edited, also after a method of a  *)
(* mutable class has raised.                                               *)
MadeByItsClass ==
  \A k \in Handles : tx[k] # NoObject =>
    /\ IsMutable(heap, tx[k]) <=> class[k] = "mutable"
    /\ class[k] = "immutable" =>
         \A o \in Reach(heap, tx[k]) : ~IsMutable(heap, o)

(* A transaction with an input that can be written is read back as what it *)
(* says, and its txid is that of the transaction without witnesses.        *)
WrittenIsRead ==
  \A k \in Handles :
    tx[k] # NoObject /\ heap[tx[k]].vin # <<>> =>
      LET v    == Value(heap, tx[k])
          said == IF WitnessIsNull(heap, heap[tx[k]].wit)
                  THEN [v EXCEPT ![3] = <<>>] ELSE v
      IN /\ \A b \in Write(heap, tx[k], TRUE) : Read(b) = {said}
         /\ \A b \in GetTxid(heap, tx[k]) :
              Read(b) = {[said EXCEPT ![3] = <<>>]}

(* Documentation of CTransaction: "vin and vout are iterables of           *)
(* transaction inputs and outputs".  A transaction made of the parts of    *)
(* another has as many of them.                                            *)
IterablesKept ==
  [][\A k, j \in Handles, c \in Twins, once, with_wit \in BOOLEAN :
       Rebuild(k, c, j, once, with_wit) =>
         Len(heap'[tx'[k]].vin) = Len(heap[tx[j]].vin)]_vars

=============================================================================
