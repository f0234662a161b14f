------------------------------ MODULE MCCoreTx ------------------------------
(***************************************************************************)
(* Two transactions of at most one input, over two outpoints or amounts.   *)
(* Identities are renamed away: two states that say the same with the same *)
(* classes, and share no mutable part, differ in nothing a step can see.   *)
(* Which of the two handles holds which transaction does not matter.       *)
(***************************************************************************)
EXTENDS CoreTx

CONSTANTS t1, t2, a, b

MCHandles == {t1, t2}
MCData    == {a, b}

LeafTree(o) == <<heap[o].mutable, heap[o].data>>
InputTree(o) ==
  IF o = NoObject THEN <<>> ELSE <<heap[o].mutable, LeafTree(heap[o].prevout)>>
TxTree(o) ==
  IF o = NoObject THEN <<>>
  ELSE LET w == heap[o].wit
       IN <<heap[o].mutable, [i \in DOMAIN heap[o].vin |-> InputTree(heap[o].vin[i])],
            [i \in DOMAIN heap[o].vout |-> LeafTree(heap[o].vout[i])],
            heap[w].mutable,
            [i \in DOMAIN heap[w].vtxinwit |-> LeafTree(heap[w].vtxinwit[i])]>>

Mutables(o) == IF o = NoObject THEN {}
               ELSE {p \in Reach(heap, o) : IsMutable(heap, p)}

View ==
  <<{<<TxTree(tx[k]), class[k]>> : k \in Handles}, InputTree(input), enabled,
    \E k \in Handles : \E o \in {tx[j] : j \in Handles \ {k}} \union {input} :
      Mutables(tx[k]) \intersect Mutables(o) # {}>>

=============================================================================
