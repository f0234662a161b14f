---------------------------- MODULE PSBTAssembly ----------------------------
(***************************************************************************)
(* Building a PSBT with add_input and add_output: bitcointx/core/psbt.py,   *)
(* PartiallySignedTransaction, and the transaction objects behind it        *)
(* (serialize.py, ImmutableSerializable).                                   *)
(*                                                                          *)
(* `unsigned_tx` is a reference: the constructor, clone() and merge() store *)
(* the object they are given, and add_input and add_output replace the vin  *)
(* and vout of that object, also of an immutable one, whose GetHash() is    *)
(* computed once.  The PSBT_Input objects are cloned: they are represented  *)
(* by the txin they were made for, PSBT_Output objects by the txout.        *)
(***************************************************************************)
EXTENDS Naturals, Sequences, Functions

CONSTANTS
    Psbts,      \* PartiallySignedTransaction objects
    Txs,        \* CTransaction objects
    Mutable,    \* those that are CMutableTransaction
    TxIns,      \* inputs to add
    TxOuts,     \* outputs to add
    Verdict,    \* what the library finds when one is added
    NoTx,       \* no transaction
    MaxLen      \* bound: inputs, and outputs, of a transaction

ASSUME AssemblyAssumption ==
    /\ NoTx \notin Txs
    /\ Mutable \subseteq Txs
    /\ Verdict \in [TxIns \cup TxOuts -> {"ok", "insane", "bad utxo"}]
    /\ MaxLen \in Nat

VARIABLES
    vin, vout,  \* of each transaction object
    cached,     \* _cached_GetHash: the contents it is the hash of
    tx,         \* unsigned_tx, NoTx while there is no such PSBT
    inputs,     \* inputs and ...
    outputs     \* ... outputs of each PSBT

assemblyVars == <<vin, vout, cached, tx, inputs, outputs>>

Contents(t) == <<vin[t], vout[t]>>

AssemblyTypeOK ==
    /\ vin \in [Txs -> Seq(TxIns)]
    /\ vout \in [Txs -> Seq(TxOuts)]
    /\ cached \in [Txs -> (Seq(TxIns) \X Seq(TxOuts)) \cup {NoTx}]
    /\ tx \in [Psbts -> Txs \cup {NoTx}]
    /\ inputs \in [Psbts -> Seq(TxIns)]
    /\ outputs \in [Psbts -> Seq(TxOuts)]

Live == {p \in Psbts : tx[p] # NoTx}

AssemblyInit ==
    /\ vin = [t \in Txs |-> <<>>]
    /\ vout = [t \in Txs |-> <<>>]
    /\ cached = [t \in Txs |-> NoTx]
    /\ tx = [p \in Psbts |-> NoTx]
    /\ inputs = [p \in Psbts |-> <<>>]
    /\ outputs = [p \in Psbts |-> <<>>]

\* _check_sanity accepts transaction t: it is null, or CheckTransaction accepts it.
SaneTx(t) ==
    \/ Contents(t) = <<<<>>, <<>>>>
    \/ vin[t] # <<>> /\ vout[t] # <<>> /\ IsInjective(vin[t])

\* _check_consistency does not raise.
Consistent(p) ==
    Len(vin[tx[p]]) = Len(inputs[p]) /\ Len(vout[tx[p]]) = Len(outputs[p])

-----------------------------------------------------------------------------
Become(p, t, ins, outs) ==
    /\ tx' = [tx EXCEPT ![p] = t]
    /\ inputs' = [inputs EXCEPT ![p] = ins]
    /\ outputs' = [outputs EXCEPT ![p] = outs]

\* PartiallySignedTransaction(unsigned_tx=t)
Construct(p, t) ==
    /\ p \notin Live
    /\ SaneTx(t)
    /\ Become(p, t, vin[t], vout[t])
    /\ UNCHANGED <<vin, vout, cached>>

\* q = p.clone(), an empty PSBT that p is merged into: its own transaction is
\* null and gives way to that of p.
CloneParts(p, q) ==
    /\ p \in Live
    /\ q \notin Live
    /\ Become(q, tx[p], inputs[p], outputs[p])
    /\ UNCHANGED <<vin, vout, cached>>

\* p.merge(q), as far as it concerns the parts: when p has a null transaction
\* it takes that of q; otherwise the txids must be equal, and nothing changes
\* (if inputs or outputs are missing, merge() raises).
MergeParts(p, q) ==
    /\ p # q /\ {p, q} \subseteq Live
    /\ IF Contents(tx[p]) = <<<<>>, <<>>>> /\ inputs[p] = <<>> /\ outputs[p] = <<>>
       THEN Become(p, tx[q], inputs[q], outputs[q])
       ELSE UNCHANGED <<tx, inputs, outputs>>
    /\ UNCHANGED <<vin, vout, cached>>

\* q = deserialize(p.serialize()), with an immutable transaction of its own, t.
Reread(p, q, t) ==
    /\ p \in Live /\ q \notin Live
    /\ \A r \in Live : tx[r] # t
    /\ Consistent(p) /\ SaneTx(tx[p])
    /\ t \notin Mutable
    /\ vin' = [vin EXCEPT ![t] = vin[tx[p]]]
    /\ vout' = [vout EXCEPT ![t] = vout[tx[p]]]
    /\ cached' = [cached EXCEPT ![t] = NoTx]
    /\ Become(q, t, inputs[p], outputs[p])

\* Mutant of AddInput: the input is appended before it is checked, and only
\* vin is put back when it is refused.
AddInputUnchecked(p, x) ==
    /\ p \in Live
    /\ Consistent(p)
    /\ Len(inputs[p]) < MaxLen
    /\ vin' = IF Verdict[x] = "insane" THEN vin
              ELSE [vin EXCEPT ![tx[p]] = Append(@, x)]
    /\ inputs' = IF Verdict[x] = "bad utxo" THEN inputs
                 ELSE [inputs EXCEPT ![p] = Append(@, x)]
    /\ UNCHANGED <<vout, cached, tx, outputs>>

\* add_input: vin is put back when _check_sanity raises ValueError, and it is
\* not when set_utxo raises before that.
AddInput(p, x) ==
    /\ p \in Live
    /\ Consistent(p)
    /\ Len(inputs[p]) < MaxLen
    /\ vin' = IF Verdict[x] = "insane" THEN vin
              ELSE [vin EXCEPT ![tx[p]] = Append(@, x)]
    /\ inputs' = IF Verdict[x] = "ok"
                 THEN [inputs EXCEPT ![p] = Append(@, x)] ELSE inputs
    /\ UNCHANGED <<vout, cached, tx, outputs>>

\* add_output: vout is put back when _check_sanity raises ValueError.
AddOutput(p, y) ==
    /\ p \in Live
    /\ Consistent(p)
    /\ Len(outputs[p]) < MaxLen
    /\ Verdict[y] = "ok"
    /\ vout' = [vout EXCEPT ![tx[p]] = Append(@, y)]
    /\ outputs' = [outputs EXCEPT ![p] = Append(@, y)]
    /\ UNCHANGED <<vin, cached, tx, inputs>>

\* Mutant of GetHash: only the inputs are hashed.
GetHashOfInputs(t) ==
    /\ t \notin Mutable
    /\ cached[t] = NoTx
    /\ cached' = [cached EXCEPT ![t] = vin[t]]
    /\ UNCHANGED <<vin, vout, tx, inputs, outputs>>

\* t.GetHash() or hash(t).
GetHash(t) ==
    /\ t \notin Mutable
    /\ cached[t] = NoTx
    /\ cached' = [cached EXCEPT ![t] = Contents(t)]
    /\ UNCHANGED <<vin, vout, tx, inputs, outputs>>

\* The PSBT object is dropped.
Drop(p) ==
    /\ p \in Live
    /\ Become(p, NoTx, <<>>, <<>>)
    /\ UNCHANGED <<vin, vout, cached>>

AssemblyNext ==
    \/ \E p \in Psbts :
        \/ \E t \in Txs : Construct(p, t)
        \/ \E q \in Psbts : CloneParts(p, q)
        \/ \E q \in Psbts : MergeParts(p, q)
        \/ \E q \in Psbts, t \in Txs : Reread(p, q, t)
        \/ \E x \in TxIns : AddInput(p, x)
        \/ \E y \in TxOuts : AddOutput(p, y)
        \/ Drop(p)
    \/ \E t \in Txs : GetHash(t)

AssemblySpec == AssemblyInit /\ [][AssemblyNext]_assemblyVars

-----------------------------------------------------------------------------
(* Properties                                                               *)

\* A PSBT that _check_consistency accepts has the inputs and outputs of its
\* transaction, one for one and in order.  It only compares lengths
\* (psbt.py:2243-2248): that is enough for whatever other PSBTs do to the
\* transaction they share, and for whatever additions are refused.
LengthsTell ==
    \A p \in Live : Consistent(p) =>
        inputs[p] = vin[tx[p]] /\ outputs[p] = vout[tx[p]]

\* The assertions of _check_consistency, "inputs length must match
\* unsigned_tx.vin" and "outputs length must match unsigned_tx.vout"
\* (psbt.py:2243-2248): every PSBT has one entry per input and output of its
\* transaction.
PartsMatch == \A p \in Live : Consistent(p)

\* GetHash() of an immutable transaction is the hash of what it holds
\* (serialize.py, ImmutableSerializable, computes it once).
HashIsOfContents == \A t \in Txs : cached[t] \in {NoTx, Contents(t)}

=============================================================================
