---------------------------- MODULE PSBTSigning ----------------------------
(***************************************************************************)
(* Signing one transaction with several copies of its PSBT:                 *)
(* bitcointx/core/psbt.py, PSBT_Input (set_utxo, merge, sign, is_final),    *)
(* PartiallySignedTransaction (sign, merge, combine, clone, serialize,      *)
(* extract_transaction) and script.py, StandardMultisigSignatureHelper.     *)
(*                                                                          *)
(* The participants hold copies of the PSBT of one unsigned transaction;    *)
(* they sign their copies, hand them on as bytes, merge and combine them.   *)
(* A script or utxo that is present is the right one for its input (wrong   *)
(* ones are refused when the object is made).  `partial_sigs` is an ordered *)
(* dict: a sequence of signatures with distinct public keys.  The final     *)
(* script and witness are represented by the signatures in them.            *)
(***************************************************************************)
EXTENDS Naturals, Sequences, SequencesExt, FiniteSets

CONSTANTS
    Copies,         \* PartiallySignedTransaction objects, same unsigned_tx
    N,              \* inputs of the transaction
    Kinds,          \* the kinds of scriptPubKey that the inputs may spend
    Script,         \* the public keys of each input, in script order
    Threshold,      \* how many of them must sign
    Keys,           \* key pairs
    KeyStores,      \* the sets of keys a signer may have
    Prepared(_),    \* what a copy may hold at first, for each of Kinds
    ForeignSigs,    \* signatures that callers put into partial_sigs
    SigTypes, ALL,  \* supported sighash types, and SIGHASH_ALL
    None,
    MaxBlobs,       \* bound: times an unknown field may be repeated
    MaxForeign      \* bound: signatures put into partial_sigs by callers

Inputs == 1..N

KeyhashKinds == {"p2pkh", "p2wpkh", "p2sh-p2wpkh"}
WitnessKinds == {"p2wpkh", "p2sh-p2wpkh", "p2wsh", "p2sh-p2wsh"}
P2SHKinds == {"p2sh", "p2sh-p2wpkh", "p2sh-p2wsh"}
WitnessScriptKinds == {"p2wsh", "p2sh-p2wsh"}

ASSUME InputsAssumption ==
    /\ N \in Nat \ {0}
    /\ Kinds \subseteq [Inputs -> KeyhashKinds \cup P2SHKinds \cup WitnessScriptKinds]
    /\ Script \in [Inputs -> Seq(Keys)]
    /\ Threshold \in [Inputs -> Nat \ {0}]
    /\ \A i \in Inputs : Threshold[i] <= Len(Script[i])
    \* parse_standard_multisig_redeem_script refuses "duplicate pubkeys in a script"
    /\ \A i \in Inputs : IsInjective(Script[i])
    \* a keyhash is of one key
    /\ \A k \in Kinds, i \in Inputs : k[i] \in KeyhashKinds => Len(Script[i]) = 1

ASSUME BoundsAssumption ==
    MaxBlobs \in Nat /\ MaxForeign \in Nat /\ ALL \in SigTypes /\ None \notin SigTypes

\* A signature: of which key, with which sighash type, does it verify.
Sigs == [pub : Keys, type : SigTypes, good : BOOLEAN]

\* What `utxo` and `witness_utxo` hold: nothing; a CTxOut; a CTransaction and
\* no witness_utxo; a CTransaction with the witness_utxo in it.
Utxos == {"none", "txout", "tx", "both"}

InputData ==
    [utxo : Utxos, rds : BOOLEAN, ws : BOOLEAN, deriv : BOOLEAN,
     sighash : SigTypes \cup {None}, partial : Seq(Sigs), final : Seq(Sigs),
     blobs : 0..MaxBlobs]

VARIABLES
    kind,       \* kind of the scriptPubKey each input spends; never changes
    copies,     \* the inputs of each copy
    foreign     \* how many signatures callers have put in

vars == <<kind, copies, foreign>>

IsKeyhash(i) == kind[i] \in KeyhashKinds
IsWitness(i) == kind[i] \in WitnessKinds
IsP2SH(i) == kind[i] \in P2SHKinds
NeedsWitnessScript(i) == kind[i] \in WitnessScriptKinds

Pubs(sigs) == {sigs[j].pub : j \in DOMAIN sigs}

\* The elements of s that are in T, in the order of s.
Select(s, T) ==
    LET P == {p \in DOMAIN s : s[p] \in T}
        nth(n) == CHOOSE p \in P : Cardinality({q \in P : q <= p}) = n
    IN  [n \in 1..Cardinality(P) |-> s[nth(n)]]

\* A dict has a key once.
DistinctPubs(sigs) == \A j, k \in DOMAIN sigs : sigs[j].pub = sigs[k].pub => j = k

\* The final script has as many signatures as needed, of keys of the script
\* and in their order, each of which verifies.
ValidFinal(f, i) ==
    LET at(j) == CHOOSE p \in DOMAIN Script[i] : Script[i][p] = f[j].pub
    IN  /\ Len(f) = Threshold[i]
        /\ \A j \in DOMAIN f : f[j].good /\ f[j].pub \in ToSet(Script[i])
        /\ \A j, k \in DOMAIN f : j < k => at(j) < at(k)

\* What nobody verifies: final fields that a copy has from the start.
ASSUME PreparedAssumption ==
    /\ ForeignSigs \subseteq Sigs
    /\ \A k \in Kinds : Prepared(k) \subseteq [Inputs -> InputData]
    /\ \A k \in Kinds : \A p \in Prepared(k) : \A i \in Inputs :
           DistinctPubs(p[i].partial) /\ (p[i].final # <<>> => ValidFinal(p[i].final, i))

TypeOK ==
    /\ kind \in Kinds
    /\ copies \in [Copies -> [Inputs -> InputData]]
    /\ \A c \in Copies, i \in Inputs : DistinctPubs(copies[c][i].partial)
    /\ foreign \in 0..MaxForeign

-----------------------------------------------------------------------------
(* PSBT_Input.is_final and PSBT_Input.sign                                  *)

WitnessUtxo(r) == r.utxo \in {"txout", "both"}

NonfinalFields(r) == r.partial # <<>> \/ r.rds \/ r.ws \/ r.deriv

\* is_final raises ValueError for a final input that is not consistent.
FinalError(r, i) ==
    r.final # <<>> /\ (NonfinalFields(r) \/ (IsWitness(i) /\ ~WitnessUtxo(r)))

\* The outcome of sign() on one input: what is left of the input, and the
\* PSBT_InputSignInfo; or None; or ValueError.
Info(r, missing) == [kind |-> "info", rec |-> r, missing |-> missing]
Unsignable(r) == [kind |-> "none", rec |-> r, missing |-> 0]
Error(r) == [kind |-> "error", rec |-> r, missing |-> 0]

Finalized(r, sigs) ==
    [r EXCEPT !.final = sigs, !.partial = <<>>,
              !.rds = FALSE, !.ws = FALSE, !.deriv = FALSE]

\* Mutant of ValidSig: only the sighash type is checked.
ValidTypeOnly(r, sig) == r.sighash = None \/ sig.type = r.sighash

\* validate_partial_sig does not raise.
ValidSig(r, sig) == sig.good /\ (r.sighash = None \/ sig.type = r.sighash)

NewSig(r, pub) ==
    [pub |-> pub, type |-> IF r.sighash = None THEN ALL ELSE r.sighash, good |-> TRUE]

\* _got_single_sig
GotSingleSig(r, sig, finalize) ==
    Info(IF finalize THEN Finalized(r, <<sig>>)
         ELSE IF sig.pub \in Pubs(r.partial) THEN r
         ELSE [r EXCEPT !.partial = Append(@, sig)], 0)

\* The p2pkh and p2wpkh branches: a signature that is there already is used,
\* whether or not the key is at hand.
SignKeyhash(r, i, ks, finalize) ==
    LET pub == Script[i][1] IN
    IF r.partial # <<>>
    THEN IF Len(r.partial) = 1 /\ r.partial[1].pub = pub /\ ValidSig(r, r.partial[1])
         THEN GotSingleSig(r, r.partial[1], finalize)
         ELSE Error(r)
    ELSE IF pub \in ks THEN GotSingleSig(r, NewSig(r, pub), finalize)
         ELSE Info(r, 1)

\* ComplexScriptSignatureHelper.sign: the signatures of partial_sigs that are
\* collected, in their order and until there are enough of them ...
Collected(r, i) == SubSeq(r.partial, 1, IF Len(r.partial) < Threshold[i]
                                        THEN Len(r.partial) ELSE Threshold[i])

\* ... and those that are made with the keys at hand, in script order, for as
\* long as more are needed.
NewSigs(r, i, ks) ==
    LET can == Select(Script[i], ks \ Pubs(Collected(r, i)))
        need == Threshold[i] - Len(Collected(r, i))
    IN  [j \in 1..(IF Len(can) < need THEN Len(can) ELSE need) |-> NewSig(r, can[j])]

\* Mutant of ScriptOrder: signatures in the order they were collected.
CollectionOrder(sigs, i) == sigs

\* standard_multisig_witness_stack has the signatures in script order.
ScriptOrder(sigs, i) ==
    LET signed == Select(Script[i], Pubs(sigs))
    IN  [j \in DOMAIN signed |-> CHOOSE s \in ToSet(sigs) : s.pub = signed[j]]

\* Mutant of Ready: the signatures just made are not stored with the input.
ReadyNotStored(r, i, new, finalize) ==
    IF finalize THEN Finalized(r, ScriptOrder(Collected(r, i) \o new, i)) ELSE r

\* Enough signatures.
Ready(r, i, new, finalize) ==
    IF finalize THEN Finalized(r, ScriptOrder(Collected(r, i) \o new, i))
    ELSE [r EXCEPT !.partial = @ \o new]

\* _maybe_sign_complex_script, after all of partial_sigs has been validated.
\* collect_sig raises ValueError for a key that is not in the script.
SignMultisig(r, i, ks, finalize) ==
    LET new == NewSigs(r, i, ks)
        missing == Threshold[i] - Len(Collected(r, i)) - Len(new)
    IN  IF \/ \E s \in ToSet(r.partial) : ~ValidSig(r, s)
           \/ ~(Pubs(Collected(r, i)) \subseteq ToSet(Script[i]))
        THEN Error(r)
        ELSE IF missing = 0 THEN Info(Ready(r, i, new, finalize), 0)
        ELSE Info([r EXCEPT !.partial = @ \o new], missing)

\* PSBT_Input.sign for an input with witness_utxo ...
SignWitness(r, i, ks, finalize) ==
    IF IsP2SH(i) /\ ~r.rds THEN Unsignable(r)
    ELSE IF ~IsWitness(i) \/ (NeedsWitnessScript(i) /\ ~r.ws) THEN Error(r)
    ELSE IF IsKeyhash(i) THEN SignKeyhash(r, i, ks, finalize)
    ELSE SignMultisig(r, i, ks, finalize)

\* ... and for one with a CTransaction that is not known to be witness (if it
\* is one nevertheless, sign() notices that when it has the redeem script).
SignNonWitness(r, i, ks, finalize) ==
    IF r.ws THEN Error(r)
    ELSE IF IsP2SH(i) /\ ~r.rds THEN Unsignable(r)
    ELSE IF IsWitness(i) THEN Error(r)
    ELSE IF IsKeyhash(i) THEN SignKeyhash(r, i, ks, finalize)
    ELSE SignMultisig(r, i, ks, finalize)

SignInput(r, i, ks, finalize) ==
    IF FinalError(r, i) THEN Error(r)
    ELSE IF r.final # <<>> THEN Info(r, 0)
    ELSE IF r.utxo = "none" THEN Unsignable(r)
    ELSE IF WitnessUtxo(r) THEN SignWitness(r, i, ks, finalize)
    ELSE SignNonWitness(r, i, ks, finalize)

-----------------------------------------------------------------------------
(* PartiallySignedTransaction.sign, _check_sanity, serialize, deserialize   *)

\* sign() works on the inputs in their order and stops at the first that
\* raises; what it did to the inputs before stays.
SignResult(inputs, ks, finalize) ==
    LET out == [i \in Inputs |-> SignInput(inputs[i], i, ks, finalize)]
        reached(i) == \A j \in 1..i : out[j].kind # "error"
        informed(i) == out[i].kind = "info" /\ out[i].missing = 0
    IN  [inputs |-> [i \in Inputs |-> IF reached(i) THEN out[i].rec ELSE inputs[i]],
         ready |-> \A i \in Inputs : informed(i),
         final |-> \A i \in Inputs : informed(i) /\ out[i].rec.final # <<>>]

\* _check_sanity signs with an empty KeyStore: nothing is changed by that.
Sane(inputs) ==
    \A i \in Inputs : SignInput(inputs[i], i, {}, FALSE).kind # "error"

\* Mutant of Wire: WITNESS_UTXO is written beside a full transaction only.
WireNoTxout(inputs) ==
    [i \in Inputs |-> IF inputs[i].utxo = "txout" THEN [inputs[i] EXCEPT !.utxo = "none"]
                      ELSE inputs[i]]

\* Mutant of Wire: the witness script is not written.
WireNoScript(inputs) == [i \in Inputs |-> [inputs[i] EXCEPT !.ws = FALSE]]

\* What serialize() writes of the inputs: a final input goes without its
\* non-final fields (and without its sighash type).
Wire(inputs) ==
    [i \in Inputs |-> IF inputs[i].final = <<>> THEN inputs[i]
                      ELSE [Finalized(inputs[i], inputs[i].final) EXCEPT !.sighash = None]]

\* set_utxo, which deserialize() calls with what it has read: the full
\* transaction is found to hold a witness utxo if the redeem script says so.
Read(inputs) ==
    [i \in Inputs |->
        IF /\ inputs[i].utxo = "tx"
           /\ IsWitness(i)
           /\ IsP2SH(i) => inputs[i].rds \/ inputs[i].ws
        THEN [inputs[i] EXCEPT !.utxo = "both"] ELSE inputs[i]]

\* read_psbt_keymap refuses a key that is there twice.
Readable(wire) == (\A i \in Inputs : wire[i].blobs <= 1) /\ Sane(Read(wire))

-----------------------------------------------------------------------------
(* PSBT_Input.merge and PartiallySignedTransaction.merge                    *)

MergeUtxo(d, s) ==
    IF d = "none" THEN s
    ELSE IF d = "tx" /\ s \in {"txout", "both"} THEN s
    ELSE IF d = "txout" /\ s = "both" THEN s
    ELSE d

\* Mutant of MergeSigs: the signatures of the other copy win.
MergeSigsOther(d, s) ==
    s \o Select(d, {sig \in ToSet(d) : sig.pub \notin Pubs(s)})

\* Mutant of MergeSigs: a signature is there twice.
MergeSigsAll(d, s) == d \o s

MergeSigs(d, s) == d \o Select(s, {sig \in ToSet(s) : sig.pub \notin Pubs(d)})

MergeBlobs(d, s, dup) == IF dup THEN d + s ELSE IF d = 0 THEN s ELSE d

SighashConflict(d, s) ==
    d.sighash # None /\ s.sighash # None /\ d.sighash # s.sighash

\* When the sighash types conflict merge() raises half way: scripts, utxo and
\* signatures have been merged, the final fields and the blobs have not.
MergeInput(d, s, dup) ==
    LET half == [d EXCEPT !.rds = @ \/ s.rds, !.ws = @ \/ s.ws, !.deriv = @ \/ s.deriv,
                          !.utxo = MergeUtxo(@, s.utxo),
                          !.partial = MergeSigs(@, s.partial)]
    IN  IF SighashConflict(d, s) THEN half
        ELSE [half EXCEPT !.sighash = IF @ = None THEN s.sighash ELSE @,
                          !.final = IF @ = <<>> THEN s.final ELSE @,
                          !.blobs = MergeBlobs(@, s.blobs, dup)]

MergeOK(d, s) == \A i \in Inputs : ~SighashConflict(d[i], s[i])

\* The inputs after the one that raises are not reached.
Merged(d, s, dup) ==
    [i \in Inputs |-> IF \E j \in 1..(i - 1) : SighashConflict(d[j], s[j])
                      THEN d[i] ELSE MergeInput(d[i], s[i], dup)]

-----------------------------------------------------------------------------
Init ==
    /\ kind \in Kinds
    /\ copies \in [Copies -> Prepared(kind)]
    /\ foreign = 0

\* psbt.sign(key_store, finalize=...)
Sign(c, ks, finalize) ==
    /\ copies' = [copies EXCEPT ![c] = SignResult(@, ks, finalize).inputs]
    /\ UNCHANGED <<kind, foreign>>

\* extract_transaction() signs with an empty KeyStore, and finalizes what can
\* be finalized even if it then has to raise ValueError.
ExtractTransaction(c) == Sign(c, {}, TRUE)

\* psbt.inputs[i].partial_sigs[pub] = sig, as a caller does that has received
\* a signature in some other way.
PutPartialSig(c, i, sig) ==
    /\ foreign < MaxForeign
    /\ copies[c][i].final = <<>>
    /\ sig.pub \notin Pubs(copies[c][i].partial)
    /\ copies' = [copies EXCEPT ![c][i].partial = Append(@, sig)]
    /\ foreign' = foreign + 1
    /\ UNCHANGED kind

\* c.merge(d, allow_blob_duplicates=dup).  (Merging an object into itself with
\* dup never ends if it has an unknown field: nobody does it.)
Merge(c, d, dup) ==
    /\ c # d
    /\ \A i \in Inputs : dup => copies[c][i].blobs + copies[d][i].blobs <= MaxBlobs
    /\ copies' = [copies EXCEPT ![c] = Merged(@, copies[d], dup)]
    /\ UNCHANGED <<kind, foreign>>

\* c = a.combine(b): a clone of a, merged with b; there is no new object if
\* the merge raises.
Combine(a, b, c) ==
    /\ MergeOK(copies[a], copies[b])
    /\ \A i \in Inputs : copies[a][i].blobs + copies[b][i].blobs <= MaxBlobs
    /\ copies' = [copies EXCEPT ![c] = Merged(copies[a], copies[b], TRUE)]
    /\ UNCHANGED <<kind, foreign>>

\* c = a.clone(): an empty PSBT that a is merged into.
Clone(a, c) ==
    /\ copies' = [copies EXCEPT ![c] = copies[a]]
    /\ UNCHANGED <<kind, foreign>>

\* c = PartiallySignedTransaction.deserialize(a.serialize()): serialize raises
\* if a is not sane, deserialize if it cannot read what was written.
Transfer(a, c) ==
    /\ Sane(copies[a])
    /\ Readable(Wire(copies[a]))
    /\ copies' = [copies EXCEPT ![c] = Read(Wire(copies[a]))]
    /\ UNCHANGED <<kind, foreign>>

Next ==
    \E c \in Copies :
        \/ \E ks \in KeyStores, finalize \in BOOLEAN : Sign(c, ks, finalize)
        \/ ExtractTransaction(c)
        \/ \E i \in Inputs, sig \in ForeignSigs : PutPartialSig(c, i, sig)
        \/ \E d \in Copies, dup \in BOOLEAN : Merge(c, d, dup)
        \/ \E a, b \in Copies : Combine(a, b, c)
        \/ \E a \in Copies : Clone(a, c)
        \/ \E a \in Copies : Transfer(a, c)

Spec == Init /\ [][Next]_vars

-----------------------------------------------------------------------------
(* Properties                                                               *)

\* A final input has the signatures its script asks for: as many as needed, of
\* its own keys and in their order, each of which verifies - whatever was put
\* into partial_sigs, merged, or received (release-notes.md: "Verify existing
\* PSBT partial signatures before finalizing").
FinalIsValid ==
    \A c \in Copies, i \in Inputs :
        copies[c][i].final # <<>> => ValidFinal(copies[c][i].final, i)

\* Calls of a copy's own methods that change it.
InPlace(c) ==
    \/ \E ks \in KeyStores, finalize \in BOOLEAN : Sign(c, ks, finalize)
    \/ ExtractTransaction(c)
    \/ \E d \in Copies, dup \in BOOLEAN : Merge(c, d, dup)

\* No method loses or replaces a signature, not even one that raises half way:
\* a partial signature stays until its input is final, and then the final
\* fields stay.
SigsKept ==
    [][\A c \in Copies :
          \/ \A i \in Inputs :
                LET r == copies[c][i]
                    n == copies'[c][i]
                IN  IF r.final # <<>> THEN n.final = r.final
                    ELSE n.final # <<>> \/ ToSet(r.partial) \subseteq ToSet(n.partial)
          \/ ~InPlace(c)]_vars

\* Of a PSBT that sign(finalize=False) reports to be ready, the transaction
\* can be extracted without any key (tests/test_psbt.py, test_flow: "Because
\* all inputs should be already signed, we can pass empty keystore").
ReadyCanBeFinalized ==
    \A c \in Copies, ks \in KeyStores :
        LET signed == SignResult(copies[c], ks, FALSE)
        IN  signed.ready => SignResult(signed.inputs, {}, TRUE).final

\* A PSBT that its holder can finalize can be read and finalized by whoever
\* receives it (provided no unknown field is in it twice).
TransferKeepsReady ==
    \A c \in Copies :
        LET wire == Wire(copies[c])
        IN  /\ SignResult(copies[c], {}, TRUE).final
            /\ \A i \in Inputs : wire[i].blobs <= 1
            => Readable(wire) /\ SignResult(Read(wire), {}, TRUE).final

\* A final input has no non-final fields (_check_nonfinal_fields_empty raises
\* "non-final fields ... is present in finalized PSBT_Input").
FinalHasNoNonfinalFields ==
    \A c \in Copies, i \in Inputs :
        copies[c][i].final # <<>> => ~NonfinalFields(copies[c][i])

\* What serialize() writes deserialize() reads (tests/test_psbt.py, test_clone:
\* deserialize(psbt.serialize()).serialize() equals psbt.serialize()).
SerializedIsReadable ==
    \A c \in Copies : Sane(copies[c]) => Readable(Wire(copies[c]))

\* A segwit input that has its utxo and its scripts has `witness_utxo` set
\* (release-notes.md: "It will be None for non-segwit input, and CTxOut
\* instance for segwit input").
SegwitHasWitnessUtxo ==
    \A c \in Copies, i \in Inputs :
        LET r == copies[c][i]
        IN  /\ IsWitness(i) /\ r.utxo # "none"
            /\ IsP2SH(i) => r.rds
            /\ NeedsWitnessScript(i) => r.ws
            => WitnessUtxo(r)

=============================================================================
