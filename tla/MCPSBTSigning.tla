--------------------------- MODULE MCPSBTSigning ---------------------------
(* A transaction with a 2-of-2 multisig input and a single-key input, and    *)
(* two participants.                                                        *)
EXTENDS PSBTSigning, TLC

CONSTANTS k1, k2, k3, alice, bob

MCCopies == {alice, bob}
SymmetricCopies == Permutations(MCCopies)

MCKeys == {k1, k2, k3}
MCKeyStores == {{k1}, {k2}, {k1, k2}}
MCThreshold == [i \in Inputs |-> IF i = 1 THEN 2 ELSE 1]
MCScript == [i \in Inputs |-> IF i = 1 THEN <<k1, k2>> ELSE <<k1>>]

\* Segwit inputs, p2sh-wrapped; others.
Wrapped == <<"p2sh-p2wsh", "p2sh-p2wpkh">>
Legacy == <<"p2sh", "p2wpkh">>
Both == {Wrapped, Legacy}
WrappedOnly == {Wrapped}

\* A good signature of another sighash type, a bad one, one of a stranger.
MCForeignSigs ==
    {[pub |-> k1, type |-> "NONE", good |-> TRUE],
     [pub |-> k2, type |-> "ALL", good |-> FALSE],
     [pub |-> k3, type |-> "ALL", good |-> TRUE]}

Blank == [utxo |-> "none", rds |-> FALSE, ws |-> FALSE, deriv |-> FALSE,
          sighash |-> None, partial |-> <<>>, final |-> <<>>, blobs |-> 0]

\* What a participant starts from: all but the signatures, with the utxo as an
\* updater that knows the scripts sets it, ...
Updated(k, sighash, blobs) ==
    [i \in Inputs |->
        [Blank EXCEPT !.utxo = IF k[i] \in WitnessKinds THEN "both" ELSE "tx",
                      !.rds = k[i] \in P2SHKinds, !.ws = k[i] \in WitnessScriptKinds,
                      !.sighash = sighash, !.blobs = blobs]]

\* ... or with the bare output for segwit inputs, ...
Lean(k) ==
    [i \in Inputs |-> [Updated(k, None, 0)[i] EXCEPT
                          !.utxo = IF k[i] \in WitnessKinds THEN "txout" ELSE "tx"]]

\* ... the previous transactions alone, ...
TxOnly(k) ==
    [i \in Inputs |-> IF k[i] \in P2SHKinds THEN [Blank EXCEPT !.utxo = "tx"]
                      ELSE Updated(k, None, 0)[i]]

\* ... or the scripts alone.
ScriptsOnly(k) == [i \in Inputs |-> [Updated(k, None, 0)[i] EXCEPT !.utxo = "none"]]

AllPrepared(k) ==
    IF k = Wrapped
    THEN {Updated(k, None, 0), Updated(k, "ALL", 0), TxOnly(k), ScriptsOnly(k)}
    ELSE {Lean(k), Updated(k, "ALL", 1)}
Apart(k) == {TxOnly(k), ScriptsOnly(k)}
Plain(k) == {Updated(k, None, 0)}
WithBlob(k) == {Updated(k, None, 1)}

=============================================================================
