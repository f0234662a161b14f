--------------------------- MODULE MCPSBTAssembly ---------------------------
(* Inputs and outputs that can be added, and some that are refused.           *)
EXTENDS PSBTAssembly, TLC

CONSTANTS p1, p2, p3, t1, t2

MCPsbts == {p1, p2, p3}
OnePsbt == {p1}
MCTxs == {t1, t2}
OneMutable == {t2}

AllTxIns == {"in1", "in2", "insane in", "in with bad utxo"}
GoodTxIns == {"in1", "in2", "insane in"}
MCTxOuts == {"out", "insane out"}
MCVerdict ==
    [x \in TxIns \cup TxOuts |->
        CASE x \in {"insane in", "insane out"} -> "insane"
          [] x = "in with bad utxo" -> "bad utxo"
          [] OTHER -> "ok"]
SymmetricPsbts == Permutations(MCPsbts)

=============================================================================
