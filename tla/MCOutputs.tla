----------------------------- MODULE MCOutputs -----------------------------
(***************************************************************************)
(* Trees of up to three lists within each other, of up to three scripts    *)
(* each, with two leaf versions, one key of either parity and one that is  *)
(* no key.                                                                 *)
(***************************************************************************)
EXTENDS Outputs

CONSTANTS k1, k2, k3

MCKeys     == {k1, k2}
MCOffCurve == {k3}
MCOdd      == {k2}
MCVersions == {192, 194}

=============================================================================
