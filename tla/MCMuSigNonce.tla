---------------------------- MODULE MCMuSigNonce ----------------------------
(* Model values and the participants of the sessions for MuSigNonce.        *)
EXTENDS MuSigNonce, TLC

CONSTANTS t1, t2, k1, k2, s1, s2, n1, n2

MCThreads == {t1, t2}
MCInterruptible == {t1}
MCKeys == {k1, k2}
MCSessions == {s1, s2}
TwoNonces == {n1, n2}

\* s1 is a session of both signers, s2 one that k2 is not part of.
MCParticipants == (s1 :> {k1, k2}) @@ (s2 :> {k1})

=============================================================================
