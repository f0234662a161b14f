------------------------------ MODULE SingleUse ------------------------------
(***************************************************************************)
(* What bitcointx/core/musig.py promises of a secret nonce ("A single-use   *)
(* native MuSig2 secret nonce", class SecNonce; "irrevocably consume        *)
(* secnonce", sign_partial): a token that comes to life once and serves     *)
(* for at most one use, and that an attempt to use it consumes even if the  *)
(* attempt fails.                                                           *)
(***************************************************************************)
CONSTANTS Tokens, Uses

VARIABLES
    state,      \* state[x]: "absent", "live", "signing" or "spent"
    uses        \* the <<token, use>> pairs so far

vars == <<state, uses>>

TokenInit ==
    /\ state = [x \in Tokens |-> "absent"]
    /\ uses = {}

Move(x, from, to) ==
    /\ state[x] = from
    /\ state' = [state EXCEPT ![x] = to]

Create(x) == Move(x, "absent", "live") /\ UNCHANGED uses

Begin(x) == Move(x, "live", "signing") /\ UNCHANGED uses

\* The attempt ends, with the use or without.
Finish(x) ==
    /\ Move(x, "signing", "spent")
    /\ \/ UNCHANGED uses
       \/ \E u \in Uses : uses' = uses \cup {<<x, u>>}

\* The owner drops a token it has not used.
Discard(x) == Move(x, "live", "spent") /\ UNCHANGED uses

TokenNext ==
    \E x \in Tokens : Create(x) \/ Begin(x) \/ Finish(x) \/ Discard(x)

Spec == TokenInit /\ [][TokenNext]_vars

=============================================================================
