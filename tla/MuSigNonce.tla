----------------------------- MODULE MuSigNonce -----------------------------
(***************************************************************************)
(* The life of a MuSig2 secret nonce: bitcointx/core/musig.py, nonce_gen,   *)
(* class SecNonce and sign_partial, with the threads that call them.        *)
(*                                                                          *)
(* A secret is a pair of the randomness it was drawn from and the public    *)
(* key it is bound to (nonce_gen's derivation is a function of these).      *)
(* A SecNonce object is one of the slots Nonces; its slot is free again     *)
(* once the object is collected (__del__).  The buffer of a caller's        *)
(* bytearray `rand` is one of Bufs: nonce_gen reads it and wipes it.        *)
(*                                                                          *)
(* Every step of a call between two points at which another thread may run  *)
(* (the lock, the native calls, which release the GIL, and the blocks of    *)
(* the try statements) is an action.  An asynchronous exception (a signal   *)
(* handler that raises in the main thread) may arrive at any of these       *)
(* points: Interrupt.                                                       *)
(***************************************************************************)
EXTENDS Naturals, FiniteSets

CONSTANTS
    Threads,        \* the caller threads
    Interruptible,  \* those a signal handler may raise in (the main thread)
    Keys,           \* signing keys; a key also stands for its public key
    Sessions,       \* the Session objects that get_session has returned
    Participants,   \* the public keys each session was created with
    Nonces,         \* SecNonce objects
    Rands,          \* values of 32 random bytes
    Bufs,           \* bytearray objects that callers pass as `rand`
    None, Zero      \* no value; an all-zero buffer

ASSUME ThreadsAssumption == None \notin Threads /\ Interruptible \subseteq Threads
ASSUME SessionsAssumption ==
    None \notin Sessions /\ Participants \in [Sessions -> SUBSET Keys]
ASSUME RandsAssumption == None \notin Rands /\ Zero \notin Rands /\ None # Zero
ASSUME KeysAssumption == None \notin Keys
ASSUME BufsAssumption == None \notin Bufs

Secrets == [rand : Rands, key : Keys]

ASSUME SecretsAssumption == None \notin Secrets /\ Zero \notin Secrets

VARIABLES
    secbuf,     \* SecNonce.__buffer: a secret, or Zero
    bound,      \* SecNonce.__pubkey, None while the slot holds no object
    used,       \* SecNonce.__used
    lock,       \* the holder of SecNonce.__lock
    buf,        \* the contents of the callers' bytearrays
    pc,         \* where each thread is in its call
    call,       \* the arguments of that call
    seed,       \* nonce_gen's `seed` when it is not the caller's bytearray
    psig,       \* the secret in the call's local: partial_sig, or secnonce
    drawn,      \* history: random values drawn so far
    minted,     \* history: secrets that have been in a SecNonce
    issued,     \* history: partial signatures returned to a caller
    unwiped     \* history: SecNonce slots whose `finally` was interrupted

vars == <<secbuf, bound, used, lock, buf, pc, call, seed, psig,
          drawn, minted, issued, unwiped>>

Calls == [nonce : Nonces, key : Keys, session : Sessions \cup {None},
          src : Bufs \cup {None}]

SignPoints == {"lock", "check", "mark", "bind", "native", "clear", "serialize",
               "wipe", "release"}
GenPoints == {"g_check", "g_native", "g_serialize", "g_wipe"}
InTry == {"bind", "native", "clear", "serialize"}

PartialSigs == [secret : Secrets, key : Keys, session : Sessions]

TypeOK ==
    /\ secbuf \in [Nonces -> Secrets \cup {Zero}]
    /\ bound \in [Nonces -> Keys \cup {None}]
    /\ used \in [Nonces -> BOOLEAN]
    /\ lock \in [Nonces -> Threads \cup {None}]
    /\ buf \in [Bufs -> Rands \cup {Zero}]
    /\ pc \in [Threads -> {"idle"} \cup SignPoints \cup GenPoints]
    /\ call \in [Threads -> Calls \cup {None}]
    /\ seed \in [Threads -> Rands \cup {None}]
    /\ psig \in [Threads -> Secrets \cup {None}]
    /\ drawn \subseteq Rands
    /\ minted \subseteq Secrets
    /\ issued \subseteq PartialSigs
    /\ unwiped \subseteq Nonces

Init ==
    /\ secbuf = [n \in Nonces |-> Zero]
    /\ bound = [n \in Nonces |-> None]
    /\ used = [n \in Nonces |-> FALSE]
    /\ lock = [n \in Nonces |-> None]
    /\ buf = [b \in Bufs |-> Zero]
    /\ pc = [t \in Threads |-> "idle"]
    /\ call = [t \in Threads |-> None]
    /\ seed = [t \in Threads |-> None]
    /\ psig = [t \in Threads |-> None]
    /\ drawn = {}
    /\ minted = {}
    /\ issued = {}
    /\ unwiped = {}

Goto(t, p) == pc' = [pc EXCEPT ![t] = p]

nonceVars == <<secbuf, bound, used, lock>>
genVars == <<buf, seed, drawn, minted>>

-----------------------------------------------------------------------------
(* nonce_gen                                                                *)

\* The slots and bytearrays that a nonce_gen in progress is using.
Generating(t) == pc[t] \in GenPoints
SlotFree(n) == bound[n] = None /\ \A t \in Threads : Generating(t) => call[t].nonce # n
BufFree(b) == \A t \in Threads : Generating(t) => call[t].src # b

\* A caller fills its bytearray with fresh random bytes.  The documentation
\* asks that the bytes be unique and that no call in progress shares them.
FillBuf(b) ==
    /\ BufFree(b)
    /\ \E r \in Rands \ drawn :
        /\ buf' = [buf EXCEPT ![b] = r]
        /\ drawn' = drawn \cup {r}
    /\ UNCHANGED <<nonceVars, pc, call, seed, psig, minted, issued, unwiped>>

\* nonce_gen(k, rand): src = None stands for rand=None and for bytes, which
\* the caller must not use twice.
GenCall(t, n, k, src) ==
    /\ pc[t] = "idle"
    /\ SlotFree(n)
    /\ src # None => BufFree(src)
    /\ call' = [call EXCEPT ![t] =
                   [nonce |-> n, key |-> k, session |-> None, src |-> src]]
    /\ Goto(t, "g_check")
    /\ UNCHANGED <<nonceVars, genVars, psig, issued, unwiped>>

\* An argument is refused: `seed` is still None, so nothing is wiped.
GenReject(t) ==
    /\ pc[t] = "g_check"
    /\ Goto(t, "idle")
    /\ call' = [call EXCEPT ![t] = None]
    /\ UNCHANGED <<nonceVars, genVars, psig, issued, unwiped>>

\* The seed is the caller's own bytearray, or a copy of fresh bytes.
GenSeed(t) ==
    /\ pc[t] = "g_check"
    /\ IF call[t].src = None
       THEN \E r \in Rands \ drawn :
              /\ seed' = [seed EXCEPT ![t] = r]
              /\ drawn' = drawn \cup {r}
       ELSE UNCHANGED <<seed, drawn>>
    /\ Goto(t, "g_native")
    /\ UNCHANGED <<nonceVars, buf, call, psig, minted, issued, unwiped>>

SeedOf(t) == IF call[t].src = None THEN seed[t] ELSE buf[call[t].src]

\* secp256k1_musig_nonce_gen succeeds only on a non-zero seed.
GenNative(t) ==
    /\ pc[t] = "g_native"
    /\ SeedOf(t) # Zero
    /\ psig' = [psig EXCEPT ![t] = [rand |-> SeedOf(t), key |-> call[t].key]]
    /\ Goto(t, "g_serialize")
    /\ UNCHANGED <<nonceVars, genVars, call, issued, unwiped>>

\* An allocation or a native call fails: the finally block runs, and it
\* clears the secnonce buffer because `success` is False.
GenFail(t) ==
    /\ pc[t] \in {"g_native", "g_serialize"}
    /\ psig' = [psig EXCEPT ![t] = None]
    /\ Goto(t, "g_wipe")
    /\ UNCHANGED <<nonceVars, genVars, call, issued, unwiped>>

GenSerialize(t) ==
    /\ pc[t] = "g_serialize"
    /\ Goto(t, "g_wipe")
    /\ UNCHANGED <<nonceVars, genVars, call, psig, issued, unwiped>>

\* Mutant of WipeSeed: the caller's bytearray is copied, and only the copy wiped.
WipeSeedCopyOnly(t) ==
    /\ seed' = [seed EXCEPT ![t] = None]
    /\ buf' = buf

WipeSeed(t) ==
    /\ seed' = [seed EXCEPT ![t] = None]
    /\ buf' = IF call[t].src = None THEN buf
              ELSE [buf EXCEPT ![call[t].src] = Zero]

\* The finally block, then the return: the caller owns a new SecNonce.
GenFinish(t) ==
    /\ pc[t] = "g_wipe"
    /\ WipeSeed(t)
    /\ IF psig[t] = None THEN UNCHANGED <<nonceVars, minted, unwiped>>
       ELSE LET n == call[t].nonce IN
            /\ secbuf' = [secbuf EXCEPT ![n] = psig[t]]
            /\ bound' = [bound EXCEPT ![n] = call[t].key]
            /\ used' = [used EXCEPT ![n] = FALSE]
            /\ minted' = minted \cup {psig[t]}
            /\ unwiped' = unwiped \ {n}
            /\ UNCHANGED lock
    /\ psig' = [psig EXCEPT ![t] = None]
    /\ call' = [call EXCEPT ![t] = None]
    /\ Goto(t, "idle")
    /\ UNCHANGED <<drawn, issued>>

-----------------------------------------------------------------------------
(* sign_partial and SecNonce._sign                                          *)

SignCall(t, n, k, s) ==
    /\ pc[t] = "idle"
    /\ bound[n] # None
    /\ call' = [call EXCEPT ![t] =
                   [nonce |-> n, key |-> k, session |-> s, src |-> None]]
    /\ Goto(t, "lock")
    /\ UNCHANGED <<nonceVars, genVars, psig, issued, unwiped>>

\* Mutant of Acquire: _sign without its lock.
AcquireNoLock(t) ==
    /\ pc[t] = "lock"
    /\ lock' = [lock EXCEPT ![call[t].nonce] = t]
    /\ Goto(t, "check")
    /\ UNCHANGED <<secbuf, bound, used, genVars, call, psig, issued, unwiped>>

Acquire(t) ==
    /\ pc[t] = "lock"
    /\ lock[call[t].nonce] = None
    /\ lock' = [lock EXCEPT ![call[t].nonce] = t]
    /\ Goto(t, "check")
    /\ UNCHANGED <<secbuf, bound, used, genVars, call, psig, issued, unwiped>>

\* Mutant of RefuseUsed: acquire() and release() in place of the with
\* statement, and no release before this raise.
RefuseUsedKeepLock(t) ==
    /\ pc[t] = "check"
    /\ used[call[t].nonce]
    /\ Goto(t, "idle")
    /\ call' = [call EXCEPT ![t] = None]
    /\ UNCHANGED <<nonceVars, genVars, psig, issued, unwiped>>

\* "MuSig2 secret nonce has already been consumed", raised before the try.
RefuseUsed(t) ==
    /\ pc[t] = "check"
    /\ used[call[t].nonce]
    /\ Goto(t, "release")
    /\ UNCHANGED <<nonceVars, genVars, call, psig, issued, unwiped>>

FindUnused(t) ==
    /\ pc[t] = "check"
    /\ ~used[call[t].nonce]
    /\ Goto(t, "mark")
    /\ UNCHANGED <<nonceVars, genVars, call, psig, issued, unwiped>>

MarkUsed(t) ==
    /\ pc[t] = "mark"
    /\ used' = [used EXCEPT ![call[t].nonce] = TRUE]
    /\ Goto(t, "bind")
    /\ UNCHANGED <<secbuf, bound, lock, genVars, call, psig, issued, unwiped>>

\* Mutant of CheckBinding: the participants of the session are not consulted.
CheckKeyOnly(t) ==
    /\ pc[t] = "bind"
    /\ call[t].key = bound[call[t].nonce]
    /\ Goto(t, "native")
    /\ UNCHANGED <<nonceVars, genVars, call, psig, issued, unwiped>>

\* The private key is the nonce's and belongs to a participant.
CheckBinding(t) ==
    /\ pc[t] = "bind"
    /\ call[t].key = bound[call[t].nonce]
    /\ call[t].key \in Participants[call[t].session]
    /\ Goto(t, "native")
    /\ UNCHANGED <<nonceVars, genVars, call, psig, issued, unwiped>>

\* Any check or native call of the try block fails: no MuSig support, not a
\* Session, an invalid scalar, the wrong key, an allocation, partial_sign.
SignFail(t) ==
    /\ pc[t] \in InTry
    /\ psig' = [psig EXCEPT ![t] = None]
    /\ Goto(t, "wipe")
    /\ UNCHANGED <<nonceVars, genVars, call, issued, unwiped>>

\* secp256k1_musig_partial_sign reads the secret nonce (it refuses a zeroed
\* one) ...
NativeLoad(t) ==
    /\ pc[t] = "native"
    /\ secbuf[call[t].nonce] # Zero
    /\ psig' = [psig EXCEPT ![t] = secbuf[call[t].nonce]]
    /\ Goto(t, "clear")
    /\ UNCHANGED <<nonceVars, genVars, call, issued, unwiped>>

\* ... and clears the caller's copy before it returns.
NativeClear(t) ==
    /\ pc[t] = "clear"
    /\ secbuf' = [secbuf EXCEPT ![call[t].nonce] = Zero]
    /\ Goto(t, "serialize")
    /\ UNCHANGED <<bound, used, lock, genVars, call, psig, issued, unwiped>>

Serialize(t) ==
    /\ pc[t] = "serialize"
    /\ Goto(t, "wipe")
    /\ UNCHANGED <<nonceVars, genVars, call, psig, issued, unwiped>>

\* Mutant of Wipe: the buffer is wiped after a successful signature only.
WipeOnSuccess(t) ==
    /\ pc[t] = "wipe"
    /\ secbuf' = IF psig[t] = None THEN secbuf
                 ELSE [secbuf EXCEPT ![call[t].nonce] = Zero]
    /\ Goto(t, "release")
    /\ UNCHANGED <<bound, used, lock, genVars, call, psig, issued, unwiped>>

\* The finally block of _sign.
Wipe(t) ==
    /\ pc[t] = "wipe"
    /\ secbuf' = [secbuf EXCEPT ![call[t].nonce] = Zero]
    /\ Goto(t, "release")
    /\ UNCHANGED <<bound, used, lock, genVars, call, psig, issued, unwiped>>

\* Mutant of Release: a failed attempt returns the empty buffer.
ReleaseAnything(t) ==
    /\ pc[t] = "release"
    /\ lock' = [lock EXCEPT ![call[t].nonce] = None]
    /\ issued' = issued \cup {[secret |-> psig[t], key |-> call[t].key,
                               session |-> call[t].session]}
    /\ psig' = [psig EXCEPT ![t] = None]
    /\ call' = [call EXCEPT ![t] = None]
    /\ Goto(t, "idle")
    /\ UNCHANGED <<secbuf, bound, used, genVars, unwiped>>

\* The with statement ends and the signature, if any, is returned.
Release(t) ==
    /\ pc[t] = "release"
    /\ lock' = [lock EXCEPT ![call[t].nonce] = None]
    /\ issued' = IF psig[t] = None THEN issued
                 ELSE issued \cup {[secret |-> psig[t], key |-> call[t].key,
                                    session |-> call[t].session]}
    /\ psig' = [psig EXCEPT ![t] = None]
    /\ call' = [call EXCEPT ![t] = None]
    /\ Goto(t, "idle")
    /\ UNCHANGED <<secbuf, bound, used, genVars, unwiped>>

-----------------------------------------------------------------------------
(* Asynchronous exceptions and collection                                   *)

\* An exception raised by a signal handler.  Between the assignment of __used
\* and the try ("bind" stands for both), and inside the finally block, it
\* leaves without wiping; elsewhere in the try the finally block runs.  A
\* thread that waits for the lock gives up waiting.
InterruptSign(t) ==
    /\ t \in Interruptible
    /\ \/ /\ pc[t] = "lock"
          /\ Goto(t, "idle")
          /\ call' = [call EXCEPT ![t] = None]
          /\ UNCHANGED unwiped
       \/ /\ pc[t] \in InTry
          /\ Goto(t, "wipe")
          /\ UNCHANGED <<call, unwiped>>
       \/ /\ pc[t] \in {"check", "mark", "bind", "wipe", "release"}
          /\ Goto(t, "release")
          /\ unwiped' = IF pc[t] \in {"bind", "wipe"}
                        THEN unwiped \cup {call[t].nonce} ELSE unwiped
          /\ UNCHANGED call
    /\ psig' = [psig EXCEPT ![t] = None]
    /\ UNCHANGED <<nonceVars, genVars, issued>>

\* In nonce_gen's finally block the seed may stay behind, but the exception
\* replaces the return: the SecNonce is dropped and wipes itself.
InterruptGen(t) ==
    /\ t \in Interruptible
    /\ \/ /\ pc[t] \in {"g_native", "g_serialize"}
          /\ Goto(t, "g_wipe")
          /\ UNCHANGED <<call, seed>>
       \/ /\ pc[t] = "g_wipe"
          /\ Goto(t, "idle")
          /\ call' = [call EXCEPT ![t] = None]
          /\ seed' = [seed EXCEPT ![t] = None]
    /\ psig' = [psig EXCEPT ![t] = None]
    /\ UNCHANGED <<nonceVars, buf, drawn, minted, issued, unwiped>>

\* SecNonce.__del__: no call holds the object any more.
Collect(n) ==
    /\ bound[n] # None
    /\ \A t \in Threads : pc[t] # "idle" => call[t].nonce # n
    /\ secbuf' = [secbuf EXCEPT ![n] = Zero]
    /\ bound' = [bound EXCEPT ![n] = None]
    /\ used' = [used EXCEPT ![n] = FALSE]
    /\ unwiped' = unwiped \ {n}
    /\ UNCHANGED <<lock, genVars, pc, call, psig, issued>>

-----------------------------------------------------------------------------
\* What a thread in a call does next, whatever the outcome.
Step(t) ==
    \/ GenReject(t) \/ GenSeed(t) \/ GenNative(t) \/ GenFail(t)
    \/ GenSerialize(t) \/ GenFinish(t)
    \/ Acquire(t) \/ RefuseUsed(t) \/ FindUnused(t) \/ MarkUsed(t)
    \/ CheckBinding(t) \/ SignFail(t) \/ NativeLoad(t) \/ NativeClear(t) \/ Serialize(t)
    \/ Wipe(t) \/ Release(t)

Next ==
    \/ \E b \in Bufs : FillBuf(b)
    \/ \E n \in Nonces : Collect(n)
    \/ \E t \in Threads :
        \/ \E n \in Nonces, k \in Keys, src \in Bufs \cup {None} :
              GenCall(t, n, k, src)
        \/ \E n \in Nonces, k \in Keys, s \in Sessions : SignCall(t, n, k, s)
        \/ Step(t)
        \/ InterruptSign(t)
        \/ InterruptGen(t)

Spec == Init /\ [][Next]_vars

\* A thread in the middle of a call is eventually scheduled.  Nothing is
\* assumed of the callers, of signals, or of the order in which the lock is
\* granted to the threads that wait for it.
FairSpec == Spec /\ \A t \in Threads : WF_vars(Step(t))

-----------------------------------------------------------------------------
(* Properties                                                               *)

\* One secret nonce never signs twice: two partial signatures that were
\* returned and were made with the same secret are the same signature.  (Two
\* signatures with one nonce in two sessions reveal the private key.)
NoSecretReuse ==
    \A p, q \in issued : p.secret = q.secret => p = q

\* A partial signature is only ever made with the key its nonce was generated
\* for, and only for a session which that key takes part in.
SignedByBoundParticipant ==
    \A p \in issued :
        /\ p.key = p.secret.key
        /\ p.key \in Participants[p.session]

\* Once an attempt to sign is over the secret is gone from memory, whether or
\* not the attempt succeeded, unless a signal cut the wiping itself short.
WipedAfterAttempt ==
    \A n \in Nonces :
        used[n] /\ lock[n] = None /\ n \notin unwiped => secbuf[n] = Zero

\* The randomness of a live secret nonce does not survive in a bytearray that
\* a caller could pass to nonce_gen again.
SeedNotLeftBehind ==
    \A n \in Nonces, b \in Bufs :
        secbuf[n] # Zero /\ BufFree(b) => buf[b] # secbuf[n].rand

\* The lock of a nonce is released on every path out of _sign, exceptions
\* included: no signer waits for ever on a nonce that was refused.
LockReleased ==
    \A n \in Nonces : lock[n] # None ~> lock[n] = None

-----------------------------------------------------------------------------
(* The inductive invariant: why the safety properties hold.                 *)

\* The points of _sign inside the with statement.
Held == SignPoints \ {"lock"}

\* What is known of a call from the point it has reached.
CallInv ==
    \A t \in Threads :
        /\ pc[t] # "idle" => call[t] \in Calls
        /\ Generating(t) => bound[call[t].nonce] = None
        /\ pc[t] \in {"g_native", "g_serialize"} =>
               call[t].src # None \/ seed[t] \in Rands
        /\ pc[t] \in SignPoints =>
               call[t].session \in Sessions /\ bound[call[t].nonce] \in Keys
        /\ psig[t] # None =>
               pc[t] \in {"g_serialize", "g_wipe", "clear", "serialize", "wipe", "release"}

\* The lock of a nonce is held by the one thread inside its with statement,
\* and calls to nonce_gen in progress share neither slot nor bytearray.
ExclusionInv ==
    /\ \A t \in Threads, n \in Nonces :
           lock[n] = t <=> pc[t] \in Held /\ call[t].nonce = n
    /\ \A t, u \in Threads :
           t # u /\ Generating(t) /\ Generating(u) =>
               /\ call[t].nonce # call[u].nonce
               /\ call[t].src = call[u].src => call[t].src = None

\* Key and session of a secret, wherever it is.
BindingInv ==
    /\ \A n \in Nonces : secbuf[n] # Zero => bound[n] = secbuf[n].key
    /\ \A t \in Threads :
           /\ pc[t] \in {"native", "clear"} =>
                  /\ call[t].key = bound[call[t].nonce]
                  /\ call[t].key \in Participants[call[t].session]
           /\ psig[t] # None =>
                  /\ psig[t].key = call[t].key
                  /\ pc[t] \in SignPoints =>
                        call[t].key \in Participants[call[t].session]
    /\ SignedByBoundParticipant

\* Only the attempt in progress can hold a secret that is marked used.
WipeInv ==
    \A n \in Nonces :
        used[n] /\ secbuf[n] # Zero /\ n \notin unwiped =>
            \E t \in Threads : /\ lock[n] = t
                              /\ pc[t] \in InTry \cup {"wipe"}

\* Every value in sight has been drawn ...
DrawnInv ==
    /\ \A n \in Nonces : secbuf[n] # Zero => secbuf[n].rand \in drawn
    /\ \A t \in Threads : /\ psig[t] # None => psig[t].rand \in drawn
                          /\ seed[t] # None => seed[t] \in drawn
    /\ \A b \in Bufs : buf[b] # Zero => buf[b] \in drawn
    /\ \A p \in issued : p.secret.rand \in drawn

\* ... and is in one place: a SecNonce, a call in progress, the seed of a
\* call, a bytearray, or a signature; or it is being moved from one of these
\* to the next by the call that owns both.
OnePlaceInv ==
    /\ \A n, m \in Nonces :
           n # m /\ secbuf[n] # Zero /\ secbuf[m] # Zero =>
               secbuf[n].rand # secbuf[m].rand
    /\ \A t, u \in Threads :
           /\ t # u /\ psig[t] # None /\ psig[u] # None => psig[t].rand # psig[u].rand
           /\ t # u /\ seed[t] # None => seed[t] # seed[u]
           /\ t # u /\ seed[t] # None /\ psig[u] # None => seed[t] # psig[u].rand
           /\ seed[t] # None /\ psig[t] # None /\ seed[t] = psig[t].rand => Generating(t)
    /\ \A b, c \in Bufs : b # c /\ buf[b] # Zero => buf[b] # buf[c]
    /\ \A n \in Nonces, t \in Threads :
           /\ secbuf[n] # Zero /\ psig[t] # None /\ secbuf[n].rand = psig[t].rand =>
                  pc[t] = "clear" /\ call[t].nonce = n
           /\ secbuf[n] # Zero => seed[t] # secbuf[n].rand
    /\ \A n \in Nonces, b \in Bufs : secbuf[n] # Zero => buf[b] # secbuf[n].rand
    /\ \A t \in Threads, b \in Bufs :
           /\ psig[t] # None /\ buf[b] = psig[t].rand =>
                  Generating(t) /\ call[t].src = b
           /\ seed[t] # None => seed[t] # buf[b]
    /\ \A p \in issued :
           /\ \A n \in Nonces : secbuf[n] # Zero => p.secret.rand # secbuf[n].rand
           /\ \A t \in Threads : /\ psig[t] # None => p.secret.rand # psig[t].rand
                                 /\ p.secret.rand # seed[t]
           /\ \A b \in Bufs : p.secret.rand # buf[b]
    /\ NoSecretReuse

IInv == /\ TypeOK
        /\ CallInv
        /\ ExclusionInv
        /\ BindingInv
        /\ WipeInv
        /\ DrawnInv
        /\ OnePlaceInv

-----------------------------------------------------------------------------
(* SecNonce implements a single-use token, see SingleUse.                   *)

\* The call of thread t is about to sign, or is signing, with secret x.
SignsWith(t, x) ==
    /\ pc[t] \in {"bind", "native", "clear", "serialize", "wipe", "release"}
    /\ \/ psig[t] = x
       \/ /\ pc[t] \in {"bind", "native"}
          /\ secbuf[call[t].nonce] = x

Signing(x) == \E t \in Threads : SignsWith(t, x)

Unspent(x) ==
    \E n \in Nonces : bound[n] # None /\ ~used[n] /\ secbuf[n] = x

StateOf(x) == IF x \notin minted THEN "absent"
              ELSE IF Unspent(x) THEN "live"
              ELSE IF Signing(x) THEN "signing" ELSE "spent"

token == [x \in Secrets |-> StateOf(x)]

Token == INSTANCE SingleUse WITH
    Tokens <- Secrets, Uses <- Keys \X Sessions,
    state <- token,
    uses <- {<<p.secret, <<p.key, p.session>>>> : p \in issued}

\* Whatever the threads, failures and signals do, a secret nonce goes from
\* live to spent once and is used at most once on the way.
ImplementsSingleUse == Token!Spec

\* What the refinement needs beside IInv.  The randomness of a secret that has
\* been in a SecNonce is in no place from which nonce_gen could take it again.
MintedInv ==
    /\ \A x \in minted :
        /\ x.rand \in drawn
        /\ \A t \in Threads :
            /\ seed[t] # x.rand
            /\ Generating(t) /\ psig[t] # None => psig[t].rand # x.rand
        /\ \A b \in Bufs : buf[b] # x.rand
    /\ \A n \in Nonces : secbuf[n] # Zero => secbuf[n] \in minted
    /\ \A t \in Threads :
          psig[t] # None /\ ~Generating(t) => psig[t] \in minted

\* A SecNonce is marked used from before its secret is touched, and not earlier.
UsedInv ==
    \A t \in Threads :
        /\ pc[t] = "mark" => ~used[call[t].nonce]
        /\ pc[t] \in InTry \cup {"wipe"} => used[call[t].nonce]

RInv == IInv /\ MintedInv /\ UsedInv

=============================================================================
