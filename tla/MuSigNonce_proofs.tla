-------------------------- MODULE MuSigNonce_proofs --------------------------
(* Proofs about MuSigNonce, for any number of threads, keys and sessions.   *)
EXTENDS MuSigNonce, TLAPS

\* Every step keeps the types; CallInv tells which fields of a call are set.
LEMMA TypeStep ==
    ASSUME TypeOK, CallInv, [Next]_vars
    PROVE  TypeOK'
<1> USE SecretsAssumption, RandsAssumption
    DEF TypeOK, CallInv, Goto, nonceVars, genVars, Calls, GenPoints, SignPoints,
        Generating, Secrets, PartialSigs, InTry
<1>1. ASSUME NEW b \in Bufs, FillBuf(b)
      PROVE  TypeOK'
  BY <1>1 DEF FillBuf
<1>2. ASSUME NEW n \in Nonces, Collect(n)
      PROVE  TypeOK'
  BY <1>2 DEF Collect
<1>3. ASSUME NEW t \in Threads, NEW n \in Nonces, NEW k \in Keys,
             NEW src \in Bufs \cup {None}, GenCall(t, n, k, src)
      PROVE  TypeOK'
  BY <1>3 DEF GenCall
<1>4. ASSUME NEW t \in Threads, NEW n \in Nonces, NEW k \in Keys,
             NEW s \in Sessions, SignCall(t, n, k, s)
      PROVE  TypeOK'
  BY <1>4 DEF SignCall
<1>5. ASSUME NEW t \in Threads, GenReject(t)
      PROVE  TypeOK'
  BY <1>5 DEF GenReject
<1>6. ASSUME NEW t \in Threads, GenSeed(t)
      PROVE  TypeOK'
  BY <1>6 DEF GenSeed
<1>7. ASSUME NEW t \in Threads, GenNative(t)
      PROVE  TypeOK'
  BY <1>7 DEF GenNative, SeedOf
<1>8. ASSUME NEW t \in Threads, GenFail(t)
      PROVE  TypeOK'
  BY <1>8 DEF GenFail
<1>9. ASSUME NEW t \in Threads, GenSerialize(t)
      PROVE  TypeOK'
  BY <1>9 DEF GenSerialize
<1>10. ASSUME NEW t \in Threads, GenFinish(t)
      PROVE  TypeOK'
  <2> USE <1>10 DEF GenFinish, WipeSeed
  <2>0. call[t] \in Calls /\ call[t].nonce \in Nonces /\ call[t].key \in Keys
    OBVIOUS
  <2>1. buf' \in [Bufs -> Rands \cup {Zero}] /\ seed' \in [Threads -> Rands \cup {None}]
    BY <2>0
  <2>2. CASE psig[t] = None
    BY <2>1, <2>2
  <2>3. CASE psig[t] # None
    <3>1. psig[t] \in Secrets
      BY <2>3
    <3>2. secbuf' \in [Nonces -> Secrets \cup {Zero}]
      BY <2>0, <2>3, <3>1
    <3>3. bound' \in [Nonces -> Keys \cup {None}]
      BY <2>0, <2>3
    <3>4. used' \in [Nonces -> BOOLEAN] /\ lock' \in [Nonces -> Threads \cup {None}]
      BY <2>0, <2>3
    <3>5. minted' \subseteq Secrets /\ unwiped' \subseteq Nonces
      BY <2>3, <3>1
    <3>6. QED
      BY <2>0, <2>1, <3>2, <3>3, <3>4, <3>5
  <2>4. QED
    BY <2>2, <2>3
<1>11. ASSUME NEW t \in Threads, Acquire(t)
      PROVE  TypeOK'
  BY <1>11 DEF Acquire
<1>12. ASSUME NEW t \in Threads, RefuseUsed(t)
      PROVE  TypeOK'
  BY <1>12 DEF RefuseUsed
<1>13. ASSUME NEW t \in Threads, FindUnused(t)
      PROVE  TypeOK'
  BY <1>13 DEF FindUnused
<1>14. ASSUME NEW t \in Threads, MarkUsed(t)
      PROVE  TypeOK'
  BY <1>14 DEF MarkUsed
<1>15. ASSUME NEW t \in Threads, CheckBinding(t)
      PROVE  TypeOK'
  BY <1>15 DEF CheckBinding
<1>16. ASSUME NEW t \in Threads, SignFail(t)
      PROVE  TypeOK'
  BY <1>16 DEF SignFail
<1>17. ASSUME NEW t \in Threads, NativeLoad(t)
      PROVE  TypeOK'
  BY <1>17 DEF NativeLoad
<1>18. ASSUME NEW t \in Threads, NativeClear(t)
      PROVE  TypeOK'
  BY <1>18 DEF NativeClear
<1>19. ASSUME NEW t \in Threads, Serialize(t)
      PROVE  TypeOK'
  BY <1>19 DEF Serialize
<1>20. ASSUME NEW t \in Threads, Wipe(t)
      PROVE  TypeOK'
  BY <1>20 DEF Wipe
<1>21. ASSUME NEW t \in Threads, Release(t)
      PROVE  TypeOK'
  BY <1>21 DEF Release
<1>22. ASSUME NEW t \in Threads, InterruptSign(t)
      PROVE  TypeOK'
  BY <1>22 DEF InterruptSign
<1>23. ASSUME NEW t \in Threads, InterruptGen(t)
      PROVE  TypeOK'
  BY <1>23 DEF InterruptGen
<1>24. CASE UNCHANGED vars
  BY <1>24 DEF vars
<1>25. QED
  BY <1>1, <1>2, <1>3, <1>4, <1>5, <1>6, <1>7, <1>8, <1>9, <1>10, <1>11,
     <1>12, <1>13, <1>14, <1>15, <1>16, <1>17, <1>18, <1>19, <1>20, <1>21,
     <1>22, <1>23, <1>24
  DEF Next, Step

\* What is known of a call at each point: a slot that a call signs with keeps its
\* object, and nobody but the call itself moves it on.
LEMMA CallStep ==
    ASSUME TypeOK, CallInv, ExclusionInv, [Next]_vars
    PROVE  CallInv'
<1> USE ThreadsAssumption, KeysAssumption
    DEF TypeOK, CallInv, Goto, nonceVars, genVars, Calls, GenPoints, SignPoints,
        Generating, InTry
<1>1. ASSUME NEW b \in Bufs, FillBuf(b)
      PROVE  CallInv'
  BY <1>1 DEF FillBuf
<1>2. ASSUME NEW n \in Nonces, Collect(n)
      PROVE  CallInv'
  BY <1>2 DEF Collect
<1>3. ASSUME NEW t \in Threads, NEW n \in Nonces, NEW k \in Keys,
             NEW src \in Bufs \cup {None}, GenCall(t, n, k, src)
      PROVE  CallInv'
  BY <1>3, BufsAssumption DEF GenCall, SlotFree
<1>4. ASSUME NEW t \in Threads, NEW n \in Nonces, NEW k \in Keys,
             NEW s \in Sessions, SignCall(t, n, k, s)
      PROVE  CallInv'
  BY <1>4 DEF SignCall
<1>5. ASSUME NEW t \in Threads, GenReject(t)
      PROVE  CallInv'
  BY <1>5 DEF GenReject
<1>6. ASSUME NEW t \in Threads, GenSeed(t)
      PROVE  CallInv'
  BY <1>6 DEF GenSeed
<1>7. ASSUME NEW t \in Threads, GenNative(t)
      PROVE  CallInv'
  BY <1>7 DEF GenNative, SeedOf
<1>8. ASSUME NEW t \in Threads, GenFail(t)
      PROVE  CallInv'
  BY <1>8 DEF GenFail
<1>9. ASSUME NEW t \in Threads, GenSerialize(t)
      PROVE  CallInv'
  BY <1>9 DEF GenSerialize
<1>10. ASSUME NEW t \in Threads, GenFinish(t)
      PROVE  CallInv'
  <2> USE <1>10 DEF GenFinish, WipeSeed, ExclusionInv
  <2>1. CASE psig[t] = None
    BY <2>1
  <2>2. CASE psig[t] # None
    BY <2>2
  <2>3. QED
    BY <2>1, <2>2
<1>11. ASSUME NEW t \in Threads, Acquire(t)
      PROVE  CallInv'
  BY <1>11 DEF Acquire
<1>12. ASSUME NEW t \in Threads, RefuseUsed(t)
      PROVE  CallInv'
  BY <1>12 DEF RefuseUsed
<1>13. ASSUME NEW t \in Threads, FindUnused(t)
      PROVE  CallInv'
  BY <1>13 DEF FindUnused
<1>14. ASSUME NEW t \in Threads, MarkUsed(t)
      PROVE  CallInv'
  BY <1>14 DEF MarkUsed
<1>15. ASSUME NEW t \in Threads, CheckBinding(t)
      PROVE  CallInv'
  BY <1>15 DEF CheckBinding
<1>16. ASSUME NEW t \in Threads, SignFail(t)
      PROVE  CallInv'
  BY <1>16 DEF SignFail
<1>17. ASSUME NEW t \in Threads, NativeLoad(t)
      PROVE  CallInv'
  BY <1>17 DEF NativeLoad
<1>18. ASSUME NEW t \in Threads, NativeClear(t)
      PROVE  CallInv'
  BY <1>18 DEF NativeClear
<1>19. ASSUME NEW t \in Threads, Serialize(t)
      PROVE  CallInv'
  BY <1>19 DEF Serialize
<1>20. ASSUME NEW t \in Threads, Wipe(t)
      PROVE  CallInv'
  BY <1>20 DEF Wipe
<1>21. ASSUME NEW t \in Threads, Release(t)
      PROVE  CallInv'
  BY <1>21 DEF Release
<1>22. ASSUME NEW t \in Threads, InterruptSign(t)
      PROVE  CallInv'
  BY <1>22 DEF InterruptSign
<1>23. ASSUME NEW t \in Threads, InterruptGen(t)
      PROVE  CallInv'
  BY <1>23 DEF InterruptGen
<1>24. CASE UNCHANGED vars
  BY <1>24 DEF vars
<1>25. QED
  BY <1>1, <1>2, <1>3, <1>4, <1>5, <1>6, <1>7, <1>8, <1>9, <1>10, <1>11,
     <1>12, <1>13, <1>14, <1>15, <1>16, <1>17, <1>18, <1>19, <1>20, <1>21,
     <1>22, <1>23, <1>24
  DEF Next, Step

\* The with statement: one thread at a time is inside _sign of a nonce, and
\* nonce_gen calls in progress share nothing.
LEMMA ExclusionStep ==
    ASSUME TypeOK, CallInv, ExclusionInv, [Next]_vars
    PROVE  ExclusionInv'
<1> USE ThreadsAssumption
    DEF TypeOK, CallInv, ExclusionInv, Goto, nonceVars, genVars, Calls, GenPoints,
        SignPoints, Held, Generating, InTry
<1>1. ASSUME NEW b \in Bufs, FillBuf(b)
      PROVE  ExclusionInv'
  BY <1>1 DEF FillBuf
<1>2. ASSUME NEW n \in Nonces, Collect(n)
      PROVE  ExclusionInv'
  BY <1>2 DEF Collect
<1>3. ASSUME NEW t \in Threads, NEW n \in Nonces, NEW k \in Keys,
             NEW src \in Bufs \cup {None}, GenCall(t, n, k, src)
      PROVE  ExclusionInv'
  BY <1>3, BufsAssumption DEF GenCall, SlotFree, BufFree
<1>4. ASSUME NEW t \in Threads, NEW n \in Nonces, NEW k \in Keys,
             NEW s \in Sessions, SignCall(t, n, k, s)
      PROVE  ExclusionInv'
  BY <1>4 DEF SignCall
<1>5. ASSUME NEW t \in Threads, GenReject(t)
      PROVE  ExclusionInv'
  BY <1>5 DEF GenReject
<1>6. ASSUME NEW t \in Threads, GenSeed(t)
      PROVE  ExclusionInv'
  BY <1>6 DEF GenSeed
<1>7. ASSUME NEW t \in Threads, GenNative(t)
      PROVE  ExclusionInv'
  BY <1>7 DEF GenNative, SeedOf
<1>8. ASSUME NEW t \in Threads, GenFail(t)
      PROVE  ExclusionInv'
  BY <1>8 DEF GenFail
<1>9. ASSUME NEW t \in Threads, GenSerialize(t)
      PROVE  ExclusionInv'
  BY <1>9 DEF GenSerialize
<1>10. ASSUME NEW t \in Threads, GenFinish(t)
      PROVE  ExclusionInv'
  <2> USE <1>10 DEF GenFinish, WipeSeed
  <2>1. CASE psig[t] = None
    BY <2>1
  <2>2. CASE psig[t] # None
    BY <2>2
  <2>3. QED
    BY <2>1, <2>2
<1>11. ASSUME NEW t \in Threads, Acquire(t)
      PROVE  ExclusionInv'
  BY <1>11 DEF Acquire
<1>12. ASSUME NEW t \in Threads, RefuseUsed(t)
      PROVE  ExclusionInv'
  BY <1>12 DEF RefuseUsed
<1>13. ASSUME NEW t \in Threads, FindUnused(t)
      PROVE  ExclusionInv'
  BY <1>13 DEF FindUnused
<1>14. ASSUME NEW t \in Threads, MarkUsed(t)
      PROVE  ExclusionInv'
  BY <1>14 DEF MarkUsed
<1>15. ASSUME NEW t \in Threads, CheckBinding(t)
      PROVE  ExclusionInv'
  BY <1>15 DEF CheckBinding
<1>16. ASSUME NEW t \in Threads, SignFail(t)
      PROVE  ExclusionInv'
  BY <1>16 DEF SignFail
<1>17. ASSUME NEW t \in Threads, NativeLoad(t)
      PROVE  ExclusionInv'
  BY <1>17 DEF NativeLoad
<1>18. ASSUME NEW t \in Threads, NativeClear(t)
      PROVE  ExclusionInv'
  BY <1>18 DEF NativeClear
<1>19. ASSUME NEW t \in Threads, Serialize(t)
      PROVE  ExclusionInv'
  BY <1>19 DEF Serialize
<1>20. ASSUME NEW t \in Threads, Wipe(t)
      PROVE  ExclusionInv'
  BY <1>20 DEF Wipe
<1>21. ASSUME NEW t \in Threads, Release(t)
      PROVE  ExclusionInv'
  BY <1>21 DEF Release
<1>22. ASSUME NEW t \in Threads, InterruptSign(t)
      PROVE  ExclusionInv'
  BY <1>22 DEF InterruptSign
<1>23. ASSUME NEW t \in Threads, InterruptGen(t)
      PROVE  ExclusionInv'
  BY <1>23 DEF InterruptGen
<1>24. CASE UNCHANGED vars
  BY <1>24 DEF vars
<1>25. QED
  BY <1>1, <1>2, <1>3, <1>4, <1>5, <1>6, <1>7, <1>8, <1>9, <1>10, <1>11,
     <1>12, <1>13, <1>14, <1>15, <1>16, <1>17, <1>18, <1>19, <1>20, <1>21,
     <1>22, <1>23, <1>24
  DEF Next, Step

\* Key and participant, once checked, are those of the secret until it is used.
LEMMA BindingStep ==
    ASSUME TypeOK, CallInv, ExclusionInv, BindingInv, [Next]_vars
    PROVE  BindingInv'
<1> USE ThreadsAssumption, SecretsAssumption, KeysAssumption
    DEF TypeOK, CallInv, ExclusionInv, BindingInv, SignedByBoundParticipant, Goto,
        nonceVars, genVars, Calls, GenPoints, SignPoints, Held, Generating, InTry, Secrets
<1>1. ASSUME NEW b \in Bufs, FillBuf(b)
      PROVE  BindingInv'
  BY <1>1 DEF FillBuf
<1>2. ASSUME NEW n \in Nonces, Collect(n)
      PROVE  BindingInv'
  BY <1>2 DEF Collect
<1>3. ASSUME NEW t \in Threads, NEW n \in Nonces, NEW k \in Keys,
             NEW src \in Bufs \cup {None}, GenCall(t, n, k, src)
      PROVE  BindingInv'
  BY <1>3 DEF GenCall
<1>4. ASSUME NEW t \in Threads, NEW n \in Nonces, NEW k \in Keys,
             NEW s \in Sessions, SignCall(t, n, k, s)
      PROVE  BindingInv'
  BY <1>4 DEF SignCall
<1>5. ASSUME NEW t \in Threads, GenReject(t)
      PROVE  BindingInv'
  BY <1>5 DEF GenReject
<1>6. ASSUME NEW t \in Threads, GenSeed(t)
      PROVE  BindingInv'
  BY <1>6 DEF GenSeed
<1>7. ASSUME NEW t \in Threads, GenNative(t)
      PROVE  BindingInv'
  BY <1>7 DEF GenNative, SeedOf
<1>8. ASSUME NEW t \in Threads, GenFail(t)
      PROVE  BindingInv'
  BY <1>8 DEF GenFail
<1>9. ASSUME NEW t \in Threads, GenSerialize(t)
      PROVE  BindingInv'
  BY <1>9 DEF GenSerialize
<1>10. ASSUME NEW t \in Threads, GenFinish(t)
      PROVE  BindingInv'
  <2> USE <1>10 DEF GenFinish, WipeSeed
  <2>1. CASE psig[t] = None
    BY <2>1
  <2>2. CASE psig[t] # None
    BY <2>2
  <2>3. QED
    BY <2>1, <2>2
<1>11. ASSUME NEW t \in Threads, Acquire(t)
      PROVE  BindingInv'
  BY <1>11 DEF Acquire
<1>12. ASSUME NEW t \in Threads, RefuseUsed(t)
      PROVE  BindingInv'
  BY <1>12 DEF RefuseUsed
<1>13. ASSUME NEW t \in Threads, FindUnused(t)
      PROVE  BindingInv'
  BY <1>13 DEF FindUnused
<1>14. ASSUME NEW t \in Threads, MarkUsed(t)
      PROVE  BindingInv'
  BY <1>14 DEF MarkUsed
<1>15. ASSUME NEW t \in Threads, CheckBinding(t)
      PROVE  BindingInv'
  BY <1>15 DEF CheckBinding
<1>16. ASSUME NEW t \in Threads, SignFail(t)
      PROVE  BindingInv'
  BY <1>16 DEF SignFail
<1>17. ASSUME NEW t \in Threads, NativeLoad(t)
      PROVE  BindingInv'
  BY <1>17 DEF NativeLoad
<1>18. ASSUME NEW t \in Threads, NativeClear(t)
      PROVE  BindingInv'
  BY <1>18 DEF NativeClear
<1>19. ASSUME NEW t \in Threads, Serialize(t)
      PROVE  BindingInv'
  BY <1>19 DEF Serialize
<1>20. ASSUME NEW t \in Threads, Wipe(t)
      PROVE  BindingInv'
  BY <1>20 DEF Wipe
<1>21. ASSUME NEW t \in Threads, Release(t)
      PROVE  BindingInv'
  BY <1>21 DEF Release
<1>22. ASSUME NEW t \in Threads, InterruptSign(t)
      PROVE  BindingInv'
  BY <1>22 DEF InterruptSign
<1>23. ASSUME NEW t \in Threads, InterruptGen(t)
      PROVE  BindingInv'
  BY <1>23 DEF InterruptGen
<1>24. CASE UNCHANGED vars
  BY <1>24 DEF vars
<1>25. QED
  BY <1>1, <1>2, <1>3, <1>4, <1>5, <1>6, <1>7, <1>8, <1>9, <1>10, <1>11,
     <1>12, <1>13, <1>14, <1>15, <1>16, <1>17, <1>18, <1>19, <1>20, <1>21,
     <1>22, <1>23, <1>24
  DEF Next, Step

\* A secret marked used is in the hands of the attempt that holds the lock.
LEMMA WipeStep ==
    ASSUME TypeOK, CallInv, ExclusionInv, WipeInv, [Next]_vars
    PROVE  WipeInv'
<1> USE ThreadsAssumption, SecretsAssumption, KeysAssumption
    DEF TypeOK, CallInv, ExclusionInv, WipeInv, Goto,
        nonceVars, genVars, Calls, GenPoints, SignPoints, Held, Generating, InTry
<1>1. ASSUME NEW b \in Bufs, FillBuf(b)
      PROVE  WipeInv'
  BY <1>1 DEF FillBuf
<1>2. ASSUME NEW n \in Nonces, Collect(n)
      PROVE  WipeInv'
  BY <1>2 DEF Collect
<1>3. ASSUME NEW t \in Threads, NEW n \in Nonces, NEW k \in Keys,
             NEW src \in Bufs \cup {None}, GenCall(t, n, k, src)
      PROVE  WipeInv'
  BY <1>3 DEF GenCall
<1>4. ASSUME NEW t \in Threads, NEW n \in Nonces, NEW k \in Keys,
             NEW s \in Sessions, SignCall(t, n, k, s)
      PROVE  WipeInv'
  BY <1>4 DEF SignCall
<1>5. ASSUME NEW t \in Threads, GenReject(t)
      PROVE  WipeInv'
  BY <1>5 DEF GenReject
<1>6. ASSUME NEW t \in Threads, GenSeed(t)
      PROVE  WipeInv'
  BY <1>6 DEF GenSeed
<1>7. ASSUME NEW t \in Threads, GenNative(t)
      PROVE  WipeInv'
  BY <1>7 DEF GenNative, SeedOf
<1>8. ASSUME NEW t \in Threads, GenFail(t)
      PROVE  WipeInv'
  BY <1>8 DEF GenFail
<1>9. ASSUME NEW t \in Threads, GenSerialize(t)
      PROVE  WipeInv'
  BY <1>9 DEF GenSerialize
<1>10. ASSUME NEW t \in Threads, GenFinish(t)
      PROVE  WipeInv'
  <2> USE <1>10 DEF GenFinish, WipeSeed
  <2>1. CASE psig[t] = None
    BY <2>1
  <2>2. CASE psig[t] # None
    BY <2>2
  <2>3. QED
    BY <2>1, <2>2
<1>11. ASSUME NEW t \in Threads, Acquire(t)
      PROVE  WipeInv'
  BY <1>11 DEF Acquire
<1>12. ASSUME NEW t \in Threads, RefuseUsed(t)
      PROVE  WipeInv'
  BY <1>12 DEF RefuseUsed
<1>13. ASSUME NEW t \in Threads, FindUnused(t)
      PROVE  WipeInv'
  BY <1>13 DEF FindUnused
<1>14. ASSUME NEW t \in Threads, MarkUsed(t)
      PROVE  WipeInv'
  BY <1>14 DEF MarkUsed
<1>15. ASSUME NEW t \in Threads, CheckBinding(t)
      PROVE  WipeInv'
  BY <1>15 DEF CheckBinding
<1>16. ASSUME NEW t \in Threads, SignFail(t)
      PROVE  WipeInv'
  BY <1>16 DEF SignFail
<1>17. ASSUME NEW t \in Threads, NativeLoad(t)
      PROVE  WipeInv'
  BY <1>17 DEF NativeLoad
<1>18. ASSUME NEW t \in Threads, NativeClear(t)
      PROVE  WipeInv'
  BY <1>18 DEF NativeClear
<1>19. ASSUME NEW t \in Threads, Serialize(t)
      PROVE  WipeInv'
  BY <1>19 DEF Serialize
<1>20. ASSUME NEW t \in Threads, Wipe(t)
      PROVE  WipeInv'
  BY <1>20 DEF Wipe
<1>21. ASSUME NEW t \in Threads, Release(t)
      PROVE  WipeInv'
  BY <1>21 DEF Release
<1>22. ASSUME NEW t \in Threads, InterruptSign(t)
      PROVE  WipeInv'
  BY <1>22 DEF InterruptSign
<1>23. ASSUME NEW t \in Threads, InterruptGen(t)
      PROVE  WipeInv'
  BY <1>23 DEF InterruptGen
<1>24. CASE UNCHANGED vars
  BY <1>24 DEF vars
<1>25. QED
  BY <1>1, <1>2, <1>3, <1>4, <1>5, <1>6, <1>7, <1>8, <1>9, <1>10, <1>11,
     <1>12, <1>13, <1>14, <1>15, <1>16, <1>17, <1>18, <1>19, <1>20, <1>21,
     <1>22, <1>23, <1>24
  DEF Next, Step

\* No value appears that has not been drawn: what GenSeed and FillBuf draw is new.
LEMMA DrawnStep ==
    ASSUME TypeOK, CallInv, DrawnInv, [Next]_vars
    PROVE  DrawnInv'
<1> USE RandsAssumption, SecretsAssumption
    DEF TypeOK, CallInv, DrawnInv, Goto,
        nonceVars, genVars, Calls, GenPoints, SignPoints, Generating, InTry, Secrets, PartialSigs
<1>1. ASSUME NEW b \in Bufs, FillBuf(b)
      PROVE  DrawnInv'
  BY <1>1 DEF FillBuf
<1>2. ASSUME NEW n \in Nonces, Collect(n)
      PROVE  DrawnInv'
  BY <1>2 DEF Collect
<1>3. ASSUME NEW t \in Threads, NEW n \in Nonces, NEW k \in Keys,
             NEW src \in Bufs \cup {None}, GenCall(t, n, k, src)
      PROVE  DrawnInv'
  BY <1>3 DEF GenCall
<1>4. ASSUME NEW t \in Threads, NEW n \in Nonces, NEW k \in Keys,
             NEW s \in Sessions, SignCall(t, n, k, s)
      PROVE  DrawnInv'
  BY <1>4 DEF SignCall
<1>5. ASSUME NEW t \in Threads, GenReject(t)
      PROVE  DrawnInv'
  BY <1>5 DEF GenReject
<1>6. ASSUME NEW t \in Threads, GenSeed(t)
      PROVE  DrawnInv'
  BY <1>6 DEF GenSeed
<1>7. ASSUME NEW t \in Threads, GenNative(t)
      PROVE  DrawnInv'
  BY <1>7 DEF GenNative, SeedOf
<1>8. ASSUME NEW t \in Threads, GenFail(t)
      PROVE  DrawnInv'
  BY <1>8 DEF GenFail
<1>9. ASSUME NEW t \in Threads, GenSerialize(t)
      PROVE  DrawnInv'
  BY <1>9 DEF GenSerialize
<1>10. ASSUME NEW t \in Threads, GenFinish(t)
      PROVE  DrawnInv'
  <2> USE <1>10 DEF GenFinish, WipeSeed
  <2>1. CASE psig[t] = None
    BY <2>1
  <2>2. CASE psig[t] # None
    BY <2>2
  <2>3. QED
    BY <2>1, <2>2
<1>11. ASSUME NEW t \in Threads, Acquire(t)
      PROVE  DrawnInv'
  BY <1>11 DEF Acquire
<1>12. ASSUME NEW t \in Threads, RefuseUsed(t)
      PROVE  DrawnInv'
  BY <1>12 DEF RefuseUsed
<1>13. ASSUME NEW t \in Threads, FindUnused(t)
      PROVE  DrawnInv'
  BY <1>13 DEF FindUnused
<1>14. ASSUME NEW t \in Threads, MarkUsed(t)
      PROVE  DrawnInv'
  BY <1>14 DEF MarkUsed
<1>15. ASSUME NEW t \in Threads, CheckBinding(t)
      PROVE  DrawnInv'
  BY <1>15 DEF CheckBinding
<1>16. ASSUME NEW t \in Threads, SignFail(t)
      PROVE  DrawnInv'
  BY <1>16 DEF SignFail
<1>17. ASSUME NEW t \in Threads, NativeLoad(t)
      PROVE  DrawnInv'
  BY <1>17 DEF NativeLoad
<1>18. ASSUME NEW t \in Threads, NativeClear(t)
      PROVE  DrawnInv'
  BY <1>18 DEF NativeClear
<1>19. ASSUME NEW t \in Threads, Serialize(t)
      PROVE  DrawnInv'
  BY <1>19 DEF Serialize
<1>20. ASSUME NEW t \in Threads, Wipe(t)
      PROVE  DrawnInv'
  BY <1>20 DEF Wipe
<1>21. ASSUME NEW t \in Threads, Release(t)
      PROVE  DrawnInv'
  BY <1>21 DEF Release
<1>22. ASSUME NEW t \in Threads, InterruptSign(t)
      PROVE  DrawnInv'
  BY <1>22 DEF InterruptSign
<1>23. ASSUME NEW t \in Threads, InterruptGen(t)
      PROVE  DrawnInv'
  BY <1>23 DEF InterruptGen
<1>24. CASE UNCHANGED vars
  BY <1>24 DEF vars
<1>25. QED
  BY <1>1, <1>2, <1>3, <1>4, <1>5, <1>6, <1>7, <1>8, <1>9, <1>10, <1>11,
     <1>12, <1>13, <1>14, <1>15, <1>16, <1>17, <1>18, <1>19, <1>20, <1>21,
     <1>22, <1>23, <1>24
  DEF Next, Step

\* Moving a secret on (seed, SecNonce, native call, signature) leaves no copy
\* where a second signature could be made from it.
LEMMA OnePlaceStep ==
    ASSUME TypeOK, CallInv, ExclusionInv, DrawnInv, OnePlaceInv, [Next]_vars
    PROVE  OnePlaceInv'
<1> USE ThreadsAssumption, SecretsAssumption, RandsAssumption, BufsAssumption
    DEF TypeOK, CallInv, ExclusionInv, DrawnInv, OnePlaceInv, NoSecretReuse, Goto,
        nonceVars, genVars, Calls, GenPoints, SignPoints, Held, Generating, InTry,
        Secrets, PartialSigs
<1>1. ASSUME NEW b \in Bufs, FillBuf(b)
      PROVE  OnePlaceInv'
  BY <1>1 DEF FillBuf
<1>2. ASSUME NEW n \in Nonces, Collect(n)
      PROVE  OnePlaceInv'
  BY <1>2 DEF Collect
<1>3. ASSUME NEW t \in Threads, NEW n \in Nonces, NEW k \in Keys,
             NEW src \in Bufs \cup {None}, GenCall(t, n, k, src)
      PROVE  OnePlaceInv'
  BY <1>3 DEF GenCall
<1>4. ASSUME NEW t \in Threads, NEW n \in Nonces, NEW k \in Keys,
             NEW s \in Sessions, SignCall(t, n, k, s)
      PROVE  OnePlaceInv'
  BY <1>4 DEF SignCall
<1>5. ASSUME NEW t \in Threads, GenReject(t)
      PROVE  OnePlaceInv'
  <2>1. psig[t] = None
    BY <1>5 DEF GenReject
  <2>2. /\ UNCHANGED <<secbuf, psig, buf, seed, issued>>
        /\ \A u \in Threads : u # t => pc'[u] = pc[u] /\ call'[u] = call[u]
    BY <1>5 DEF GenReject
  <2>3. QED
    BY <2>1, <2>2
<1>6. ASSUME NEW t \in Threads, GenSeed(t)
      PROVE  OnePlaceInv'
  <2>1. CASE call[t].src = None
    <3>1. PICK r \in Rands \ drawn : seed' = [seed EXCEPT ![t] = r]
      BY <1>6, <2>1 DEF GenSeed
    <3>2. /\ \A n \in Nonces : secbuf[n] # Zero => secbuf[n].rand # r
          /\ \A u \in Threads : /\ psig[u] # None => psig[u].rand # r
                                /\ seed[u] # r
          /\ \A b \in Bufs : buf[b] # r
          /\ \A p \in issued : p.secret.rand # r
      BY <3>1
    <3>3. /\ seed'[t] = r /\ \A u \in Threads : u # t => seed'[u] = seed[u]
          /\ UNCHANGED <<secbuf, psig, buf, issued, call>>
      BY <1>6, <3>1 DEF GenSeed
    <3>4. r # None
      BY <3>1
    <3>5. \A u \in Threads : pc'[u] = "clear" <=> pc[u] = "clear"
      BY <1>6 DEF GenSeed
    <3>6. \A u \in Threads : Generating(u)' <=> Generating(u)
      BY <1>6 DEF GenSeed
    <3> HIDE DEF Generating
    <3>7. QED
      BY <3>2, <3>3, <3>4, <3>5, <3>6
  <2>2. CASE call[t].src # None
    BY <1>6, <2>2 DEF GenSeed
  <2>3. QED
    BY <2>1, <2>2
<1>7. ASSUME NEW t \in Threads, GenNative(t)
      PROVE  OnePlaceInv'
  <2> DEFINE r == SeedOf(t)
  <2> USE <1>7 DEF GenNative
  <2>1. /\ r \in Rands
        /\ \A n \in Nonces : secbuf[n] # Zero => secbuf[n].rand # r
        /\ \A u \in Threads : u # t /\ psig[u] # None => psig[u].rand # r
        /\ \A u \in Threads : u # t => seed[u] # r
        /\ \A b \in Bufs : buf[b] = r => call[t].src = b
        /\ \A p \in issued : p.secret.rand # r
    <3>1. CASE call[t].src = None
      BY <3>1 DEF SeedOf
    <3>2. CASE call[t].src # None
      BY <3>2 DEF SeedOf
    <3>3. QED
      BY <3>1, <3>2
  <2>2. /\ psig' = [psig EXCEPT ![t] = [rand |-> r, key |-> call[t].key]]
        /\ psig'[t].rand = r
        /\ \A u \in Threads : u # t => psig'[u] = psig[u]
    OBVIOUS
  <2>3. /\ Generating(t)'
        /\ \A u \in Threads : u # t => pc'[u] = pc[u]
    OBVIOUS
  <2> HIDE DEF r
  <2>4. QED
    BY <2>1, <2>2, <2>3
<1>8. ASSUME NEW t \in Threads, GenFail(t)
      PROVE  OnePlaceInv'
  BY <1>8 DEF GenFail
<1>9. ASSUME NEW t \in Threads, GenSerialize(t)
      PROVE  OnePlaceInv'
  BY <1>9 DEF GenSerialize
<1>10. ASSUME NEW t \in Threads, GenFinish(t)
      PROVE  OnePlaceInv'
  <2> USE <1>10 DEF GenFinish
  <2>1. /\ \A u \in Threads : u # t => /\ psig'[u] = psig[u] /\ pc'[u] = pc[u]
                                       /\ call'[u] = call[u] /\ seed'[u] = seed[u]
        /\ psig'[t] = None /\ seed'[t] = None /\ issued' = issued
        /\ \A b \in Bufs : buf'[b] = IF b = call[t].src THEN Zero ELSE buf[b]
    BY BufsAssumption DEF WipeSeed
  <2>2. CASE psig[t] = None
    BY <2>1, <2>2
  <2>3. CASE psig[t] # None
    <3>1. /\ secbuf'[call[t].nonce] = psig[t]
          /\ \A n \in Nonces : n # call[t].nonce => secbuf'[n] = secbuf[n]
      BY <2>3
    <3>2. \A n \in Nonces : secbuf[n] # Zero => secbuf[n].rand # psig[t].rand
      BY <2>3
    <3>3. psig[t].rand \in Rands
      BY <2>3
    <3>4. \A u \in Threads : u # t => seed[u] # psig[t].rand
      BY <2>3, <3>3
    <3>5. \A u \in Threads : u # t /\ psig[u] # None => psig[u].rand # psig[t].rand
      BY <2>3
    <3>6. \A b \in Bufs : buf'[b] # psig[t].rand
      BY <2>1, <2>3, <3>3
    <3>7. \A p \in issued : p.secret.rand # psig[t].rand
      BY <2>3
    <3>8. \A n, m \in Nonces :
             n # m /\ secbuf'[n] # Zero /\ secbuf'[m] # Zero =>
                 secbuf'[n].rand # secbuf'[m].rand
      BY <3>1, <3>2
    <3>9. \A n \in Nonces, u \in Threads :
             /\ secbuf'[n] # Zero /\ psig'[u] # None /\ secbuf'[n].rand = psig'[u].rand =>
                    pc'[u] = "clear" /\ call'[u].nonce = n
             /\ secbuf'[n] # Zero => seed'[u] # secbuf'[n].rand
      BY <2>1, <3>1, <3>3, <3>4, <3>5
    <3>10. \A n \in Nonces, b \in Bufs : secbuf'[n] # Zero => buf'[b] # secbuf'[n].rand
      BY <2>1, <3>1, <3>6
    <3>11. QED
      BY <2>1, <3>1, <3>7, <3>8, <3>9, <3>10
  <2>4. QED
    BY <2>2, <2>3
<1>11. ASSUME NEW t \in Threads, Acquire(t)
      PROVE  OnePlaceInv'
  BY <1>11 DEF Acquire
<1>12. ASSUME NEW t \in Threads, RefuseUsed(t)
      PROVE  OnePlaceInv'
  BY <1>12 DEF RefuseUsed
<1>13. ASSUME NEW t \in Threads, FindUnused(t)
      PROVE  OnePlaceInv'
  BY <1>13 DEF FindUnused
<1>14. ASSUME NEW t \in Threads, MarkUsed(t)
      PROVE  OnePlaceInv'
  BY <1>14 DEF MarkUsed
<1>15. ASSUME NEW t \in Threads, CheckBinding(t)
      PROVE  OnePlaceInv'
  BY <1>15 DEF CheckBinding
<1>16. ASSUME NEW t \in Threads, SignFail(t)
      PROVE  OnePlaceInv'
  BY <1>16 DEF SignFail
<1>17. ASSUME NEW t \in Threads, NativeLoad(t)
      PROVE  OnePlaceInv'
  BY <1>17 DEF NativeLoad
<1>18. ASSUME NEW t \in Threads, NativeClear(t)
      PROVE  OnePlaceInv'
  BY <1>18 DEF NativeClear
<1>19. ASSUME NEW t \in Threads, Serialize(t)
      PROVE  OnePlaceInv'
  BY <1>19 DEF Serialize
<1>20. ASSUME NEW t \in Threads, Wipe(t)
      PROVE  OnePlaceInv'
  BY <1>20 DEF Wipe
<1>21. ASSUME NEW t \in Threads, Release(t)
      PROVE  OnePlaceInv'
  <2> USE <1>21 DEF Release
  <2>1. /\ \A u \in Threads : u # t => /\ psig'[u] = psig[u] /\ pc'[u] = pc[u]
                                       /\ call'[u] = call[u]
        /\ psig'[t] = None
        /\ UNCHANGED <<secbuf, buf, seed>>
    OBVIOUS
  <2>2. CASE psig[t] = None
    BY <2>1, <2>2
  <2>3. CASE psig[t] # None
    <3> DEFINE new == [secret |-> psig[t], key |-> call[t].key, session |-> call[t].session]
    <3>1. issued' = issued \cup {new} /\ new.secret = psig[t]
      BY <2>3
    <3>2. /\ \A n \in Nonces : secbuf[n] # Zero => secbuf[n].rand # psig[t].rand
          /\ \A b \in Bufs : buf[b] # psig[t].rand
      <4>1. pc[t] # "clear" /\ ~Generating(t)
        OBVIOUS
      <4>2. ASSUME NEW n \in Nonces, secbuf[n] # Zero
            PROVE  secbuf[n].rand # psig[t].rand
        BY <2>3, <4>1, <4>2
      <4>3. ASSUME NEW b \in Bufs
            PROVE  buf[b] # psig[t].rand
        <5> HIDE DEF TypeOK, CallInv, ExclusionInv, DrawnInv, Generating
        <5>1. QED
          BY <2>3, <4>1
      <4>4. QED
        BY <4>2, <4>3
    <3>3. \A u \in Threads : /\ seed[u] # psig[t].rand
                             /\ u # t /\ psig[u] # None => psig[u].rand # psig[t].rand
      BY <2>3
    <3>4. \A p \in issued : p.secret # psig[t]
      BY <2>3
    <3> HIDE DEF new
    <3>5. NoSecretReuse'
      BY <3>1, <3>4
    <3>6. \A p \in issued' :
           /\ \A n \in Nonces : secbuf'[n] # Zero => p.secret.rand # secbuf'[n].rand
           /\ \A u \in Threads : /\ psig'[u] # None => p.secret.rand # psig'[u].rand
                                 /\ p.secret.rand # seed'[u]
           /\ \A b \in Bufs : p.secret.rand # buf'[b]
      BY <2>1, <3>1, <3>2, <3>3
    <3>7. QED
      BY <2>1, <3>5, <3>6
  <2>4. QED
    BY <2>2, <2>3
<1>22. ASSUME NEW t \in Threads, InterruptSign(t)
      PROVE  OnePlaceInv'
  BY <1>22 DEF InterruptSign
<1>23. ASSUME NEW t \in Threads, InterruptGen(t)
      PROVE  OnePlaceInv'
  BY <1>23 DEF InterruptGen
<1>24. CASE UNCHANGED vars
  BY <1>24 DEF vars
<1>25. QED
  BY <1>1, <1>2, <1>3, <1>4, <1>5, <1>6, <1>7, <1>8, <1>9, <1>10, <1>11,
     <1>12, <1>13, <1>14, <1>15, <1>16, <1>17, <1>18, <1>19, <1>20, <1>21,
     <1>22, <1>23, <1>24
  DEF Next, Step

\* Nothing has been drawn, so nothing is shared.
LEMMA IInvInit == Init => IInv
BY ThreadsAssumption
DEF Init, IInv, TypeOK, CallInv, ExclusionInv, BindingInv, WipeInv, DrawnInv, OnePlaceInv,
    SignedByBoundParticipant, NoSecretReuse, Generating, GenPoints, SignPoints, Held

\* The invariant of MuSigNonce is inductive and holds of every execution.
THEOREM Invariance == Spec => []IInv
<1>1. IInv /\ [Next]_vars => IInv'
  BY TypeStep, CallStep, ExclusionStep, BindingStep, WipeStep, DrawnStep, OnePlaceStep
  DEF IInv
<1>2. QED
  BY IInvInit, <1>1, PTL DEF Spec

\* Every variable keeps its type, with any number of threads and nonces.
THEOREM TypeCorrect == Spec => []TypeOK
<1>1. IInv => TypeOK
  BY DEF IInv
<1>2. QED
  BY Invariance, <1>1, PTL

\* However many threads share a SecNonce, and whatever fails or is interrupted
\* in nonce_gen and SecNonce._sign, no secret nonce signs twice.
THEOREM SingleUseOfSecrets == Spec => []NoSecretReuse
<1>1. IInv => NoSecretReuse
  BY DEF IInv, OnePlaceInv
<1>2. QED
  BY Invariance, <1>1, PTL

\* Every signature is made with the key the nonce was generated for, by a
\* participant of the session.
THEOREM Binding == Spec => []SignedByBoundParticipant
<1>1. IInv => SignedByBoundParticipant
  BY DEF IInv, BindingInv
<1>2. QED
  BY Invariance, <1>1, PTL

\* After every attempt to sign, failed or not, the secret has been wiped.
THEOREM Wiped == Spec => []WipedAfterAttempt
<1>1. IInv => WipedAfterAttempt
  BY ThreadsAssumption DEF IInv, WipeInv, WipedAfterAttempt
<1>2. QED
  BY Invariance, <1>1, PTL

\* No live secret nonce has its randomness left in a caller's bytearray.
THEOREM SeedWiped == Spec => []SeedNotLeftBehind
<1>1. IInv => SeedNotLeftBehind
  BY DEF IInv, OnePlaceInv, SeedNotLeftBehind
<1>2. QED
  BY Invariance, <1>1, PTL

-----------------------------------------------------------------------------
(* SecNonce implements the single-use token of SingleUse, for any number of *)
(* threads, keys, sessions and nonces.                                      *)

\* A secret is drawn afresh, and its randomness wiped where it came from.
LEMMA MintedStep ==
    ASSUME IInv, MintedInv, [Next]_vars
    PROVE  MintedInv'
<1> USE ThreadsAssumption, RandsAssumption, SecretsAssumption
    DEF IInv, TypeOK, CallInv, DrawnInv, OnePlaceInv, MintedInv, Goto,
        nonceVars, genVars, Calls,
        GenPoints, SignPoints, Generating, Secrets, InTry, BufFree
<1>1. ASSUME NEW b \in Bufs, FillBuf(b)
      PROVE  MintedInv'
  BY <1>1 DEF FillBuf
<1>2. ASSUME NEW n \in Nonces, Collect(n)
      PROVE  MintedInv'
  BY <1>2 DEF Collect
<1>3. ASSUME NEW t \in Threads, NEW n \in Nonces, NEW k \in Keys,
            NEW src \in Bufs \cup {None}, GenCall(t, n, k, src)
      PROVE  MintedInv'
  BY <1>3 DEF GenCall
<1>4. ASSUME NEW t \in Threads, NEW n \in Nonces, NEW k \in Keys,
            NEW s \in Sessions, SignCall(t, n, k, s)
      PROVE  MintedInv'
  BY <1>4 DEF SignCall
<1>5. ASSUME NEW t \in Threads, GenReject(t)
      PROVE  MintedInv'
  BY <1>5 DEF GenReject
<1>6. ASSUME NEW t \in Threads, GenSeed(t)
      PROVE  MintedInv'
  BY <1>6 DEF GenSeed
<1>7. ASSUME NEW t \in Threads, GenNative(t)
      PROVE  MintedInv'
  BY <1>7 DEF GenNative, SeedOf
<1>8. ASSUME NEW t \in Threads, GenFail(t)
      PROVE  MintedInv'
  BY <1>8 DEF GenFail
<1>9. ASSUME NEW t \in Threads, GenSerialize(t)
      PROVE  MintedInv'
  BY <1>9 DEF GenSerialize
<1>10. ASSUME NEW t \in Threads, GenFinish(t)
      PROVE  MintedInv'
  <2> USE <1>10 DEF GenFinish, WipeSeed
  <2>1. /\ call[t] \in Calls /\ call[t].nonce \in Nonces
        /\ seed' = [seed EXCEPT ![t] = None]
        /\ psig' = [psig EXCEPT ![t] = None]
        /\ pc' = [pc EXCEPT ![t] = "idle"]
        /\ UNCHANGED drawn
        /\ \A b \in Bufs : buf'[b] = IF b = call[t].src THEN Zero ELSE buf[b]
    BY BufsAssumption
  <2>2. CASE psig[t] = None
    BY <2>1, <2>2
  <2>3. CASE psig[t] # None
    <3>1. /\ psig[t] \in Secrets /\ psig[t].rand \in Rands
          /\ minted' = minted \cup {psig[t]}
          /\ secbuf' = [secbuf EXCEPT ![call[t].nonce] = psig[t]]
      BY <2>3
    <3>2. \A u \in Threads :
             /\ seed'[u] # psig[t].rand
             /\ psig'[u] # None => psig'[u].rand # psig[t].rand
      BY <2>1, <2>3, <3>1
    <3>3. \A b \in Bufs : buf'[b] # psig[t].rand
      BY <2>1, <2>3, <3>1
    <3>4. \A x \in minted' :
             /\ x.rand \in drawn'
             /\ \A u \in Threads :
                   /\ seed'[u] # x.rand
                   /\ Generating(u)' /\ psig'[u] # None => psig'[u].rand # x.rand
             /\ \A b \in Bufs : buf'[b] # x.rand
      BY <2>1, <2>3, <3>1, <3>2, <3>3
    <3>5. /\ \A n \in Nonces : secbuf'[n] # Zero => secbuf'[n] \in minted'
          /\ \A u \in Threads :
                psig'[u] # None /\ ~Generating(u)' => psig'[u] \in minted'
      BY <2>1, <3>1
    <3>6. QED
      BY <3>4, <3>5
  <2>4. QED
    BY <2>2, <2>3
<1>11. ASSUME NEW t \in Threads, Acquire(t)
      PROVE  MintedInv'
  BY <1>11 DEF Acquire
<1>12. ASSUME NEW t \in Threads, RefuseUsed(t)
      PROVE  MintedInv'
  BY <1>12 DEF RefuseUsed
<1>13. ASSUME NEW t \in Threads, FindUnused(t)
      PROVE  MintedInv'
  BY <1>13 DEF FindUnused
<1>14. ASSUME NEW t \in Threads, MarkUsed(t)
      PROVE  MintedInv'
  BY <1>14 DEF MarkUsed
<1>15. ASSUME NEW t \in Threads, CheckBinding(t)
      PROVE  MintedInv'
  BY <1>15 DEF CheckBinding
<1>16. ASSUME NEW t \in Threads, SignFail(t)
      PROVE  MintedInv'
  BY <1>16 DEF SignFail
<1>17. ASSUME NEW t \in Threads, NativeLoad(t)
      PROVE  MintedInv'
  BY <1>17 DEF NativeLoad
<1>18. ASSUME NEW t \in Threads, NativeClear(t)
      PROVE  MintedInv'
  BY <1>18 DEF NativeClear
<1>19. ASSUME NEW t \in Threads, Serialize(t)
      PROVE  MintedInv'
  BY <1>19 DEF Serialize
<1>20. ASSUME NEW t \in Threads, Wipe(t)
      PROVE  MintedInv'
  BY <1>20 DEF Wipe
<1>21. ASSUME NEW t \in Threads, Release(t)
      PROVE  MintedInv'
  BY <1>21 DEF Release
<1>22. ASSUME NEW t \in Threads, InterruptSign(t)
      PROVE  MintedInv'
  BY <1>22 DEF InterruptSign
<1>23. ASSUME NEW t \in Threads, InterruptGen(t)
      PROVE  MintedInv'
  BY <1>23 DEF InterruptGen
<1>24. CASE UNCHANGED vars
  BY <1>24 DEF vars
<1>25. QED
  BY <1>1, <1>2, <1>3, <1>4, <1>5, <1>6, <1>7, <1>8, <1>9, <1>10,
     <1>11, <1>12, <1>13, <1>14, <1>15, <1>16, <1>17, <1>18, <1>19,
     <1>20, <1>21, <1>22, <1>23, <1>24
  DEF Next, Step

\* The mark stays while the call that set it is under way.
LEMMA UsedStep ==
    ASSUME IInv, UsedInv, [Next]_vars
    PROVE  UsedInv'
<1> USE ThreadsAssumption, KeysAssumption
    DEF IInv, TypeOK, CallInv, ExclusionInv, UsedInv, Goto, nonceVars, genVars, Calls,
        GenPoints, SignPoints, Generating, InTry, Held
<1>1. ASSUME NEW b \in Bufs, FillBuf(b)
      PROVE  UsedInv'
  BY <1>1 DEF FillBuf
<1>2. ASSUME NEW n \in Nonces, Collect(n)
      PROVE  UsedInv'
  BY <1>2 DEF Collect
<1>3. ASSUME NEW t \in Threads, NEW n \in Nonces, NEW k \in Keys,
            NEW src \in Bufs \cup {None}, GenCall(t, n, k, src)
      PROVE  UsedInv'
  BY <1>3 DEF GenCall
<1>4. ASSUME NEW t \in Threads, NEW n \in Nonces, NEW k \in Keys,
            NEW s \in Sessions, SignCall(t, n, k, s)
      PROVE  UsedInv'
  BY <1>4 DEF SignCall
<1>5. ASSUME NEW t \in Threads, GenReject(t)
      PROVE  UsedInv'
  BY <1>5 DEF GenReject
<1>6. ASSUME NEW t \in Threads, GenSeed(t)
      PROVE  UsedInv'
  BY <1>6 DEF GenSeed
<1>7. ASSUME NEW t \in Threads, GenNative(t)
      PROVE  UsedInv'
  BY <1>7 DEF GenNative, SeedOf
<1>8. ASSUME NEW t \in Threads, GenFail(t)
      PROVE  UsedInv'
  BY <1>8 DEF GenFail
<1>9. ASSUME NEW t \in Threads, GenSerialize(t)
      PROVE  UsedInv'
  BY <1>9 DEF GenSerialize
<1>10. ASSUME NEW t \in Threads, GenFinish(t)
      PROVE  UsedInv'
  BY <1>10 DEF GenFinish, WipeSeed
<1>11. ASSUME NEW t \in Threads, Acquire(t)
      PROVE  UsedInv'
  BY <1>11 DEF Acquire
<1>12. ASSUME NEW t \in Threads, RefuseUsed(t)
      PROVE  UsedInv'
  BY <1>12 DEF RefuseUsed
<1>13. ASSUME NEW t \in Threads, FindUnused(t)
      PROVE  UsedInv'
  BY <1>13 DEF FindUnused
<1>14. ASSUME NEW t \in Threads, MarkUsed(t)
      PROVE  UsedInv'
  BY <1>14 DEF MarkUsed
<1>15. ASSUME NEW t \in Threads, CheckBinding(t)
      PROVE  UsedInv'
  BY <1>15 DEF CheckBinding
<1>16. ASSUME NEW t \in Threads, SignFail(t)
      PROVE  UsedInv'
  BY <1>16 DEF SignFail
<1>17. ASSUME NEW t \in Threads, NativeLoad(t)
      PROVE  UsedInv'
  BY <1>17 DEF NativeLoad
<1>18. ASSUME NEW t \in Threads, NativeClear(t)
      PROVE  UsedInv'
  BY <1>18 DEF NativeClear
<1>19. ASSUME NEW t \in Threads, Serialize(t)
      PROVE  UsedInv'
  BY <1>19 DEF Serialize
<1>20. ASSUME NEW t \in Threads, Wipe(t)
      PROVE  UsedInv'
  BY <1>20 DEF Wipe
<1>21. ASSUME NEW t \in Threads, Release(t)
      PROVE  UsedInv'
  BY <1>21 DEF Release
<1>22. ASSUME NEW t \in Threads, InterruptSign(t)
      PROVE  UsedInv'
  BY <1>22 DEF InterruptSign
<1>23. ASSUME NEW t \in Threads, InterruptGen(t)
      PROVE  UsedInv'
  BY <1>23 DEF InterruptGen
<1>24. CASE UNCHANGED vars
  BY <1>24 DEF vars
<1>25. QED
  BY <1>1, <1>2, <1>3, <1>4, <1>5, <1>6, <1>7, <1>8, <1>9, <1>10,
     <1>11, <1>12, <1>13, <1>14, <1>15, <1>16, <1>17, <1>18, <1>19,
     <1>20, <1>21, <1>22, <1>23, <1>24
  DEF Next, Step

\* What is needed of RInv below, one fact for each way to hold a secret.
LEMMA SecretTypes ==
    ASSUME RInv
    PROVE  /\ \A n \in Nonces : secbuf[n] # Zero => secbuf[n] \in Secrets
           /\ \A t \in Threads : psig[t] # None => psig[t] \in Secrets
           /\ \A t \in Threads : pc[t] # "idle" => call[t].nonce \in Nonces
           /\ \A x \in Secrets : x # Zero /\ x # None
BY SecretsAssumption DEF RInv, IInv, TypeOK, CallInv, Calls

\* A call that signs with a secret is the only one that does, and no SecNonce
\* offers that secret to another.
LEMMA SignsAlone ==
    ASSUME RInv, NEW t \in Threads, NEW x \in Secrets, SignsWith(t, x)
    PROVE  /\ x \in minted
           /\ ~Unspent(x)
           /\ \A u \in Threads \ {t} : ~SignsWith(u, x)
<1> USE ThreadsAssumption
    DEF RInv, IInv, TypeOK, SignsWith, SignPoints, GenPoints, Generating, Held, InTry
<1>1. x # Zero /\ x # None /\ call[t].nonce \in Nonces
  BY SecretTypes
<1>2. used[call[t].nonce] \/ (psig[t] = x /\ pc[t] = "release")
  BY <1>1 DEF UsedInv
<1>3. lock[call[t].nonce] = t
  BY <1>1 DEF ExclusionInv
<1>4. x \in minted
  BY <1>1 DEF MintedInv
<1>5. ~Unspent(x)
  <2> SUFFICES ASSUME NEW n \in Nonces, ~used[n], secbuf[n] = x
               PROVE  FALSE
    BY DEF Unspent
  <2>1. CASE psig[t] = x
    <3>1. pc[t] = "clear" /\ call[t].nonce = n
      BY <1>1, <2>1 DEF OnePlaceInv
    <3>2. QED
      BY <1>2, <3>1
  <2>2. CASE psig[t] # x
    <3>1. secbuf[call[t].nonce] = x
      BY <2>2
    <3>2. call[t].nonce = n
      BY <1>1, <3>1 DEF OnePlaceInv
    <3>3. QED
      BY <1>2, <2>2, <3>2
  <2>3. QED
    BY <2>1, <2>2
<1>6. ASSUME NEW u \in Threads \ {t}, SignsWith(u, x)
      PROVE  FALSE
  <2>1. call[u].nonce \in Nonces /\ lock[call[u].nonce] = u
    BY <1>6, SecretTypes DEF ExclusionInv
  <2>2. call[u].nonce # call[t].nonce
    BY <1>3, <2>1
  <2>3. CASE psig[t] = x /\ psig[u] = x
    BY <1>1, <1>6, <2>3 DEF OnePlaceInv
  <2>4. CASE psig[t] = x /\ secbuf[call[u].nonce] = x
    BY <1>1, <2>1, <2>2, <2>4 DEF OnePlaceInv
  <2>5. CASE secbuf[call[t].nonce] = x /\ psig[u] = x
    BY <1>1, <2>1, <2>2, <2>5 DEF OnePlaceInv
  <2>6. CASE secbuf[call[t].nonce] = x /\ secbuf[call[u].nonce] = x
    BY <1>1, <2>1, <2>2, <2>6 DEF OnePlaceInv
  <2>7. QED
    BY <1>6, <2>3, <2>4, <2>5, <2>6
<1>7. QED
  BY <1>4, <1>5, <1>6

\* A SecNonce that has not been used is the only place of its secret.
LEMMA LiveAlone ==
    ASSUME RInv, NEW n \in Nonces, bound[n] # None, ~used[n], secbuf[n] # Zero
    PROVE  /\ secbuf[n] \in Secrets
           /\ secbuf[n] \in minted
           /\ Unspent(secbuf[n])
           /\ \A m \in Nonces \ {n} : secbuf[m] # secbuf[n]
           /\ \A t \in Threads : ~SignsWith(t, secbuf[n])
<1>1. secbuf[n] \in Secrets
  BY SecretTypes
<1>2. secbuf[n] \in minted
  BY DEF RInv, MintedInv
<1>3. Unspent(secbuf[n])
  BY DEF Unspent
<1>4. \A m \in Nonces \ {n} : secbuf[m] # secbuf[n]
  BY DEF RInv, IInv, OnePlaceInv
<1>5. \A t \in Threads : ~SignsWith(t, secbuf[n])
  BY <1>1, <1>3, SignsAlone
<1>6. QED
  BY <1>1, <1>2, <1>3, <1>4, <1>5

\* A step that changes who signs with what for no secret is a stutter.
LEMMA Stutter ==
    ASSUME UNCHANGED <<minted, issued>>,
           \A x \in Secrets : Unspent(x)' <=> Unspent(x),
           \A x \in Secrets, t \in Threads : SignsWith(t, x)' <=> SignsWith(t, x)
    PROVE  UNCHANGED Token!vars
<1>1. ASSUME NEW x \in Secrets
      PROVE  StateOf(x)' = StateOf(x)
  <2>1. Signing(x)' <=> Signing(x)
    BY DEF Signing
  <2>2. QED
    BY <2>1 DEF StateOf
<1>2. token' = token
  BY <1>1 DEF token
<1>3. QED
  BY <1>2 DEF Token!vars

\* A step that changes the state of one secret moves that token.
LEMMA Moved ==
    ASSUME NEW x \in Secrets, NEW from, NEW to,
           StateOf(x) = from, StateOf(x)' = to,
           \A y \in Secrets \ {x} : StateOf(y)' = StateOf(y)
    PROVE  Token!Move(x, from, to)
BY DEF token, Token!Move

\* The end of a call that signed: with the next states of the SecNonces as they
\* were, and the call signing with nothing any more.
LEMMA EndsSigning ==
    ASSUME RInv, NEW t \in Threads, NEW x \in Secrets, SignsWith(t, x),
           UNCHANGED <<minted, secbuf, bound, used>>,
           \A y \in Secrets : ~SignsWith(t, y)',
           \A y \in Secrets, u \in Threads \ {t} : SignsWith(u, y)' <=> SignsWith(u, y)
    PROVE  Token!Move(x, "signing", "spent")
<1>1. \A y \in Secrets : Unspent(y)' <=> Unspent(y)
  BY DEF Unspent
<1>2. StateOf(x) = "signing" /\ StateOf(x)' = "spent"
  <2>1. x \in minted /\ ~Unspent(x) /\ Signing(x)
    BY SignsAlone DEF Signing
  <2>2. ~Signing(x)'
    BY SignsAlone DEF Signing
  <2>3. QED
    BY <1>1, <2>1, <2>2 DEF StateOf
<1>3. ASSUME NEW y \in Secrets \ {x}
      PROVE  StateOf(y)' = StateOf(y)
  <2>1. ~SignsWith(t, y)
    <3>1. \/ psig[t] = x /\ pc[t] \notin {"bind", "native"}
          \/ psig[t] = None
      BY SecretTypes DEF SignsWith, RInv, IInv, CallInv
    <3>2. QED
      BY <3>1, SecretTypes DEF SignsWith
  <2>2. Signing(y)' <=> Signing(y)
    BY <2>1 DEF Signing
  <2>3. QED
    BY <1>1, <2>2 DEF StateOf
<1>4. QED
  BY <1>2, <1>3, Moved

\* Every step moves one token from one state to the next, or none.
LEMMA RefinementStep ==
    ASSUME RInv, [Next]_vars
    PROVE  [Token!TokenNext]_(Token!vars)
<1> USE ThreadsAssumption
    DEF RInv, IInv, TypeOK, CallInv, Goto, nonceVars, genVars, Calls, GenPoints, SignPoints,
        Generating, InTry, PartialSigs, SignsWith
<1>0. \A x \in Secrets : x # Zero /\ x # None
  BY SecretsAssumption
<1> USE <1>0
<1>1. ASSUME NEW b \in Bufs, FillBuf(b)
      PROVE  [Token!TokenNext]_(Token!vars)
  <2> USE <1>1 DEF FillBuf
  <2>1. UNCHANGED <<minted, issued>>
    OBVIOUS
  <2>2. \A x \in Secrets : Unspent(x)' <=> Unspent(x)
    BY DEF Unspent
  <2>3. \A x \in Secrets, u \in Threads : SignsWith(u, x)' <=> SignsWith(u, x)
    OBVIOUS
  <2>4. QED
    BY <2>1, <2>2, <2>3, Stutter
<1>2. ASSUME NEW n \in Nonces, Collect(n)
      PROVE  [Token!TokenNext]_(Token!vars)
  <2> USE <1>2 DEF Collect
  <2>1. /\ UNCHANGED <<minted, issued, pc, call, psig>>
        /\ bound[n] # None /\ bound'[n] = None
        /\ \A m \in Nonces \ {n} :
              secbuf'[m] = secbuf[m] /\ bound'[m] = bound[m] /\ (used'[m] <=> used[m])
    OBVIOUS
  <2>2. \A y \in Secrets, u \in Threads : SignsWith(u, y)' <=> SignsWith(u, y)
    BY <2>1
  <2>3. \A y \in Secrets : y # secbuf[n] => (Unspent(y)' <=> Unspent(y))
    BY <2>1 DEF Unspent
  <2>4. CASE ~used[n] /\ secbuf[n] # Zero
    <3>0. PICK x \in Secrets : x = secbuf[n]
      BY <2>1, <2>4, LiveAlone
    <3>1. x \in minted /\ Unspent(x)
      BY <2>1, <2>4, <3>0, LiveAlone
    <3>2. ~Unspent(x)'
      BY <2>1, <2>4, <3>0, LiveAlone DEF Unspent
    <3>3. ~Signing(x)'
      BY <2>1, <2>2, <2>4, <3>0, LiveAlone DEF Signing
    <3>4. StateOf(x) = "live" /\ StateOf(x)' = "spent"
      BY <2>1, <3>1, <3>2, <3>3 DEF StateOf
    <3>5. \A y \in Secrets \ {x} : StateOf(y)' = StateOf(y)
      <4> TAKE y \in Secrets \ {x}
      <4>1. Signing(y)' <=> Signing(y)
        BY <2>2 DEF Signing
      <4>2. QED
        BY <2>1, <2>3, <3>0, <4>1 DEF StateOf
    <3>6. Token!Move(x, "live", "spent")
      BY <3>4, <3>5, Moved
    <3>7. QED
      BY <2>1, <3>1, <3>6 DEF Token!TokenNext, Token!Discard
  <2>5. CASE secbuf[n] = Zero
    <3>1. secbuf[n] \notin Secrets
      BY <2>5, SecretsAssumption
    <3>2. QED
      BY <2>1, <2>2, <2>3, <3>1, Stutter
  <2>6. CASE used[n] /\ secbuf[n] # Zero
    <3>1. \A y \in Secrets : Unspent(y)' <=> Unspent(y)
      BY <2>1, <2>6 DEF Unspent
    <3>2. QED
      BY <2>1, <2>2, <3>1, Stutter
  <2>7. QED
    BY <2>4, <2>5, <2>6
<1>3. ASSUME NEW t \in Threads, NEW n \in Nonces, NEW k \in Keys,
            NEW src \in Bufs \cup {None}, GenCall(t, n, k, src)
      PROVE  [Token!TokenNext]_(Token!vars)
  <2> USE <1>3 DEF GenCall
  <2>1. UNCHANGED <<minted, issued>>
    OBVIOUS
  <2>2. \A x \in Secrets : Unspent(x)' <=> Unspent(x)
    BY DEF Unspent
  <2>3. \A x \in Secrets, u \in Threads : SignsWith(u, x)' <=> SignsWith(u, x)
    OBVIOUS
  <2>4. QED
    BY <2>1, <2>2, <2>3, Stutter
<1>4. ASSUME NEW t \in Threads, NEW n \in Nonces, NEW k \in Keys,
            NEW s \in Sessions, SignCall(t, n, k, s)
      PROVE  [Token!TokenNext]_(Token!vars)
  <2> USE <1>4 DEF SignCall
  <2>1. UNCHANGED <<minted, issued>>
    OBVIOUS
  <2>2. \A x \in Secrets : Unspent(x)' <=> Unspent(x)
    BY DEF Unspent
  <2>3. \A x \in Secrets, u \in Threads : SignsWith(u, x)' <=> SignsWith(u, x)
    OBVIOUS
  <2>4. QED
    BY <2>1, <2>2, <2>3, Stutter
<1>5. ASSUME NEW t \in Threads, GenReject(t)
      PROVE  [Token!TokenNext]_(Token!vars)
  <2> USE <1>5 DEF GenReject
  <2>1. UNCHANGED <<minted, issued>>
    OBVIOUS
  <2>2. \A x \in Secrets : Unspent(x)' <=> Unspent(x)
    BY DEF Unspent
  <2>3. \A x \in Secrets, u \in Threads : SignsWith(u, x)' <=> SignsWith(u, x)
    OBVIOUS
  <2>4. QED
    BY <2>1, <2>2, <2>3, Stutter
<1>6. ASSUME NEW t \in Threads, GenSeed(t)
      PROVE  [Token!TokenNext]_(Token!vars)
  <2> USE <1>6 DEF GenSeed
  <2>1. UNCHANGED <<minted, issued>>
    OBVIOUS
  <2>2. \A x \in Secrets : Unspent(x)' <=> Unspent(x)
    BY DEF Unspent
  <2>3. \A x \in Secrets, u \in Threads : SignsWith(u, x)' <=> SignsWith(u, x)
    OBVIOUS
  <2>4. QED
    BY <2>1, <2>2, <2>3, Stutter
<1>7. ASSUME NEW t \in Threads, GenNative(t)
      PROVE  [Token!TokenNext]_(Token!vars)
  <2> USE <1>7 DEF GenNative, SeedOf
  <2>1. UNCHANGED <<minted, issued>>
    OBVIOUS
  <2>2. \A x \in Secrets : Unspent(x)' <=> Unspent(x)
    BY DEF Unspent
  <2>3. \A x \in Secrets, u \in Threads : SignsWith(u, x)' <=> SignsWith(u, x)
    OBVIOUS
  <2>4. QED
    BY <2>1, <2>2, <2>3, Stutter
<1>8. ASSUME NEW t \in Threads, GenFail(t)
      PROVE  [Token!TokenNext]_(Token!vars)
  <2> USE <1>8 DEF GenFail
  <2>1. UNCHANGED <<minted, issued>>
    OBVIOUS
  <2>2. \A x \in Secrets : Unspent(x)' <=> Unspent(x)
    BY DEF Unspent
  <2>3. \A x \in Secrets, u \in Threads : SignsWith(u, x)' <=> SignsWith(u, x)
    OBVIOUS
  <2>4. QED
    BY <2>1, <2>2, <2>3, Stutter
<1>9. ASSUME NEW t \in Threads, GenSerialize(t)
      PROVE  [Token!TokenNext]_(Token!vars)
  <2> USE <1>9 DEF GenSerialize
  <2>1. UNCHANGED <<minted, issued>>
    OBVIOUS
  <2>2. \A x \in Secrets : Unspent(x)' <=> Unspent(x)
    BY DEF Unspent
  <2>3. \A x \in Secrets, u \in Threads : SignsWith(u, x)' <=> SignsWith(u, x)
    OBVIOUS
  <2>4. QED
    BY <2>1, <2>2, <2>3, Stutter
<1>10. ASSUME NEW t \in Threads, GenFinish(t)
      PROVE  [Token!TokenNext]_(Token!vars)
  <2> USE <1>10 DEF GenFinish, WipeSeed
  <2> DEFINE n == call[t].nonce
  <2>1. /\ n \in Nonces /\ bound[n] = None
        /\ \A u \in Threads \ {t} :
              pc'[u] = pc[u] /\ psig'[u] = psig[u] /\ call'[u] = call[u]
        /\ pc'[t] = "idle" /\ UNCHANGED issued
        /\ \A m \in Nonces \ {n} :
              secbuf'[m] = secbuf[m] /\ bound'[m] = bound[m] /\ (used'[m] <=> used[m])
    OBVIOUS
  <2>2. \A y \in Secrets, u \in Threads : SignsWith(u, y)' <=> SignsWith(u, y)
    <3> TAKE y \in Secrets, u \in Threads
    <3>1. CASE u = t
      BY <2>1, <3>1
    <3>2. CASE u # t
      <4>1. pc[u] \in {"bind", "native"} => call[u].nonce \in Nonces \ {n}
        BY <2>1, KeysAssumption
      <4>2. QED
        BY <2>1, <3>2, <4>1
    <3>3. QED
      BY <3>1, <3>2
  <2>3. CASE psig[t] = None
    <3>1. UNCHANGED <<minted, secbuf, bound, used>>
      BY <2>3
    <3>2. \A y \in Secrets : Unspent(y)' <=> Unspent(y)
      BY <3>1 DEF Unspent
    <3>3. QED
      BY <2>1, <2>2, <3>1, <3>2, Stutter
  <2>4. CASE psig[t] # None
    <3>0. PICK x \in Secrets : x = psig[t]
      BY <2>4
    <3>1. /\ minted' = minted \cup {x}
          /\ secbuf'[n] = x /\ bound'[n] # None /\ ~used'[n]
      BY <2>4, <3>0, KeysAssumption
    <3>2. x \notin minted
      BY <2>4, <3>0 DEF MintedInv
    <3>3. Unspent(x)'
      BY <2>1, <3>1 DEF Unspent
    <3>4. \A y \in Secrets \ {x} : Unspent(y)' <=> Unspent(y)
      BY <2>1, <3>1 DEF Unspent
    <3>5. StateOf(x) = "absent" /\ StateOf(x)' = "live"
      BY <3>1, <3>2, <3>3 DEF StateOf
    <3>6. \A y \in Secrets \ {x} : StateOf(y)' = StateOf(y)
      <4> TAKE y \in Secrets \ {x}
      <4>1. Signing(y)' <=> Signing(y)
        BY <2>2 DEF Signing
      <4>2. y \in minted' <=> y \in minted
        BY <3>1
      <4>3. QED
        BY <3>4, <4>1, <4>2 DEF StateOf
    <3>7. Token!Move(x, "absent", "live")
      BY <3>5, <3>6, Moved
    <3>8. QED
      BY <2>1, <3>1, <3>7 DEF Token!TokenNext, Token!Create
  <2>5. QED
    BY <2>3, <2>4
<1>11. ASSUME NEW t \in Threads, Acquire(t)
      PROVE  [Token!TokenNext]_(Token!vars)
  <2> USE <1>11 DEF Acquire
  <2>1. UNCHANGED <<minted, issued>>
    OBVIOUS
  <2>2. \A x \in Secrets : Unspent(x)' <=> Unspent(x)
    BY DEF Unspent
  <2>3. \A x \in Secrets, u \in Threads : SignsWith(u, x)' <=> SignsWith(u, x)
    OBVIOUS
  <2>4. QED
    BY <2>1, <2>2, <2>3, Stutter
<1>12. ASSUME NEW t \in Threads, RefuseUsed(t)
      PROVE  [Token!TokenNext]_(Token!vars)
  <2> USE <1>12 DEF RefuseUsed
  <2>1. UNCHANGED <<minted, issued>>
    OBVIOUS
  <2>2. \A x \in Secrets : Unspent(x)' <=> Unspent(x)
    BY DEF Unspent
  <2>3. \A x \in Secrets, u \in Threads : SignsWith(u, x)' <=> SignsWith(u, x)
    OBVIOUS
  <2>4. QED
    BY <2>1, <2>2, <2>3, Stutter
<1>13. ASSUME NEW t \in Threads, FindUnused(t)
      PROVE  [Token!TokenNext]_(Token!vars)
  <2> USE <1>13 DEF FindUnused
  <2>1. UNCHANGED <<minted, issued>>
    OBVIOUS
  <2>2. \A x \in Secrets : Unspent(x)' <=> Unspent(x)
    BY DEF Unspent
  <2>3. \A x \in Secrets, u \in Threads : SignsWith(u, x)' <=> SignsWith(u, x)
    OBVIOUS
  <2>4. QED
    BY <2>1, <2>2, <2>3, Stutter
<1>14. ASSUME NEW t \in Threads, MarkUsed(t)
      PROVE  [Token!TokenNext]_(Token!vars)
  <2> USE <1>14 DEF MarkUsed
  <2> DEFINE n == call[t].nonce
  <2>1. /\ UNCHANGED <<minted, issued, secbuf, bound>>
        /\ n \in Nonces /\ bound[n] # None /\ psig[t] = None /\ pc'[t] = "bind"
        /\ \A m \in Nonces \ {n} : used'[m] <=> used[m]
        /\ used'[n]
    BY KeysAssumption
  <2>2. \A y \in Secrets : y # secbuf[n] => (SignsWith(t, y)' <=> SignsWith(t, y))
    BY <2>1
  <2>3. \A y \in Secrets, u \in Threads \ {t} : SignsWith(u, y)' <=> SignsWith(u, y)
    BY <2>1
  <2>4. \A y \in Secrets : y # secbuf[n] => (Unspent(y)' <=> Unspent(y))
    BY <2>1 DEF Unspent
  <2>5. CASE secbuf[n] # Zero
    <3>0. ~used[n]
      BY DEF UsedInv
    <3>1. PICK x \in Secrets : x = secbuf[n]
      BY <2>1, <2>5, <3>0, LiveAlone
    <3>2. x \in minted /\ Unspent(x) /\ ~Unspent(x)'
      BY <2>1, <2>5, <3>0, <3>1, LiveAlone DEF Unspent
    <3>3. SignsWith(t, x)'
      BY <2>1, <3>1
    <3>4. StateOf(x) = "live" /\ StateOf(x)' = "signing"
      BY <2>1, <3>2, <3>3 DEF StateOf, Signing
    <3>5. \A y \in Secrets \ {x} : StateOf(y)' = StateOf(y)
      <4> TAKE y \in Secrets \ {x}
      <4>1. Signing(y)' <=> Signing(y)
        BY <2>2, <2>3, <3>1 DEF Signing
      <4>2. QED
        BY <2>1, <2>4, <3>1, <4>1 DEF StateOf
    <3>6. Token!Move(x, "live", "signing")
      BY <3>4, <3>5, Moved
    <3>7. QED
      BY <2>1, <3>6 DEF Token!TokenNext, Token!Begin
  <2>6. CASE secbuf[n] = Zero
    <3>1. secbuf[n] \notin Secrets
      BY <2>6, SecretsAssumption
    <3>2. QED
      BY <2>1, <2>2, <2>3, <2>4, <3>1, Stutter
  <2>7. QED
    BY <2>5, <2>6
<1>15. ASSUME NEW t \in Threads, CheckBinding(t)
      PROVE  [Token!TokenNext]_(Token!vars)
  <2> USE <1>15 DEF CheckBinding
  <2>1. UNCHANGED <<minted, issued>>
    OBVIOUS
  <2>2. \A x \in Secrets : Unspent(x)' <=> Unspent(x)
    BY DEF Unspent
  <2>3. \A x \in Secrets, u \in Threads : SignsWith(u, x)' <=> SignsWith(u, x)
    OBVIOUS
  <2>4. QED
    BY <2>1, <2>2, <2>3, Stutter
<1>16. ASSUME NEW t \in Threads, SignFail(t)
      PROVE  [Token!TokenNext]_(Token!vars)
  <2> USE <1>16 DEF SignFail
  <2>0. UNCHANGED issued
    OBVIOUS
  <2>1. /\ UNCHANGED <<minted, secbuf, bound, used>>
        /\ \A u \in Threads \ {t} :
              pc'[u] = pc[u] /\ psig'[u] = psig[u] /\ call'[u] = call[u]
        /\ psig'[t] = None /\ pc'[t] \notin {"bind", "native"}
    OBVIOUS
  <2>2. \A x \in Secrets : ~SignsWith(t, x)'
    BY <2>1
  <2>3. \A x \in Secrets, u \in Threads \ {t} : SignsWith(u, x)' <=> SignsWith(u, x)
    BY <2>1
  <2>4. CASE \E x \in Secrets : SignsWith(t, x)
    <3>1. PICK x \in Secrets : SignsWith(t, x)
      BY <2>4
    <3>2. Token!Move(x, "signing", "spent")
      BY <2>1, <2>2, <2>3, <3>1, EndsSigning
    <3>3. QED
      BY <2>0, <3>2 DEF Token!TokenNext, Token!Finish
  <2>5. CASE \A x \in Secrets : ~SignsWith(t, x)
    <3>1. \A x \in Secrets : Unspent(x)' <=> Unspent(x)
      BY <2>1 DEF Unspent
    <3>2. \A x \in Secrets, u \in Threads : SignsWith(u, x)' <=> SignsWith(u, x)
      BY <2>2, <2>3, <2>5
    <3>3. QED
      BY <2>0, <2>1, <3>1, <3>2, Stutter
  <2>6. QED
    BY <2>4, <2>5
<1>17. ASSUME NEW t \in Threads, NativeLoad(t)
      PROVE  [Token!TokenNext]_(Token!vars)
  <2> USE <1>17 DEF NativeLoad
  <2>1. UNCHANGED <<minted, issued>>
    OBVIOUS
  <2>2. \A x \in Secrets : Unspent(x)' <=> Unspent(x)
    BY DEF Unspent
  <2>3. \A x \in Secrets, u \in Threads : SignsWith(u, x)' <=> SignsWith(u, x)
    OBVIOUS
  <2>4. QED
    BY <2>1, <2>2, <2>3, Stutter
<1>18. ASSUME NEW t \in Threads, NativeClear(t)
      PROVE  [Token!TokenNext]_(Token!vars)
  <2> USE <1>18 DEF NativeClear
  <2>1. /\ UNCHANGED <<minted, issued, bound, used>>
        /\ call[t].nonce \in Nonces /\ used[call[t].nonce]
        /\ \A m \in Nonces \ {call[t].nonce} : secbuf'[m] = secbuf[m]
        /\ \A u \in Threads \ {t} :
              pc'[u] = pc[u] /\ psig'[u] = psig[u] /\ call'[u] = call[u]
    BY DEF UsedInv
  <2>2. \A x \in Secrets : Unspent(x)' <=> Unspent(x)
    BY <2>1 DEF Unspent
  <2>3. \A x \in Secrets, u \in Threads : SignsWith(u, x)' <=> SignsWith(u, x)
    <3> TAKE x \in Secrets, u \in Threads
    <3>1. CASE u = t
      BY <2>1, <3>1
    <3>2. CASE u # t
      <4>1. pc[u] \in {"bind", "native"} =>
              call[u].nonce \in Nonces \ {call[t].nonce}
        BY <2>1, <3>2 DEF ExclusionInv, Held
      <4>2. QED
        BY <2>1, <3>2, <4>1
    <3>3. QED
      BY <3>1, <3>2
  <2>4. QED
    BY <2>1, <2>2, <2>3, Stutter
<1>19. ASSUME NEW t \in Threads, Serialize(t)
      PROVE  [Token!TokenNext]_(Token!vars)
  <2> USE <1>19 DEF Serialize
  <2>1. UNCHANGED <<minted, issued>>
    OBVIOUS
  <2>2. \A x \in Secrets : Unspent(x)' <=> Unspent(x)
    BY DEF Unspent
  <2>3. \A x \in Secrets, u \in Threads : SignsWith(u, x)' <=> SignsWith(u, x)
    OBVIOUS
  <2>4. QED
    BY <2>1, <2>2, <2>3, Stutter
<1>20. ASSUME NEW t \in Threads, Wipe(t)
      PROVE  [Token!TokenNext]_(Token!vars)
  <2> USE <1>20 DEF Wipe
  <2>1. /\ UNCHANGED <<minted, issued, bound, used>>
        /\ call[t].nonce \in Nonces /\ used[call[t].nonce]
        /\ \A m \in Nonces \ {call[t].nonce} : secbuf'[m] = secbuf[m]
        /\ \A u \in Threads \ {t} :
              pc'[u] = pc[u] /\ psig'[u] = psig[u] /\ call'[u] = call[u]
    BY DEF UsedInv
  <2>2. \A x \in Secrets : Unspent(x)' <=> Unspent(x)
    BY <2>1 DEF Unspent
  <2>3. \A x \in Secrets, u \in Threads : SignsWith(u, x)' <=> SignsWith(u, x)
    <3> TAKE x \in Secrets, u \in Threads
    <3>1. CASE u = t
      BY <2>1, <3>1
    <3>2. CASE u # t
      <4>1. pc[u] \in {"bind", "native"} =>
              call[u].nonce \in Nonces \ {call[t].nonce}
        BY <2>1, <3>2 DEF ExclusionInv, Held
      <4>2. QED
        BY <2>1, <3>2, <4>1
    <3>3. QED
      BY <3>1, <3>2
  <2>4. QED
    BY <2>1, <2>2, <2>3, Stutter
<1>21. ASSUME NEW t \in Threads, Release(t)
      PROVE  [Token!TokenNext]_(Token!vars)
  <2> USE <1>21 DEF Release
  <2>1. /\ UNCHANGED <<minted, secbuf, bound, used>>
        /\ \A u \in Threads \ {t} :
              pc'[u] = pc[u] /\ psig'[u] = psig[u] /\ call'[u] = call[u]
        /\ psig'[t] = None /\ pc'[t] = "idle"
    OBVIOUS
  <2>2. \A x \in Secrets : ~SignsWith(t, x)'
    BY <2>1
  <2>3. \A x \in Secrets, u \in Threads \ {t} : SignsWith(u, x)' <=> SignsWith(u, x)
    BY <2>1
  <2>4. CASE psig[t] # None
    <3> DEFINE x == psig[t]
               sig == [secret |-> x, key |-> call[t].key, session |-> call[t].session]
               use == <<call[t].key, call[t].session>>
    <3>1. x \in Secrets /\ SignsWith(t, x)
      BY <2>4
    <3>2. Token!Move(x, "signing", "spent")
      BY <2>1, <2>2, <2>3, <3>1, EndsSigning
    <3>3. use \in Keys \X Sessions
      OBVIOUS
    <3>4. issued' = issued \cup {sig}
      BY <2>4
    <3>5. {<<p.secret, <<p.key, p.session>>>> : p \in issued'}
          = {<<p.secret, <<p.key, p.session>>>> : p \in issued} \cup {<<x, use>>}
      <4>1. sig.secret = x /\ <<sig.key, sig.session>> = use
        OBVIOUS
      <4> HIDE DEF sig, use, x
      <4>2. QED
        BY <3>4, <4>1
    <3>6. QED
      BY <3>1, <3>2, <3>3, <3>5 DEF Token!TokenNext, Token!Finish
  <2>5. CASE psig[t] = None
    <3>1. \A x \in Secrets : Unspent(x)' <=> Unspent(x)
      BY <2>1 DEF Unspent
    <3>2. \A x \in Secrets, u \in Threads : SignsWith(u, x)' <=> SignsWith(u, x)
      BY <2>2, <2>3, <2>5
    <3>3. issued' = issued
      BY <2>5
    <3>4. QED
      BY <2>1, <3>1, <3>2, <3>3, Stutter
  <2>6. QED
    BY <2>4, <2>5
<1>22. ASSUME NEW t \in Threads, InterruptSign(t)
      PROVE  [Token!TokenNext]_(Token!vars)
  <2> USE <1>22 DEF InterruptSign
  <2>0. UNCHANGED issued
    OBVIOUS
  <2>1. /\ UNCHANGED <<minted, secbuf, bound, used>>
        /\ \A u \in Threads \ {t} :
              pc'[u] = pc[u] /\ psig'[u] = psig[u] /\ call'[u] = call[u]
        /\ psig'[t] = None /\ pc'[t] \notin {"bind", "native"}
    OBVIOUS
  <2>2. \A x \in Secrets : ~SignsWith(t, x)'
    BY <2>1
  <2>3. \A x \in Secrets, u \in Threads \ {t} : SignsWith(u, x)' <=> SignsWith(u, x)
    BY <2>1
  <2>4. CASE \E x \in Secrets : SignsWith(t, x)
    <3>1. PICK x \in Secrets : SignsWith(t, x)
      BY <2>4
    <3>2. Token!Move(x, "signing", "spent")
      BY <2>1, <2>2, <2>3, <3>1, EndsSigning
    <3>3. QED
      BY <2>0, <3>2 DEF Token!TokenNext, Token!Finish
  <2>5. CASE \A x \in Secrets : ~SignsWith(t, x)
    <3>1. \A x \in Secrets : Unspent(x)' <=> Unspent(x)
      BY <2>1 DEF Unspent
    <3>2. \A x \in Secrets, u \in Threads : SignsWith(u, x)' <=> SignsWith(u, x)
      BY <2>2, <2>3, <2>5
    <3>3. QED
      BY <2>0, <2>1, <3>1, <3>2, Stutter
  <2>6. QED
    BY <2>4, <2>5
<1>23. ASSUME NEW t \in Threads, InterruptGen(t)
      PROVE  [Token!TokenNext]_(Token!vars)
  <2> USE <1>23 DEF InterruptGen
  <2>1. UNCHANGED <<minted, issued>>
    OBVIOUS
  <2>2. \A x \in Secrets : Unspent(x)' <=> Unspent(x)
    BY DEF Unspent
  <2>3. \A x \in Secrets, u \in Threads : SignsWith(u, x)' <=> SignsWith(u, x)
    OBVIOUS
  <2>4. QED
    BY <2>1, <2>2, <2>3, Stutter
<1>24. CASE UNCHANGED vars
  <2>1. UNCHANGED <<minted, issued, secbuf, bound, used, pc, psig, call>>
    BY <1>24 DEF vars
  <2>2. QED
    BY <2>1, Stutter DEF Unspent
<1>25. QED
  BY <1>1, <1>2, <1>3, <1>4, <1>5, <1>6, <1>7, <1>8, <1>9, <1>10,
     <1>11, <1>12, <1>13, <1>14, <1>15, <1>16, <1>17, <1>18, <1>19,
     <1>20, <1>21, <1>22, <1>23, <1>24
  DEF Next, Step

\* In the beginning there is no secret.
LEMMA RefinementInit == Init => RInv /\ Token!TokenInit
<1> SUFFICES ASSUME Init
             PROVE  RInv /\ Token!TokenInit
  OBVIOUS
<1>1. RInv
  BY IInvInit DEF RInv, Init, MintedInv, UsedInv, InTry
<1>2. token = [x \in Secrets |-> "absent"]
  BY DEF Init, token, StateOf
<1>3. {<<p.secret, <<p.key, p.session>>>> : p \in issued} = {}
  BY DEF Init
<1>4. QED
  BY <1>1, <1>2, <1>3 DEF Token!TokenInit

\* A SecNonce implements the single-use token: whatever the threads, failures
\* and signals do, it goes from live to spent once, and is used at most once.
THEOREM Refinement == Spec => ImplementsSingleUse
<1>1. RInv /\ [Next]_vars => RInv'
  BY TypeStep, CallStep, ExclusionStep, BindingStep, WipeStep, DrawnStep, OnePlaceStep,
     MintedStep, UsedStep
  DEF RInv, IInv
<1>2. RInv /\ [Next]_vars => [Token!TokenNext]_(Token!vars)
  BY RefinementStep
<1>3. QED
  BY RefinementInit, <1>1, <1>2, PTL DEF Spec, ImplementsSingleUse, Token!Spec

=============================================================================
