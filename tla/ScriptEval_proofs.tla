------------------------- MODULE ScriptEval_proofs -------------------------
(* For any scripts, limits and sets of flags: a witness is accepted only     *)
(* where the output asks for one, whatever the operations of the scripts do; *)
(* no operation exceeds the limits or leaves a wrongly typed state; a failed *)
(* check under NULLFAIL held no signature; and what is accepted under a set  *)
(* of flags is accepted under fewer.                                         *)
EXTENDS ScriptEval, SequenceTheorems, FiniteSetTheorems, NaturalsInduction,
        WellFoundedInduction, TLAPS

-----------------------------------------------------------------------------
(* The invariant.                                                            *)

\* The output of an input asks for a witness, by itself or through the one
\* script that the scriptSig pushes.
AsksForWitness(i) ==
    \/ IsWitnessScriptPubKey(i.pub) /\ i.sig = <<>>
    \/ /\ IsP2SH(i.pub)
       /\ Len(i.sig) = 1
       /\ \E s \in {ScriptOf(Pushed(i.sig)[1])} :
             /\ IsWitnessScriptPubKey(s)
             /\ i.sig = <<<<"PUSH", ElementOf(s)>>>>

\* An answer "ok" under flags F that look at the witness.
Justified(F) == "WITNESS" \in F /\ inp.wit # <<>> => AsksForWitness(inp)

VerdictInv ==
    /\ verdict \in Seq({"ok", "rejected"}) /\ trial = Len(verdict) + 1
    /\ \A i \in DOMAIN verdict : verdict[i] = "ok" => Justified(Trials[i])

\* What the script being evaluated tells of the input.
PhaseInv ==
    /\ phase = "redeemScript" => IsP2SH(inp.pub)
    /\ phase = "witness" => AsksForWitness(inp)

IInv == VerdictInv /\ PhaseInv

-----------------------------------------------------------------------------
(* What the steps change of it.                                              *)

\* An answer ends the call.
LEMMA AnswerStep ==
    ASSUME IInv, NEW v \in {"ok", "rejected"}, Answer(v),
           v = "ok" => Justified(flags)
    PROVE  IInv'
<1>1. /\ verdict' = Append(verdict, v) /\ trial' = trial + 1
      /\ phase' = "idle" /\ inp' = inp
  BY DEF Answer, Enter
<1>2. /\ verdict \in Seq({"ok", "rejected"}) /\ trial = Len(verdict) + 1
      /\ \A i \in DOMAIN verdict : verdict[i] = "ok" => Justified(Trials[i])
  BY DEF IInv, VerdictInv
<1>3. /\ verdict' \in Seq({"ok", "rejected"}) /\ trial' = Len(verdict') + 1
      /\ DOMAIN verdict' = 1 .. Len(verdict) + 1
      /\ verdict'[Len(verdict) + 1] = v
      /\ \A i \in DOMAIN verdict : verdict'[i] = verdict[i]
      /\ DOMAIN verdict = 1 .. Len(verdict) /\ Len(verdict) \in Nat
  BY <1>1, <1>2
<1>4. ASSUME NEW i \in DOMAIN verdict', verdict'[i] = "ok"
      PROVE  Justified(Trials[i])
  <2>1. CASE i = Len(verdict) + 1
    BY <1>2, <1>3, <1>4, <2>1 DEF flags
  <2>2. CASE i # Len(verdict) + 1
    BY <1>2, <1>3, <1>4, <2>2
  <2>3. QED
    BY <2>1, <2>2
<1>5. VerdictInv'
  BY <1>1, <1>3, <1>4 DEF VerdictInv, Justified
<1>6. PhaseInv'
  BY <1>1 DEF PhaseInv
<1>7. QED
  BY <1>5, <1>6 DEF IInv

LEMMA RaiseStep == ASSUME IInv, Raise PROVE IInv'
BY AnswerStep DEF Raise

\* A script is entered.
LEMMA EnterStep ==
    ASSUME IInv, NEW ph, NEW s, NEW st, Enter(ph, s, st),
           UNCHANGED <<inp, trial, verdict>>,
           ph = "redeemScript" => IsP2SH(inp.pub),
           ph = "witness" => AsksForWitness(inp)
    PROVE  IInv'
<1>1. phase' = ph /\ UNCHANGED <<inp, trial, verdict>>
  BY DEF Enter
<1>2. VerdictInv'
  BY <1>1 DEF IInv, VerdictInv, Justified
<1>3. PhaseInv'
  BY <1>1 DEF PhaseInv
<1>4. QED
  BY <1>2, <1>3 DEF IInv

\* An operation leaves the input, the call and the phase alone.
LEMMA LeaveEffect ==
    ASSUME NEW st, NEW alt, NEW exec, NEW begin, NEW count,
           Leave(st, alt, exec, begin, count)
    PROVE  Raise \/ UNCHANGED <<inp, trial, verdict, phase>>
BY DEF Leave

LEMMA EvalEffect ==
    ASSUME EvalStep
    PROVE  Raise \/ UNCHANGED <<inp, trial, verdict, phase>>
<1>1. CASE NotPermitted \/ OpFails
  BY <1>1 DEF NotPermitted, OpFails
<1>2. CASE Skip \/ Push \/ Rearrange \/ IfDup \/ PickOrRoll \/ Measure
  BY <1>2, LeaveEffect
     DEF Skip, Push, Rearrange, IfDup, PickOrRoll, Measure, LeaveStack
<1>3. CASE Arithmetic \/ Hash \/ Equal \/ Verified \/ CheckSigOp
  BY <1>3, LeaveEffect
     DEF Arithmetic, Hash, Equal, Verified, CheckSigOp, LeaveStack
<1>4. CASE CheckMultiSig \/ AltStack \/ CodeSeparator \/ Nop \/ If
           \/ ElseOrEndIf
  BY <1>4, LeaveEffect
     DEF CheckMultiSig, AltStack, CodeSeparator, Nop, If, ElseOrEndIf,
         LeaveStack
<1>5. QED
  BY <1>1, <1>2, <1>3, <1>4 DEF EvalStep

LEMMA EvalStepKeeps == ASSUME IInv, EvalStep PROVE IInv'
<1>1. CASE Raise
  BY <1>1, RaiseStep
<1>2. CASE UNCHANGED <<inp, trial, verdict, phase>>
  BY <1>2 DEF IInv, VerdictInv, PhaseInv, Justified
<1>3. QED
  BY <1>1, <1>2, EvalEffect

-----------------------------------------------------------------------------
(* The passage from one script to the next.                                  *)

LEMMA ConcludeStep ==
    ASSUME IInv, NEW st, NEW had \in BOOLEAN, Conclude(st, had),
           had => AsksForWitness(inp)
    PROVE  IInv'
<1>1. CASE Raise
  BY <1>1, RaiseStep
<1>2. CASE /\ Answer("ok")
           /\ "WITNESS" \in flags => had \/ inp.wit = <<>>
  <2>1. Justified(flags)
    BY <1>2 DEF Justified
  <2>2. QED
    BY <1>2, <2>1, AnswerStep
<1>3. QED
  BY <1>1, <1>2 DEF Conclude

LEMMA EvaluateWitnessStep ==
    ASSUME IInv, NEW s, NEW st, EvaluateWitness(s, st), AsksForWitness(inp)
    PROVE  IInv'
<1>1. CASE Raise
  BY <1>1, RaiseStep
<1>2. CASE Enter("witness", s, st) /\ UNCHANGED <<inp, trial, verdict, stackCopy>>
  BY <1>2, EnterStep
<1>3. QED
  BY <1>1, <1>2 DEF EvaluateWitness

LEMMA WitnessProgramStep ==
    ASSUME IInv, NEW s, WitnessProgram(s), AsksForWitness(inp)
    PROVE  IInv'
<1>1. \/ Raise
      \/ Conclude(<<Last(stack)>>, TRUE)
      \/ EvaluateWitness(ScriptOf(Last(inp.wit)), Front(inp.wit))
      \/ EvaluateWitness(KeyHashScript(s[2][2]), inp.wit)
  BY DEF WitnessProgram
<1>2. QED
  BY <1>1, RaiseStep, ConcludeStep, EvaluateWitnessStep

LEMMA EndScriptPubKeyStep == ASSUME IInv, EndScriptPubKey PROVE IInv'
<1>1. CASE Raise
  BY <1>1, RaiseStep
<1>2. CASE SpendsWitness(inp.pub) /\ inp.sig = <<>> /\ WitnessProgram(inp.pub)
  BY <1>2, WitnessProgramStep DEF SpendsWitness, AsksForWitness
<1>3. CASE /\ SpendsP2SH
           /\ Enter("redeemScript", ScriptOf(Last(stackCopy)), Front(stackCopy))
           /\ UNCHANGED <<inp, trial, verdict, stackCopy>>
  BY <1>3, EnterStep DEF SpendsP2SH
<1>4. CASE Conclude(stack, FALSE)
  BY <1>4, ConcludeStep
<1>5. QED
  BY <1>1, <1>2, <1>3, <1>4 DEF EndScriptPubKey

\* The script that was pushed is the one that was run.
LEMMA PushedScript ==
    ASSUME NEW s, IsWitnessScriptPubKey(s)
    PROVE  ScriptOf(ElementOf(s)) = s
<1>1. s # <<>>
  BY DEF IsWitnessScriptPubKey
<1>2. ElementOf(s) = <<"script", s>>
  BY <1>1 DEF ElementOf
<1>3. <<"script", s>> # Zero
  BY DEF Zero
<1>4. QED
  BY <1>2, <1>3 DEF ScriptOf

LEMMA EndRedeemScriptStep == ASSUME IInv, EndRedeemScript PROVE IInv'
<1>1. IsP2SH(inp.pub)
  BY DEF EndRedeemScript, AtEnd, IInv, PhaseInv
<1>2. CASE Raise
  BY <1>2, RaiseStep
<1>3. CASE /\ SpendsWitness(script) /\ WitnessProgram(script)
           /\ inp.sig = <<<<"PUSH", ElementOf(script)>>>>
  <2>1. IsWitnessScriptPubKey(script)
    BY <1>3 DEF SpendsWitness
  <2>2. Len(inp.sig) = 1 /\ Pushed(inp.sig)[1] = ElementOf(script)
    BY <1>3 DEF Pushed
  <2>3. ScriptOf(Pushed(inp.sig)[1]) = script
    BY <2>1, <2>2, PushedScript
  <2>4. AsksForWitness(inp)
    BY <1>1, <1>3, <2>1, <2>2, <2>3 DEF AsksForWitness
  <2>5. QED
    BY <1>3, <2>4, WitnessProgramStep
<1>4. CASE Conclude(stack, FALSE)
  BY <1>4, ConcludeStep
<1>5. QED
  BY <1>2, <1>3, <1>4 DEF EndRedeemScript

LEMMA EndWitnessStep == ASSUME IInv, EndWitness PROVE IInv'
<1>1. AsksForWitness(inp)
  BY DEF EndWitness, AtEnd, IInv, PhaseInv
<1>2. QED
  BY <1>1, RaiseStep, ConcludeStep DEF EndWitness

-----------------------------------------------------------------------------
LEMMA IInvInit == Init => IInv
BY DEF Init, IInv, VerdictInv, PhaseInv

LEMMA IInvStep == IInv /\ [Next]_vars => IInv'
<1> SUFFICES ASSUME IInv, [Next]_vars PROVE IInv'
  OBVIOUS
<1>1. CASE StartScriptSig
  BY <1>1, RaiseStep, EnterStep DEF StartScriptSig
<1>2. CASE EvalStep
  BY <1>2, EvalStepKeeps
<1>3. CASE Unterminated
  BY <1>3, RaiseStep DEF Unterminated
<1>4. CASE StartScriptPubKey
  BY <1>4, EnterStep DEF StartScriptPubKey
<1>5. CASE EndScriptPubKey
  BY <1>5, EndScriptPubKeyStep
<1>6. CASE EndRedeemScript
  BY <1>6, EndRedeemScriptStep
<1>7. CASE EndWitness
  BY <1>7, EndWitnessStep
<1>8. CASE UNCHANGED vars
  BY <1>8 DEF vars, IInv, VerdictInv, PhaseInv, Justified
<1>9. QED
  BY <1>1, <1>2, <1>3, <1>4, <1>5, <1>6, <1>7, <1>8 DEF Next, Finished

\* An accepted witness was asked for, at every moment of a call.
THEOREM Invariance == Spec => []IInv
<1>1. QED
  BY IInvInit, IInvStep, PTL DEF Spec

\* Nobody can add a witness to an input whose output does not ask for one, or
\* add to the scriptSig of one whose output does, under any flags that contain
\* WITNESS (VerifyScript: SCRIPT_ERR_WITNESS_UNEXPECTED and _MALLEATED).
THEOREM WitnessExpected == Spec => []WitnessOnlyWhereExpected
<1>1. IInv => WitnessOnlyWhereExpected
  <2> SUFFICES ASSUME IInv, NEW i \in DOMAIN verdict, verdict[i] = "ok",
                      "WITNESS" \in Trials[i], inp.wit # <<>>
               PROVE  AsksForWitness(inp)
    BY DEF WitnessOnlyWhereExpected, FlagsTried, Accepted, AsksForWitness
  <2>1. QED
    BY DEF IInv, VerdictInv, Justified
<1>2. QED
  BY <1>1, Invariance, PTL

-----------------------------------------------------------------------------
(* The operations: every one of them leaves elements that were on a stack    *)
(* before and at most one it computed or pushed.                             *)

\* The operation at hand computes, or pushes, this element.
Made(e) ==
    \/ \E n : e = Num(n)
    \/ \E op, of : e = <<"hash", op, of>>
    \/ Name = "PUSH" /\ e = Op[2]

Elems(e) == ToSet(stack) \cup ToSet(altstack) \cup {e}
Moves(st, alt) == \E e : Made(e) /\ st \in Seq(Elems(e)) /\ alt \in Seq(Elems(e))

\* The stacks are lists, the positions and counts are numbers.
Lists ==
    /\ stack \in Seq(ToSet(stack)) /\ altstack \in Seq(ToSet(altstack))
    /\ vfExec \in Seq(BOOLEAN)
    /\ pc \in Nat \ {0} /\ nOpCount \in Nat

\* What an operation that does not raise does.
Stepped ==
    /\ Running /\ Permitted
    /\ Moves(stack', altstack') /\ Len(stack') + Len(altstack') <= MaxStack
    /\ vfExec' \in Seq(BOOLEAN)
    /\ pbegincodehash' \in {pbegincodehash, pc + 1}
    /\ nOpCount' \in CountedOps .. MaxOps
    /\ pc' = pc + 1
    /\ UNCHANGED <<inp, trial, verdict, phase, script, stackCopy>>

LEMMA Limits ==
    /\ MaxOps \in Nat /\ MaxStack \in Nat /\ MaxElement \in Nat /\ MaxKeys \in Nat
    /\ MaxElement >= 32
BY LimitsAreNaturals, InputsAreScripts

LEMMA MadeNum == \A n : Made(Num(n))
BY Zenon DEF Made

LEMMA MadeBool == \A b : Made(Bool(b))
BY MadeNum DEF Bool

LEMMA MadeHash == \A op, of : Made(<<"hash", op, of>>)
BY Zenon DEF Made

\* The stacks are made of the elements that are on them.
LEMMA OwnElems ==
    ASSUME Lists, NEW e
    PROVE  /\ stack \in Seq(Elems(e)) /\ altstack \in Seq(Elems(e)) /\ e \in Elems(e)
           /\ Len(stack) \in Nat /\ Len(altstack) \in Nat
BY DEF Lists, Elems

\* Stacks made of elements that were there already.
LEMMA MovesOnly ==
    ASSUME NEW st, NEW alt,
           \A e : st \in Seq(Elems(e)) /\ alt \in Seq(Elems(e))
    PROVE  Moves(st, alt)
BY MadeNum, Zenon DEF Moves

\* The items an operation finds, and the stack below them.
LEMMA PopTop ==
    ASSUME Lists, NEW n \in Nat, Has(n), NEW e
    PROVE  /\ Pop(n) \in Seq(Elems(e)) /\ Len(Pop(n)) = Len(stack) - n
           /\ \A i \in 1 .. n : Top(i) \in Elems(e)
<1> DEFINE S == Elems(e)
<1>1. stack \in Seq(S) /\ Len(stack) \in Nat
  BY OwnElems
<1> HIDE DEF S
<1>2. Len(stack) - n \in 0 .. Len(stack)
  BY <1>1 DEF Has
<1>3. Pop(n) \in Seq(S) /\ Len(Pop(n)) = Len(stack) - n
  BY <1>1, <1>2 DEF Pop
<1>4. ASSUME NEW i \in 1 .. n PROVE Top(i) \in S
  <2>1. Len(stack) + 1 - i \in 1 .. Len(stack)
    BY <1>1, <1>2
  <2>2. QED
    BY <1>1, <2>1 DEF Top
<1>5. QED
  BY <1>3, <1>4 DEF S

\* The current operation counts, or does not, and is permitted.
LEMMA Counted ==
    ASSUME Lists, Permitted
    PROVE  CountedOps \in Nat /\ CountedOps <= MaxOps /\ CountedOps <= nOpCount + 1
BY DEF Lists, Permitted, CountedOps

LEMMA LeaveMoves ==
    ASSUME Lists, Running, Permitted,
           NEW st, NEW alt, NEW exec \in Seq(BOOLEAN),
           NEW begin \in {pbegincodehash, pc + 1}, NEW count \in CountedOps .. MaxOps,
           Moves(st, alt), Len(st) + Len(alt) \in Int,
           Leave(st, alt, exec, begin, count)
    PROVE  Raise \/ Stepped
<1>1. CASE Raise
  BY <1>1
<1>2. CASE /\ ~(Len(st) + Len(alt) > MaxStack)
           /\ stack' = st /\ altstack' = alt /\ vfExec' = exec
           /\ pbegincodehash' = begin /\ nOpCount' = count
           /\ pc' = pc + 1
           /\ UNCHANGED <<inp, trial, verdict, phase, script, stackCopy>>
  <2>1. Moves(stack', altstack')
    BY <1>2
  <2>2. Len(stack') + Len(altstack') <= MaxStack
    BY <1>2, Limits
  <2>3. QED
    BY <1>2, <2>1, <2>2 DEF Stepped
<1>3. QED
  BY <1>1, <1>2 DEF Leave

\* An operation that works on the stack alone, and leaves elements of it and
\* one made element.
LEMMA LeaveStackMoves ==
    ASSUME Lists, Running, Permitted, NEW st, NEW e, Made(e), st \in Seq(Elems(e)),
           LeaveStack(st)
    PROVE  Raise \/ Stepped
<1>1. altstack \in Seq(Elems(e)) /\ Len(altstack) \in Nat
  BY OwnElems
<1>2. Moves(st, altstack)
  BY <1>1 DEF Moves
<1>3. Len(st) + Len(altstack) \in Int
  BY <1>1
<1>4. vfExec \in Seq(BOOLEAN) /\ CountedOps \in CountedOps .. MaxOps
  BY Counted, Limits DEF Lists
<1>5. QED
  BY <1>2, <1>3, <1>4, LeaveMoves DEF LeaveStack

\* An operation that takes n items and leaves one it made.
LEMMA ReplaceMoves ==
    ASSUME Lists, Running, Permitted, NEW n \in Nat, Has(n), NEW e, Made(e),
           LeaveStack(Append(Pop(n), e))
    PROVE  Raise \/ Stepped
<1> DEFINE st == Append(Pop(n), e)
<1>1. Pop(n) \in Seq(Elems(e)) /\ e \in Elems(e)
  BY PopTop, OwnElems
<1>2. st \in Seq(Elems(e))
  BY <1>1
<1> HIDE DEF st
<1>3. LeaveStack(st)
  BY DEF st
<1>4. QED
  BY <1>2, <1>3, LeaveStackMoves

-----------------------------------------------------------------------------
(* The operations, one by one.                                               *)

ShuffleNames ==
    {"DROP", "2DROP", "DUP", "2DUP", "3DUP", "NIP", "OVER", "ROT", "2OVER",
     "SWAP", "2ROT", "TUCK", "2SWAP"}

\* What each operation puts back it has read.
Reads(r) == r[1] \in Nat /\ r[2] \in Seq(1 .. r[1])

LEMMA ShuffleReads ==
    /\ DOMAIN Shuffle = ShuffleNames
    /\ \A n \in ShuffleNames :
          Shuffle[n][1] \in Nat /\ Shuffle[n][2] \in Seq(1 .. Shuffle[n][1])
<1>1. DOMAIN Shuffle = ShuffleNames
  BY DEF Shuffle, ShuffleNames
<1>2. ASSUME NEW k \in Nat, NEW left \in Seq(1 .. k)
      PROVE  Reads(<<k, left>>)
  BY DEF Reads
<1>3. Reads(Shuffle["DROP"])
  <2>1. Shuffle["DROP"] = <<1, <<>>>>
    BY DEF Shuffle
  <2>2. <<>> \in Seq(1 .. 1)
    OBVIOUS
  <2>3. QED
    BY <1>2, <2>1, <2>2
<1>4. Reads(Shuffle["2DROP"])
  <2>1. Shuffle["2DROP"] = <<2, <<>>>>
    BY DEF Shuffle
  <2>2. <<>> \in Seq(1 .. 2)
    OBVIOUS
  <2>3. QED
    BY <1>2, <2>1, <2>2
<1>5. Reads(Shuffle["DUP"])
  <2>1. Shuffle["DUP"] = <<1, <<1, 1>>>>
    BY DEF Shuffle
  <2>2. <<1, 1>> \in Seq(1 .. 1)
    OBVIOUS
  <2>3. QED
    BY <1>2, <2>1, <2>2
<1>6. Reads(Shuffle["2DUP"])
  <2>1. Shuffle["2DUP"] = <<2, <<2, 1, 2, 1>>>>
    BY DEF Shuffle
  <2>2. <<2, 1, 2, 1>> \in Seq(1 .. 2)
    OBVIOUS
  <2>3. QED
    BY <1>2, <2>1, <2>2
<1>7. Reads(Shuffle["3DUP"])
  <2>1. Shuffle["3DUP"] = <<3, <<3, 2, 1, 3, 2, 1>>>>
    BY DEF Shuffle
  <2>2. <<3, 2, 1, 3, 2, 1>> \in Seq(1 .. 3)
    OBVIOUS
  <2>3. QED
    BY <1>2, <2>1, <2>2
<1>8. Reads(Shuffle["NIP"])
  <2>1. Shuffle["NIP"] = <<2, <<1>>>>
    BY DEF Shuffle
  <2>2. <<1>> \in Seq(1 .. 2)
    OBVIOUS
  <2>3. QED
    BY <1>2, <2>1, <2>2
<1>9. Reads(Shuffle["OVER"])
  <2>1. Shuffle["OVER"] = <<2, <<2, 1, 2>>>>
    BY DEF Shuffle
  <2>2. <<2, 1, 2>> \in Seq(1 .. 2)
    OBVIOUS
  <2>3. QED
    BY <1>2, <2>1, <2>2
<1>10. Reads(Shuffle["ROT"])
  <2>1. Shuffle["ROT"] = <<3, <<2, 1, 3>>>>
    BY DEF Shuffle
  <2>2. <<2, 1, 3>> \in Seq(1 .. 3)
    OBVIOUS
  <2>3. QED
    BY <1>2, <2>1, <2>2
<1>11. Reads(Shuffle["2OVER"])
  <2>1. Shuffle["2OVER"] = <<4, <<4, 3, 2, 1, 4, 3>>>>
    BY DEF Shuffle
  <2>2. <<4, 3, 2, 1, 4, 3>> \in Seq(1 .. 4)
    OBVIOUS
  <2>3. QED
    BY <1>2, <2>1, <2>2
<1>12. Reads(Shuffle["SWAP"])
  <2>1. Shuffle["SWAP"] = <<2, <<1, 2>>>>
    BY DEF Shuffle
  <2>2. <<1, 2>> \in Seq(1 .. 2)
    OBVIOUS
  <2>3. QED
    BY <1>2, <2>1, <2>2
<1>13. Reads(Shuffle["2ROT"])
  <2>1. Shuffle["2ROT"] = <<6, <<4, 3, 2, 1, 6, 5>>>>
    BY DEF Shuffle
  <2>2. <<4, 3, 2, 1, 6, 5>> \in Seq(1 .. 6)
    OBVIOUS
  <2>3. QED
    BY <1>2, <2>1, <2>2
<1>14. Reads(Shuffle["TUCK"])
  <2>1. Shuffle["TUCK"] = <<2, <<1, 2, 1>>>>
    BY DEF Shuffle
  <2>2. <<1, 2, 1>> \in Seq(1 .. 2)
    OBVIOUS
  <2>3. QED
    BY <1>2, <2>1, <2>2
<1>15. Reads(Shuffle["2SWAP"])
  <2>1. Shuffle["2SWAP"] = <<4, <<2, 1, 4, 3>>>>
    BY DEF Shuffle
  <2>2. <<2, 1, 4, 3>> \in Seq(1 .. 4)
    OBVIOUS
  <2>3. QED
    BY <1>2, <2>1, <2>2
<1>16. \A n \in ShuffleNames : Reads(Shuffle[n])
  BY <1>3, <1>4, <1>5, <1>6, <1>7, <1>8,
     <1>9, <1>10, <1>11, <1>12, <1>13, <1>14,
     <1>15 DEF ShuffleNames
<1>17. QED
  BY <1>1, <1>16 DEF Reads

\* How many items an operation reads.
LEMMA ItemsRead ==
    /\ Items \in Nat
    /\ Name \in ShuffleNames => Items = Shuffle[Name][1]
    /\ Name \in Unary \cup Hashes => Items = 1
    /\ Name \in {"IFDUP", "SIZE", "TOALTSTACK", "VERIFY", "IF", "NOTIF"} => Items = 1
    /\ Name \in Binary \cup {"EQUAL", "EQUALVERIFY", "PICK", "ROLL",
                             "CHECKSIG", "CHECKSIGVERIFY"} => Items = 2
    /\ Name = "WITHIN" => Items = 3
<1> DEFINE n == Name
           F == Shuffle
<1>1. DOMAIN F = ShuffleNames /\ \A m \in ShuffleNames : F[m][1] \in Nat
  BY ShuffleReads
<1>2. Items = CASE n \in DOMAIN F -> F[n][1]
      [] n \in Unary \cup Hashes -> 1
      [] n \in {"IFDUP", "SIZE", "TOALTSTACK", "VERIFY", "IF", "NOTIF"} -> 1
      [] n \in Binary \cup {"EQUAL", "EQUALVERIFY", "PICK", "ROLL",
                               "CHECKSIG", "CHECKSIGVERIFY"} -> 2
      [] n = "WITHIN" -> 3
      [] OTHER -> 0
  BY DEF Items
<1> HIDE DEF n, F
<1>3. /\ n \in ShuffleNames => Items = F[n][1]
      /\ n \in Unary \cup Hashes => Items = 1
      /\ n \in {"IFDUP", "SIZE", "TOALTSTACK", "VERIFY", "IF", "NOTIF"} => Items = 1
      /\ n \in Binary \cup {"EQUAL", "EQUALVERIFY", "PICK", "ROLL",
                            "CHECKSIG", "CHECKSIGVERIFY"} => Items = 2
      /\ n = "WITHIN" => Items = 3
  BY <1>1, <1>2 DEF ShuffleNames, Unary, Hashes, TwentyByteHashes, Binary
<1>4. Items \in Nat
  BY <1>1, <1>2
<1>5. QED
  BY <1>3, <1>4 DEF n, F

\* An operation that is executed has the items it reads.
LEMMA ExecuteHas ==
    ASSUME NEW names, Execute(names)
    PROVE  Running /\ Permitted /\ fExec /\ Name \in names /\ ~OpRaises /\ Has(Items)
BY DEF Execute, OpCompletes, OpRaises

LEMMA SkipMoves == ASSUME Lists, Skip PROVE Raise \/ Stepped
<1>1. Made(Num(0)) /\ stack \in Seq(Elems(Num(0)))
  BY MadeNum, OwnElems
<1>2. QED
  BY <1>1, LeaveStackMoves DEF Skip

LEMMA PushMoves == ASSUME Lists, Push PROVE Raise \/ Stepped
<1> DEFINE e == IF Name = "PUSH" THEN Op[2] ELSE Num(Op[2])
<1>1. Made(e)
  BY MadeNum DEF Made
<1>2. LeaveStack(Append(stack, e)) /\ Running /\ Permitted
  BY DEF Push, Execute
<1> HIDE DEF e
<1>3. Append(stack, e) \in Seq(Elems(e))
  BY OwnElems
<1>4. QED
  BY <1>1, <1>2, <1>3, LeaveStackMoves

LEMMA RearrangeMoves == ASSUME Lists, Rearrange PROVE Raise \/ Stepped
<1> DEFINE left == Shuffle[Name][2]
           back == [i \in DOMAIN left |-> Top(left[i])]
           z == Num(0)
<1>1. Name \in ShuffleNames /\ Running /\ Permitted /\ Has(Items)
  BY ExecuteHas, ShuffleReads DEF Rearrange
<1>2. Items \in Nat /\ left \in Seq(1 .. Items)
  BY <1>1, ItemsRead, ShuffleReads
<1>3. LeaveStack(Pop(Items) \o back)
  BY DEF Rearrange
<1> HIDE DEF left, z
<1>4. Pop(Items) \in Seq(Elems(z)) /\ \A i \in 1 .. Items : Top(i) \in Elems(z)
  BY <1>1, <1>2, PopTop
<1>5. back \in Seq(Elems(z))
  <2>1. /\ Len(left) \in Nat /\ DOMAIN left = 1 .. Len(left)
        /\ \A i \in DOMAIN left : left[i] \in 1 .. Items
    BY <1>2
  <2>2. back \in [1 .. Len(left) -> Elems(z)]
    BY <1>4, <2>1
  <2> HIDE DEF back
  <2>3. QED
    BY <2>1, <2>2
<1> HIDE DEF back
<1>6. Pop(Items) \o back \in Seq(Elems(z))
  BY <1>4, <1>5
<1>7. QED
  BY <1>1, <1>3, <1>6, MadeNum, LeaveStackMoves DEF z

LEMMA IfDupMoves == ASSUME Lists, IfDup PROVE Raise \/ Stepped
<1> DEFINE z == Num(0)
           st == IF CastToBool(Top(1)) THEN Append(stack, Top(1)) ELSE stack
<1>1. Name = "IFDUP" /\ Running /\ Permitted /\ Has(Items)
  BY ExecuteHas DEF IfDup
<1>2. Items = 1
  BY <1>1, ItemsRead
<1> HIDE DEF z
<1>3. Top(1) \in Elems(z) /\ stack \in Seq(Elems(z))
  BY <1>1, <1>2, PopTop, OwnElems
<1>4. st \in Seq(Elems(z))
  BY <1>3
<1>5. LeaveStack(st)
  BY DEF IfDup
<1> HIDE DEF st
<1>6. QED
  BY <1>1, <1>4, <1>5, MadeNum, LeaveStackMoves DEF z

LEMMA PickOrRollMoves == ASSUME Lists, PickOrRoll PROVE Raise \/ Stepped
<1> DEFINE z == Num(0)
           below == Pop(1)
           at == Len(below) - BigNum(Top(1))
           rest == IF Name = "ROLL" THEN RemoveAt(below, at) ELSE below
<1>1. Name \in {"PICK", "ROLL"} /\ Running /\ Permitted /\ ~OpRaises /\ Has(Items)
  BY ExecuteHas DEF PickOrRoll
<1>2. Items = 2
  BY <1>1, ItemsRead
<1>3. Len(stack) \in Nat /\ Has(1)
  BY <1>1, <1>2, OwnElems DEF Has
<1>4. BigNum(Top(1)) \in 0 .. (Len(stack) - 2)
  BY <1>1 DEF OpRaises
<1>5. below \in Seq(Elems(z)) /\ Len(below) = Len(stack) - 1
  BY <1>3, PopTop
<1>6. at \in 1 .. Len(below)
  BY <1>3, <1>4, <1>5
<1>7. LeaveStack(Append(rest, below[at]))
  BY DEF PickOrRoll
<1> HIDE DEF z, below, at
<1>8. RemoveAt(below, at) \in Seq(Elems(z)) /\ below[at] \in Elems(z)
  <2>1. SubSeq(below, 1, at - 1) \in Seq(Elems(z))
    BY <1>5, <1>6
  <2>2. SubSeq(below, at + 1, Len(below)) \in Seq(Elems(z))
    BY <1>5, <1>6
  <2>3. QED
    BY <1>5, <1>6, <2>1, <2>2 DEF RemoveAt
<1>9. Append(rest, below[at]) \in Seq(Elems(z))
  BY <1>5, <1>8
<1> HIDE DEF rest
<1>10. QED
  BY <1>1, <1>7, <1>9, MadeNum, LeaveStackMoves DEF z

LEMMA MeasureMoves == ASSUME Lists, Measure PROVE Raise \/ Stepped
<1> DEFINE n == IF Name = "DEPTH" THEN Len(stack) ELSE Size(Top(1))
<1>1. LeaveStack(Append(stack, Num(n))) /\ Running /\ Permitted
  BY ExecuteHas DEF Measure
<1> HIDE DEF n
<1>2. Append(stack, Num(n)) \in Seq(Elems(Num(n)))
  BY OwnElems
<1>3. QED
  BY <1>1, <1>2, MadeNum, LeaveStackMoves

LEMMA ArithmeticMoves == ASSUME Lists, Arithmetic PROVE Raise \/ Stepped
<1>1. CASE Execute(Unary) /\ LeaveStack(Append(Pop(1), UnaryOp(BigNum(Top(1)))))
  <2>1. Running /\ Permitted /\ Name \in Unary /\ Has(1)
    BY <1>1, ExecuteHas, ItemsRead
  <2>2. \A a : Made(UnaryOp(a))
    BY <2>1, MadeNum, MadeBool DEF UnaryOp, Unary
  <2>3. QED
    BY <1>1, <2>1, <2>2, ReplaceMoves
<1>2. CASE /\ Execute(Binary \ {"NUMEQUALVERIFY"})
           /\ LeaveStack(Append(Pop(2), BinOp(BigNum(Top(2)), BigNum(Top(1)))))
  <2>1. Running /\ Permitted /\ Name \in Binary \ {"NUMEQUALVERIFY"} /\ Has(2)
    BY <1>2, ExecuteHas, ItemsRead
  <2>2. \A a, b : Made(BinOp(a, b))
    BY <2>1, MadeNum, MadeBool DEF BinOp, Binary
  <2>3. QED
    BY <1>2, <2>1, <2>2, ReplaceMoves
<1>3. CASE /\ Execute({"WITHIN"})
           /\ LeaveStack(Append(Pop(3), Bool(BigNum(Top(3)) \in
                         BigNum(Top(2))..(BigNum(Top(1)) - 1))))
  <2>1. Running /\ Permitted /\ Has(3)
    BY <1>3, ExecuteHas, ItemsRead
  <2>2. QED
    BY <1>3, <2>1, MadeBool, ReplaceMoves
<1>4. QED
  BY <1>1, <1>2, <1>3 DEF Arithmetic

LEMMA HashMoves == ASSUME Lists, Hash PROVE Raise \/ Stepped
<1>1. Running /\ Permitted /\ Has(1)
  BY ExecuteHas, ItemsRead DEF Hash
<1>2. QED
  BY <1>1, MadeHash, ReplaceMoves DEF Hash

LEMMA EqualMoves == ASSUME Lists, Equal PROVE Raise \/ Stepped
<1>1. Running /\ Permitted /\ Has(2)
  BY ExecuteHas, ItemsRead DEF Equal
<1>2. QED
  BY <1>1, MadeBool, ReplaceMoves DEF Equal

LEMMA VerifiedMoves == ASSUME Lists, Verified PROVE Raise \/ Stepped
<1>1. Running /\ Permitted /\ Has(Items) /\ Items \in Nat
  BY ExecuteHas, ItemsRead DEF Verified
<1>2. Pop(Items) \in Seq(Elems(Num(0)))
  BY <1>1, PopTop
<1>3. QED
  BY <1>1, <1>2, MadeNum, LeaveStackMoves DEF Verified

LEMMA CheckSigMoves == ASSUME Lists, CheckSigOp PROVE Raise \/ Stepped
<1>1. Running /\ Permitted /\ Has(2)
  BY ExecuteHas, ItemsRead DEF CheckSigOp
<1>2. QED
  BY <1>1, MadeBool, ReplaceMoves DEF CheckSigOp

\* The keys of a multi-signature check count as operations.
LEMMA CheckMultiSigMoves == ASSUME Lists, CheckMultiSig PROVE Raise \/ Stepped
<1> DEFINE e == Bool(~MultiSig.failed)
           result == IF Name = "CHECKMULTISIG" THEN <<e>> ELSE <<>>
           st == Pop(MultiSigSize) \o result
<1>1. /\ Name \in {"CHECKMULTISIG", "CHECKMULTISIGVERIFY"}
      /\ Running /\ Permitted /\ ~OpRaises
  BY ExecuteHas DEF CheckMultiSig
<1>2. ~MultiSigMalformed
  BY <1>1 DEF OpRaises, MultiSigRaises
<1>3. KeysCount \in 0 .. MaxKeys /\ ~(nOpCount + 1 + KeysCount > MaxOps)
  BY <1>2 DEF MultiSigMalformed
<1>4. SigsCount \in 0 .. KeysCount /\ Has(MultiSigSize)
  BY <1>2 DEF MultiSigMalformed
<1>5. MultiSigSize \in Nat
  BY <1>3, <1>4, Limits DEF MultiSigSize
<1>6. Leave(st, altstack, vfExec, pbegincodehash, CountedOps + KeysCount)
  BY DEF CheckMultiSig
<1>7. Made(e)
  BY MadeBool
<1> HIDE DEF e
<1>8. /\ Pop(MultiSigSize) \in Seq(Elems(e)) /\ e \in Elems(e)
      /\ altstack \in Seq(Elems(e)) /\ Len(altstack) \in Nat
  BY <1>4, <1>5, PopTop, OwnElems
<1>9. st \in Seq(Elems(e))
  BY <1>8
<1> HIDE DEF st
<1>10. Moves(st, altstack) /\ Len(st) + Len(altstack) \in Int
  BY <1>7, <1>8, <1>9 DEF Moves
<1>11. CountedOps + KeysCount \in CountedOps .. MaxOps
  BY <1>1, <1>3, Counted, Limits DEF Lists
<1>12. vfExec \in Seq(BOOLEAN)
  BY DEF Lists
<1>13. QED
  BY <1>1, <1>6, <1>10, <1>11, <1>12, LeaveMoves

\* The last item of a list and the items before it.
LEMMA LastFront ==
    ASSUME NEW S, NEW s \in Seq(S), s # <<>>
    PROVE  Last(s) \in S /\ Front(s) \in Seq(S)
<1>1. Len(s) \in Nat /\ Len(s) # 0
  BY EmptySeq
<1>2. Len(s) \in 1 .. Len(s) /\ Len(s) - 1 \in 0 .. Len(s)
  BY <1>1
<1>3. s[Len(s)] \in S
  BY <1>2
<1>4. SubSeq(s, 1, Len(s) - 1) \in Seq(S)
  BY <1>2
<1>5. QED
  BY <1>3, <1>4 DEF Last, Front

LEMMA OneItem == ASSUME NEW S, NEW x \in S
                 PROVE  <<x>> \in Seq(S) /\ <<>> \in Seq(S)
OBVIOUS

LEMMA AltStackMoves == ASSUME Lists, AltStack PROVE Raise \/ Stepped
<1> DEFINE z == Num(0)
<1>1. /\ Made(z) /\ vfExec \in Seq(BOOLEAN)
      /\ Permitted => CountedOps \in CountedOps .. MaxOps
  BY MadeNum, Counted, Limits DEF Lists
<1> HIDE DEF z
<1>2. /\ stack \in Seq(Elems(z)) /\ altstack \in Seq(Elems(z))
      /\ Len(stack) \in Nat /\ Len(altstack) \in Nat
  BY OwnElems
<1>3. CASE /\ Execute({"TOALTSTACK"})
           /\ Leave(Pop(1), Append(altstack, Top(1)), vfExec, pbegincodehash,
                    CountedOps)
  <2>1. Running /\ Permitted /\ Has(1)
    BY <1>3, ExecuteHas, ItemsRead
  <2>2. Pop(1) \in Seq(Elems(z)) /\ Top(1) \in Elems(z)
    BY <2>1, PopTop
  <2>3. Append(altstack, Top(1)) \in Seq(Elems(z))
    BY <1>2, <2>2
  <2>4. /\ Moves(Pop(1), Append(altstack, Top(1)))
        /\ Len(Pop(1)) + Len(Append(altstack, Top(1))) \in Int
    BY <1>1, <2>2, <2>3 DEF Moves
  <2>5. QED
    BY <1>1, <1>3, <2>1, <2>4, LeaveMoves
<1>4. CASE /\ Execute({"FROMALTSTACK"})
           /\ Leave(Append(stack, Last(altstack)), Front(altstack), vfExec,
                    pbegincodehash, CountedOps)
  <2>1. Running /\ Permitted /\ altstack # <<>>
    BY <1>4, ExecuteHas DEF OpRaises
  <2>2. Last(altstack) \in Elems(z) /\ Front(altstack) \in Seq(Elems(z))
    BY <1>2, <2>1, LastFront
  <2>3. Append(stack, Last(altstack)) \in Seq(Elems(z))
    BY <1>2, <2>2
  <2>4. /\ Moves(Append(stack, Last(altstack)), Front(altstack))
        /\ Len(Append(stack, Last(altstack))) + Len(Front(altstack)) \in Int
    BY <1>1, <2>2, <2>3 DEF Moves
  <2>5. QED
    BY <1>1, <1>4, <2>1, <2>4, LeaveMoves
<1>5. QED
  BY <1>3, <1>4 DEF AltStack

\* An operation that leaves the stacks alone, or takes one item.
LEMMA FlowMoves ==
    ASSUME Lists, Running, Permitted, NEW n \in Nat, Has(n),
           NEW exec \in Seq(BOOLEAN), NEW begin \in {pbegincodehash, pc + 1},
           NEW st, st = stack \/ st = Pop(n),
           Leave(st, altstack, exec, begin, CountedOps)
    PROVE  Raise \/ Stepped
<1> DEFINE z == Num(0)
<1>1. Made(z) /\ CountedOps \in CountedOps .. MaxOps
  BY MadeNum, Counted, Limits
<1> HIDE DEF z
<1>2. st \in Seq(Elems(z)) /\ altstack \in Seq(Elems(z))
  BY OwnElems, PopTop
<1>3. Moves(st, altstack) /\ Len(st) + Len(altstack) \in Int
  BY <1>1, <1>2 DEF Moves
<1>4. QED
  BY <1>1, <1>3, LeaveMoves

LEMMA CodeSeparatorMoves == ASSUME Lists, CodeSeparator PROVE Raise \/ Stepped
<1>1. Running /\ Permitted /\ Has(0) /\ vfExec \in Seq(BOOLEAN)
  BY ExecuteHas, OwnElems DEF CodeSeparator, Has, Lists
<1>2. QED
  BY <1>1, FlowMoves DEF CodeSeparator

LEMMA NopMoves == ASSUME Lists, Nop PROVE Raise \/ Stepped
<1>1. Running /\ Permitted /\ Has(0) /\ vfExec \in Seq(BOOLEAN)
  BY ExecuteHas, OwnElems DEF Nop, Has, Lists
<1>2. QED
  BY <1>1, FlowMoves DEF Nop, LeaveStack

LEMMA IfMoves == ASSUME Lists, If PROVE Raise \/ Stepped
<1>1. CASE /\ Execute({"IF", "NOTIF"})
           /\ Leave(Pop(1), altstack,
                    Append(vfExec, CastToBool(Top(1)) = (Name = "IF")),
                    pbegincodehash, CountedOps)
  <2>1. Running /\ Permitted /\ Has(1) /\ vfExec \in Seq(BOOLEAN)
    BY <1>1, ExecuteHas, ItemsRead DEF Lists
  <2> DEFINE b == CastToBool(Top(1)) = (Name = "IF")
  <2>2. b \in BOOLEAN
    BY Zenon
  <2>3. Leave(Pop(1), altstack, Append(vfExec, b), pbegincodehash, CountedOps)
    BY <1>1
  <2> HIDE DEF b
  <2>4. Append(vfExec, b) \in Seq(BOOLEAN)
    BY <2>1, <2>2
  <2>5. QED
    BY <2>1, <2>3, <2>4, FlowMoves
<1>2. CASE /\ Running /\ Permitted
           /\ Leave(stack, altstack, Append(vfExec, FALSE), pbegincodehash,
                    CountedOps)
  <2>1. Has(0) /\ Append(vfExec, FALSE) \in Seq(BOOLEAN)
    BY OwnElems DEF Has, Lists
  <2>2. QED
    BY <1>2, <2>1, FlowMoves
<1>3. QED
  BY <1>1, <1>2 DEF If

LEMMA ElseOrEndIfMoves == ASSUME Lists, ElseOrEndIf PROVE Raise \/ Stepped
<1> DEFINE b == ~Last(vfExec)
           over == IF Name = "ELSE" THEN <<b>> ELSE <<>>
           exec == Front(vfExec) \o over
<1>1. /\ Running /\ Permitted /\ vfExec # <<>>
      /\ Leave(stack, altstack, exec, pbegincodehash, CountedOps)
  BY DEF ElseOrEndIf
<1>2. b \in BOOLEAN
  BY Zenon
<1> HIDE DEF b
<1>3. Front(vfExec) \in Seq(BOOLEAN)
  BY <1>1, LastFront DEF Lists
<1>4. over \in Seq(BOOLEAN)
  BY <1>2, OneItem, Zenon
<1> HIDE DEF over
<1>5. exec \in Seq(BOOLEAN)
  BY <1>3, <1>4
<1>6. Has(0)
  BY OwnElems DEF Has
<1> HIDE DEF exec
<1>7. QED
  BY <1>1, <1>5, <1>6, FlowMoves

\* An operation raises, or moves elements as said.
LEMMA EvalMoves == ASSUME Lists, EvalStep PROVE Raise \/ Stepped
<1>1. CASE NotPermitted \/ OpFails
  BY <1>1 DEF NotPermitted, OpFails
<1>2. CASE ~(NotPermitted \/ OpFails)
  BY <1>2, SkipMoves, PushMoves, RearrangeMoves, IfDupMoves, PickOrRollMoves,
     MeasureMoves, ArithmeticMoves, HashMoves, EqualMoves, VerifiedMoves,
     CheckSigMoves, CheckMultiSigMoves, AltStackMoves, CodeSeparatorMoves,
     NopMoves, IfMoves, ElseOrEndIfMoves
     DEF EvalStep
<1>3. QED
  BY <1>1, <1>2

-----------------------------------------------------------------------------
(* The invariant of the limits and of the types.                             *)

Fits(e) == Size(e) \in Nat /\ Size(e) <= MaxElement
FittingList(s) == s \in Seq(ToSet(s)) /\ \A e \in ToSet(s) : Fits(e)

\* The operations before a position that count.
Counts(k) == {i \in 1 .. k : ~Pushes(<<script[i]>>)}

CallInv ==
    /\ inp \in Inputs
    /\ phase \in {"idle", "scriptSig", "scriptPubKey", "redeemScript", "witness"}
    /\ trial \in 1 .. Len(Trials) + 1
    /\ phase # "idle" => trial <= Len(Trials)

PlaceInv ==
    /\ SizedScript(script) /\ pc \in 1 .. Len(script) + 1
    /\ pbegincodehash \in 1 .. pc
    /\ vfExec \in Seq(BOOLEAN)

StacksInv == FittingList(stack) /\ FittingList(altstack)

CountInv ==
    /\ nOpCount \in Nat /\ nOpCount <= MaxOps
    /\ Cardinality(Counts(pc - 1)) <= nOpCount
    /\ pc > 1 => Len(stack) + Len(altstack) <= MaxStack

\* Only what scriptSig pushed, or computed, can become a script.
ReadInv ==
    phase = "scriptSig" =>
    script = inp.sig /\ \A e \in ToSet(stack) \cup ToSet(altstack) : Readable(e)

CopyInv == FittingList(stackCopy) /\ \A e \in ToSet(stackCopy) : Readable(e)

\* The scriptPubKey that names a script by its hash starts on the copied
\* stack, and its first operation does not go past an empty one.
RedeemInv ==
    phase = "scriptPubKey" /\ SpendsP2SH =>
    /\ script = inp.pub
    /\ pc = 1 => stack = stackCopy /\ vfExec = <<>>
    /\ pc > 1 => stackCopy # <<>>

FrameInv == PlaceInv /\ StacksInv /\ CountInv /\ ReadInv
LInv == CallInv /\ FrameInv /\ CopyInv /\ RedeemInv

LEMMA InvLists ==
    ASSUME LInv
    PROVE  /\ Lists /\ Len(script) \in Nat /\ Len(Trials) \in Nat
           /\ \A e \in ToSet(stack) \cup ToSet(altstack) : Fits(e)
<1>1. script \in Seq(ToSet(script)) /\ Trials \in Seq(ToSet(Trials))
  BY InputsAreScripts DEF LInv, FrameInv, PlaceInv, SizedScript
<1>2. Len(script) \in Nat /\ Len(Trials) \in Nat
  BY <1>1
<1>3. QED
  BY <1>2 DEF LInv, FrameInv, PlaceInv, StacksInv, CountInv, FittingList, Lists

LEMMA EmptyFits == FittingList(<<>>) /\ ToSet(<<>>) = {}
<1>1. ToSet(<<>>) = {} /\ <<>> \in Seq({})
  BY DEF ToSet
<1>2. QED
  BY <1>1 DEF FittingList

\* A list over a set is a list of its own elements, which are in the set.
LEMMA OwnSet ==
    ASSUME NEW S, NEW s \in Seq(S)
    PROVE  s \in Seq(ToSet(s)) /\ ToSet(s) \subseteq S
<1>1. s \in [1 .. Len(s) -> S] /\ DOMAIN s = 1 .. Len(s) /\ Len(s) \in Nat
  OBVIOUS
<1>2. s \in [1 .. Len(s) -> ToSet(s)]
  BY <1>1 DEF ToSet
<1>3. s \in Seq(ToSet(s))
  BY <1>1, <1>2
<1>4. ToSet(s) \subseteq S
  BY <1>1 DEF ToSet
<1>5. QED
  BY <1>3, <1>4

\* The scripts that elements which are not scripts make.
LEMMA NoScript == SizedScript(<<>>) /\ SizedScript(<<<<"TRUNCATED">>>>)
<1>1. SizedScript(<<>>)
  BY EmptyFits DEF SizedScript, FittingList
<1> DEFINE t == <<"TRUNCATED">>
           s == <<t>>
<1>2. t[1] # "PUSH"
  OBVIOUS
<1> HIDE DEF t
<1>3. s \in Seq({t})
  OBVIOUS
<1> HIDE DEF s
<1>4. s \in Seq(ToSet(s)) /\ ToSet(s) \subseteq {t}
  BY <1>3, OwnSet
<1>5. SizedScript(s)
  BY <1>2, <1>4 DEF SizedScript
<1>6. QED
  BY <1>1, <1>5 DEF s, t

\* Numbers and hashes fit, and are not scripts.
LEMMA NumFits == \A n : Fits(Num(n)) /\ Readable(Num(n))
<1> SUFFICES ASSUME NEW n
             PROVE  Fits(Num(n)) /\ Readable(Num(n))
  OBVIOUS
<1> DEFINE e == Num(n)
<1>1. e[1] = "num" /\ e[2] = n
  BY DEF Num
<1> HIDE DEF e
<1>2. Size(e) = NumSize(n)
  BY <1>1 DEF Size
<1>3. NumSize(n) \in {0, 1, 4, 5}
  BY Zenon DEF NumSize
<1>4. ScriptOf(e) \in {<<>>, <<<<"TRUNCATED">>>>}
  BY <1>1 DEF ScriptOf
<1>5. QED
  BY <1>2, <1>3, <1>4, Limits, NoScript DEF Fits, Readable, e

LEMMA HashFits == \A op, of : Fits(<<"hash", op, of>>) /\ Readable(<<"hash", op, of>>)
<1> SUFFICES ASSUME NEW op, NEW of
             PROVE  Fits(<<"hash", op, of>>) /\ Readable(<<"hash", op, of>>)
  OBVIOUS
<1> DEFINE e == <<"hash", op, of>>
<1>1. e[1] = "hash"
  OBVIOUS
<1> HIDE DEF e
<1>2. Size(e) \in {20, 32}
  BY <1>1 DEF Size
<1>3. ScriptOf(e) \in {<<>>, <<<<"TRUNCATED">>>>}
  BY <1>1 DEF ScriptOf
<1>4. QED
  BY <1>2, <1>3, Limits, NoScript DEF Fits, Readable, e

\* So does all that an operation makes.
LEMMA MadeFits ==
    ASSUME LInv, Running, Permitted, NEW e, Made(e)
    PROVE  Fits(e) /\ (phase = "scriptSig" => Readable(e))
<1>1. CASE \E n : e = Num(n)
  BY <1>1, NumFits
<1>2. CASE \E op, of : e = <<"hash", op, of>>
  BY <1>2, HashFits
<1>3. CASE Name = "PUSH" /\ e = Op[2]
  <2>1. pc \in DOMAIN script
    BY InvLists DEF Running, LInv, FrameInv, PlaceInv, SizedScript
  <2>2. Op \in ToSet(script) /\ Op[1] = "PUSH"
    BY <1>3, <2>1 DEF Op, Name, ToSet
  <2>3. Size(e) \in Nat
    BY <1>3, <2>2 DEF LInv, FrameInv, PlaceInv, SizedScript
  <2>4. Size(e) <= MaxElement
    BY <1>3 DEF Permitted
  <2>5. phase = "scriptSig" => Readable(e)
    BY <1>3, <2>2, InputsAreScripts DEF LInv, CallInv, FrameInv, ReadInv
  <2>6. QED
    BY <2>3, <2>4, <2>5 DEF Fits
<1>4. QED
  BY <1>1, <1>2, <1>3 DEF Made

-----------------------------------------------------------------------------
(* What keeps it.                                                            *)

\* A fresh frame.
LEMMA EnterFrame ==
    ASSUME NEW ph, NEW s, NEW st, Enter(ph, s, st), inp' = inp,
           SizedScript(s), FittingList(st),
           ph = "scriptSig" => s = inp.sig /\ \A e \in ToSet(st) : Readable(e)
    PROVE  FrameInv'
<1>1. /\ phase' = ph /\ script' = s /\ stack' = st
      /\ pc' = 1 /\ altstack' = <<>> /\ vfExec' = <<>>
      /\ nOpCount' = 0 /\ pbegincodehash' = 1
  BY DEF Enter
<1>2. Len(s) \in Nat
  BY DEF SizedScript
<1>3. PlaceInv'
  <2>1. <<>> \in Seq(BOOLEAN)
    BY EmptySeq
  <2>2. SizedScript(script')
    BY <1>1
  <2>3. QED
    BY <1>1, <1>2, <2>1, <2>2 DEF PlaceInv, SizedScript
<1>4. StacksInv'
  BY <1>1, EmptyFits DEF StacksInv, FittingList, Fits
<1>5. CountInv'
  <2>1. Counts(pc - 1)' = {}
    BY <1>1 DEF Counts
  <2>2. QED
    BY <1>1, <2>1, FS_EmptySet, Limits DEF CountInv
<1>6. ReadInv'
  <2>1. ToSet(altstack') = {}
    BY <1>1, EmptyFits
  <2>2. QED
    BY <1>1, <2>1 DEF ReadInv, ToSet
<1>7. QED
  BY <1>3, <1>4, <1>5, <1>6 DEF FrameInv

LEMMA AnswerLimits ==
    ASSUME LInv, trial <= Len(Trials), NEW v, Answer(v)
    PROVE  LInv'
<1>1. /\ trial' = trial + 1 /\ stackCopy' = <<>> /\ phase' = "idle" /\ inp' = inp
      /\ Enter("idle", <<>>, <<>>)
  BY DEF Answer, Enter
<1>2. FrameInv'
  BY <1>1, EnterFrame, EmptyFits, NoScript
<1>3. CallInv'
  BY <1>1, InvLists DEF LInv, CallInv
<1>4. CopyInv'
  BY <1>1, EmptyFits DEF CopyInv, FittingList, Fits, ToSet
<1>5. RedeemInv'
  BY <1>1 DEF RedeemInv
<1>6. QED
  BY <1>2, <1>3, <1>4, <1>5 DEF LInv

LEMMA RaiseLimits == ASSUME LInv, phase # "idle", Raise PROVE LInv'
BY AnswerLimits DEF Raise, LInv, CallInv

LEMMA EnterLimits ==
    ASSUME LInv, trial <= Len(Trials),
           NEW ph \in {"scriptSig", "scriptPubKey", "redeemScript", "witness"},
           NEW s, NEW st, Enter(ph, s, st), UNCHANGED <<inp, trial>>, CopyInv',
           ph = "scriptPubKey" => RedeemInv',
           SizedScript(s), FittingList(st),
           ph = "scriptSig" => s = inp.sig /\ \A e \in ToSet(st) : Readable(e)
    PROVE  LInv'
<1>1. FrameInv'
  BY EnterFrame
<1>2. CallInv'
  BY DEF LInv, CallInv, Enter
<1>3. RedeemInv'
  BY DEF RedeemInv, Enter
<1>4. QED
  BY <1>1, <1>2, <1>3 DEF LInv

\* The operations counted before the next position.
LEMMA CountsNext ==
    ASSUME NEW k \in Nat \ {0}
    PROVE  /\ Cardinality(Counts(k - 1)) \in Nat /\ Cardinality(Counts(k)) \in Nat
           /\ Pushes(<<script[k]>>) => Counts(k) = Counts(k - 1)
           /\ ~Pushes(<<script[k]>>) =>
                 Cardinality(Counts(k)) = Cardinality(Counts(k - 1)) + 1
<1>1. Counts(k - 1) \subseteq 1 .. k - 1 /\ IsFiniteSet(1 .. k - 1)
  BY FS_Interval DEF Counts
<1>2. IsFiniteSet(Counts(k - 1)) /\ Cardinality(Counts(k - 1)) \in Nat
  BY <1>1, FS_Subset, FS_CardinalityType
<1>3. CASE Pushes(<<script[k]>>)
  <2>1. Counts(k) = Counts(k - 1)
    BY <1>3 DEF Counts
  <2>2. QED
    BY <1>2, <1>3, <2>1
<1>4. CASE ~Pushes(<<script[k]>>)
  <2>1. Counts(k) = Counts(k - 1) \cup {k} /\ k \notin Counts(k - 1)
    BY <1>4 DEF Counts
  <2>2. QED
    BY <1>2, <1>4, <2>1, FS_AddElement
<1>5. QED
  BY <1>3, <1>4

\* The first operation of such a scriptPubKey takes an item.
FirstHash == vfExec = <<>> /\ Name = "HASH160" => stack # <<>>

LEMMA RedeemKept == ASSUME LInv, Stepped, FirstHash PROVE RedeemInv'
<1>1. /\ UNCHANGED <<inp, trial, phase, script, stackCopy>> /\ pc' = pc + 1
      /\ pc \in Nat \ {0}
  BY InvLists DEF Stepped, Lists
<1>2. SUFFICES ASSUME phase = "scriptPubKey", SpendsP2SH
               PROVE  script = inp.pub /\ stackCopy # <<>>
  BY <1>1 DEF RedeemInv, SpendsP2SH, flags
<1>3. script = inp.pub
  BY <1>2 DEF LInv, RedeemInv
<1>4. CASE pc = 1
  <2>1. Name = "HASH160"
    <3>1. script[1] = <<"HASH160">>
      BY <1>2, <1>3 DEF SpendsP2SH, IsP2SH
    <3>2. QED
      BY <1>4, <3>1 DEF Name, Op
  <2>2. stack = stackCopy /\ vfExec = <<>>
    BY <1>2, <1>4 DEF LInv, RedeemInv
  <2>3. QED
    BY <1>3, <2>1, <2>2 DEF FirstHash
<1>5. CASE pc > 1
  BY <1>2, <1>3, <1>5 DEF LInv, RedeemInv
<1>6. QED
  BY <1>1, <1>4, <1>5

LEMMA SteppedLimits == ASSUME LInv, Stepped, FirstHash PROVE LInv'
<1>1. PICK e : Made(e) /\ stack' \in Seq(Elems(e)) /\ altstack' \in Seq(Elems(e))
  BY DEF Stepped, Moves
<1>2. /\ Fits(e) /\ (phase = "scriptSig" => Readable(e))
      /\ Lists /\ Len(script) \in Nat
  BY <1>1, MadeFits, InvLists DEF Stepped
<1>3. /\ Running /\ Permitted /\ pc' = pc + 1
      /\ vfExec' \in Seq(BOOLEAN) /\ pbegincodehash' \in {pbegincodehash, pc + 1}
      /\ nOpCount' \in CountedOps .. MaxOps
      /\ Len(stack') + Len(altstack') <= MaxStack
      /\ UNCHANGED <<inp, trial, verdict, phase, script, stackCopy>>
  BY DEF Stepped
<1>4. /\ stack' \in Seq(ToSet(stack')) /\ ToSet(stack') \subseteq Elems(e)
      /\ altstack' \in Seq(ToSet(altstack')) /\ ToSet(altstack') \subseteq Elems(e)
  BY <1>1, OwnSet
<1>5. PlaceInv'
  <2>1. pc' \in 1 .. Len(script) + 1 /\ pbegincodehash' \in 1 .. pc'
    BY <1>2, <1>3 DEF Running, LInv, FrameInv, PlaceInv
  <2>2. SizedScript(script')
    BY <1>3 DEF LInv, FrameInv, PlaceInv
  <2>3. QED
    BY <1>3, <2>1, <2>2 DEF PlaceInv, SizedScript
<1>6. \A x \in Elems(e) : Fits(x) /\ (phase = "scriptSig" => Readable(x))
  BY <1>2, InvLists DEF Elems, LInv, FrameInv, ReadInv
<1>7. StacksInv'
  BY <1>4, <1>6 DEF StacksInv, FittingList, Fits, ToSet
<1>8. CountInv'
  <2>1. CountedOps \in Nat /\ nOpCount' \in Nat /\ nOpCount' <= MaxOps
        /\ CountedOps <= nOpCount'
    BY <1>2, <1>3, Counted, Limits
  <2>2. pc \in Nat \ {0} /\ nOpCount \in Nat
    BY <1>2 DEF Lists
  <2>3. Cardinality(Counts(pc - 1)) <= nOpCount
    BY DEF LInv, FrameInv, CountInv
  <2>4. Cardinality(Counts(pc)) <= CountedOps
    BY <2>2, <2>3, CountsNext DEF CountedOps, Op
  <2>5. Cardinality(Counts(pc)) \in Nat
    BY <2>2, CountsNext
  <2>6. Counts(pc - 1)' = Counts(pc)
    BY <1>3, <2>2 DEF Counts, Pushes
  <2>7. QED
    BY <1>3, <2>1, <2>4, <2>5, <2>6 DEF CountInv
<1>9. ReadInv'
  BY <1>3, <1>4, <1>6 DEF LInv, FrameInv, ReadInv, Readable, SizedScript, ToSet
<1>10. CallInv' /\ CopyInv'
  <2>1. inp' = inp /\ phase' = phase /\ trial' = trial /\ stackCopy' = stackCopy
    BY <1>3
  <2>2. CallInv'
    BY <2>1 DEF LInv, CallInv
  <2>3. CopyInv'
    BY <2>1 DEF LInv, CopyInv
  <2>4. QED
    BY <2>2, <2>3
<1>11. QED
  BY <1>5, <1>7, <1>8, <1>9, <1>10, RedeemKept DEF LInv, FrameInv

LEMMA FirstHashKept == ASSUME LInv, EvalStep PROVE Raise \/ FirstHash
<1> SUFFICES ASSUME ~Raise, vfExec = <<>>, Name = "HASH160"
             PROVE  stack # <<>>
  BY DEF FirstHash
<1>1. fExec
  BY DEF fExec
<1>2. \E names : Execute(names)
  <2>1. Name \notin Conditionals
    BY DEF Conditionals
  <2>2. ~(NotPermitted \/ OpFails \/ Skip \/ ElseOrEndIf)
    BY <1>1, <2>1 DEF NotPermitted, OpFails, Skip, ElseOrEndIf
  <2>3. CASE Push \/ Rearrange \/ IfDup \/ PickOrRoll \/ Measure \/ Arithmetic
    BY <2>3 DEF Push, Rearrange, IfDup, PickOrRoll, Measure, Arithmetic
  <2>4. CASE Hash \/ Equal \/ Verified \/ CheckSigOp \/ CheckMultiSig
    BY <2>4 DEF Hash, Equal, Verified, CheckSigOp, CheckMultiSig
  <2>5. CASE AltStack \/ CodeSeparator \/ Nop \/ If
    BY <1>1, <2>5 DEF AltStack, CodeSeparator, Nop, If
  <2>6. QED
    BY <2>2, <2>3, <2>4, <2>5 DEF EvalStep
<1>3. Has(Items)
  BY <1>2, ExecuteHas
<1>4. Items = 1
  BY ItemsRead DEF Hashes, TwentyByteHashes
<1>5. QED
  BY <1>3, <1>4 DEF Has

LEMMA EvalLimits == ASSUME LInv, EvalStep PROVE LInv'
<1>1. Running
  BY DEF EvalStep, NotPermitted, OpFails, Skip, Push, Rearrange, IfDup,
         PickOrRoll,
         Measure, Arithmetic, Hash, Equal, Verified, CheckSigOp, CheckMultiSig,
         AltStack, CodeSeparator, Nop, If, ElseOrEndIf, Execute
<1>2. Raise \/ FirstHash
  BY FirstHashKept
<1>3. QED
  BY <1>1, <1>2, InvLists, EvalMoves, RaiseLimits, SteppedLimits DEF Running

LEMMA ConcludeLimits ==
    ASSUME LInv, phase # "idle", NEW st, NEW had, Conclude(st, had)
    PROVE  LInv'
<1>1. \E v : Answer(v)
  BY DEF Conclude, Raise
<1>2. QED
  BY <1>1, AnswerLimits DEF LInv, CallInv

\* The items of a witness are measured before its script is run.
LEMMA EvaluateWitnessLimits ==
    ASSUME LInv, phase # "idle", NEW s, SizedScript(s),
           NEW st, st \in Seq(ToSet(st)), \A e \in ToSet(st) : Size(e) \in Nat,
           EvaluateWitness(s, st)
    PROVE  LInv'
<1>1. CASE Raise
  BY <1>1, RaiseLimits
<1>2. CASE /\ ~ \E i \in DOMAIN st : Size(st[i]) > MaxElement
           /\ Enter("witness", s, st) /\ UNCHANGED <<inp, trial, verdict, stackCopy>>
  <2>1. FittingList(st)
    BY <1>2, Limits DEF FittingList, Fits, ToSet
  <2>2. CopyInv'
    BY <1>2 DEF LInv, CopyInv
  <2>3. trial <= Len(Trials)
    BY DEF LInv, CallInv
  <2>4. QED
    BY <1>2, <2>1, <2>2, <2>3, EnterLimits
<1>3. QED
  BY <1>1, <1>2 DEF EvaluateWitness

LEMMA WitnessProgramLimits ==
    ASSUME LInv, phase # "idle", NEW s, SizedScript(s), IsWitnessScriptPubKey(s),
           WitnessProgram(s)
    PROVE  LInv'
<1> DEFINE w == inp.wit
           h == s[2][2]
<1>1. w \in Seq(ToSet(w)) /\ \A e \in ToSet(w) : Readable(e)
  BY InputsAreScripts DEF LInv, CallInv
<1>2. \/ Raise
      \/ Conclude(<<Last(stack)>>, TRUE)
      \/ w # <<>> /\ EvaluateWitness(ScriptOf(Last(w)), Front(w))
      \/ EvaluateWitness(KeyHashScript(h), w)
  BY DEF WitnessProgram
<1>3. CASE w # <<>> /\ EvaluateWitness(ScriptOf(Last(w)), Front(w))
  <2> HIDE DEF w
  <2>1. Last(w) \in ToSet(w) /\ Front(w) \in Seq(ToSet(w))
    BY <1>1, <1>3, LastFront
  <2>2. SizedScript(ScriptOf(Last(w)))
    BY <1>1, <2>1 DEF Readable
  <2>3. Front(w) \in Seq(ToSet(Front(w))) /\ ToSet(Front(w)) \subseteq ToSet(w)
    BY <2>1, OwnSet
  <2>4. \A e \in ToSet(Front(w)) : Size(e) \in Nat
    BY <1>1, <2>3 DEF Readable
  <2>5. QED
    BY <1>3, <2>2, <2>3, <2>4, EvaluateWitnessLimits
<1>4. CASE EvaluateWitness(KeyHashScript(h), w)
  <2>1. s[2] \in ToSet(s) /\ s[2][1] = "PUSH"
    BY DEF IsWitnessScriptPubKey, SizedScript, ToSet
  <2>2. Size(h) \in Nat
    BY <2>1 DEF SizedScript
  <2> HIDE DEF h, w
  <2>3. SizedScript(KeyHashScript(h))
    <3> DEFINE push == <<"PUSH", h>>
               other == {<<"DUP">>, <<"HASH160">>, <<"EQUALVERIFY">>, <<"CHECKSIG">>}
    <3>1. \A o \in other : o[1] # "PUSH"
      OBVIOUS
    <3>2. push[2] = h
      OBVIOUS
    <3>3. KeyHashScript(h) \in Seq(other \cup {push})
      BY DEF KeyHashScript
    <3> HIDE DEF other, push
    <3>4. /\ KeyHashScript(h) \in Seq(ToSet(KeyHashScript(h)))
          /\ ToSet(KeyHashScript(h)) \subseteq other \cup {push}
      BY <3>3, OwnSet
    <3>5. QED
      BY <2>2, <3>1, <3>2, <3>4 DEF SizedScript
  <2>4. \A e \in ToSet(w) : Size(e) \in Nat
    BY <1>1 DEF Readable
  <2>5. QED
    BY <1>1, <1>4, <2>3, <2>4, EvaluateWitnessLimits
<1>5. QED
  BY <1>2, <1>3, <1>4, RaiseLimits, ConcludeLimits

LEMMA StartScriptSigLimits == ASSUME LInv, StartScriptSig PROVE LInv'
<1>1. trial <= Len(Trials)
  BY DEF StartScriptSig
<1>2. CASE Raise
  BY <1>1, <1>2, AnswerLimits DEF Raise
<1>3. CASE /\ Enter("scriptSig", inp.sig, <<>>)
           /\ UNCHANGED <<inp, trial, verdict, stackCopy>>
  <2>1. SizedScript(inp.sig)
    BY InputsAreScripts DEF LInv, CallInv
  <2>2. CopyInv'
    BY <1>3 DEF LInv, CopyInv
  <2>3. QED
    BY <1>1, <1>3, <2>1, <2>2, EmptyFits, EnterLimits
<1>4. QED
  BY <1>2, <1>3 DEF StartScriptSig

LEMMA StartScriptPubKeyLimits == ASSUME LInv, StartScriptPubKey PROVE LInv'
<1>1. /\ phase = "scriptSig" /\ trial <= Len(Trials)
      /\ stackCopy' = IF "P2SH" \in flags THEN stack ELSE <<>>
      /\ Enter("scriptPubKey", inp.pub, stack) /\ UNCHANGED <<inp, trial, verdict>>
  BY DEF StartScriptPubKey, AtEnd, LInv, CallInv
<1>2. FittingList(stack) /\ \A e \in ToSet(stack) : Readable(e)
  BY <1>1 DEF LInv, FrameInv, StacksInv, ReadInv
<1>3. CopyInv'
  <2>1. \A c : FittingList(c) /\ (\A e \in ToSet(c) : Readable(e)) /\ stackCopy' = c
               => CopyInv'
    BY DEF CopyInv
  <2>2. QED
    BY <1>1, <1>2, <2>1, EmptyFits
<1>4. SizedScript(inp.pub)
  BY InputsAreScripts DEF LInv, CallInv
<1>5. RedeemInv'
  BY <1>1 DEF RedeemInv, Enter, SpendsP2SH, flags
<1>6. QED
  BY <1>1, <1>2, <1>3, <1>4, <1>5, EnterLimits

\* The assertion of VerifyScript before it takes the redeem script from the
\* copied stack: that stack has an item.
StackCopyHasScript == AtEnd("scriptPubKey") /\ SpendsP2SH => stackCopy # <<>>

LEMMA CopyIsThere == LInv => StackCopyHasScript
<1> SUFFICES ASSUME LInv, AtEnd("scriptPubKey"), SpendsP2SH
             PROVE  stackCopy # <<>>
  BY DEF StackCopyHasScript
<1>1. script = inp.pub /\ pc > Len(script)
  BY DEF AtEnd, LInv, RedeemInv
<1>2. Len(script) = 3
  BY <1>1 DEF SpendsP2SH, IsP2SH
<1>3. pc > 1
  BY <1>1, <1>2, InvLists DEF Lists
<1>4. QED
  BY <1>3 DEF AtEnd, LInv, RedeemInv

LEMMA EndScriptPubKeyLimits == ASSUME LInv, EndScriptPubKey PROVE LInv'
<1>1. phase # "idle" /\ trial <= Len(Trials)
  BY DEF EndScriptPubKey, AtEnd, LInv, CallInv
<1>2. CASE Raise
  BY <1>1, <1>2, RaiseLimits
<1>3. CASE SpendsWitness(inp.pub) /\ WitnessProgram(inp.pub)
  <2>1. SizedScript(inp.pub)
    BY InputsAreScripts DEF LInv, CallInv
  <2>2. QED
    BY <1>1, <1>3, <2>1, WitnessProgramLimits DEF SpendsWitness
<1>4. CASE /\ ReturnsTrue /\ SpendsP2SH
           /\ Enter("redeemScript", ScriptOf(Last(stackCopy)), Front(stackCopy))
           /\ UNCHANGED <<inp, trial, verdict, stackCopy>>
  <2>1. stackCopy \in Seq(ToSet(stackCopy)) /\ \A e \in ToSet(stackCopy) : Fits(e) /\ Readable(e)
    BY DEF LInv, CopyInv, FittingList
  <2>2. CopyInv'
    BY <1>4 DEF LInv, CopyInv
  <2>3. CASE stackCopy # <<>>
    <3>1. Last(stackCopy) \in ToSet(stackCopy) /\ Front(stackCopy) \in Seq(ToSet(stackCopy))
      BY <2>1, <2>3, LastFront
    <3>2. SizedScript(ScriptOf(Last(stackCopy)))
      BY <2>1, <3>1 DEF Readable
    <3>3. FittingList(Front(stackCopy))
      BY <2>1, <3>1, OwnSet DEF FittingList
    <3>4. QED
      BY <1>1, <1>4, <2>2, <3>2, <3>3, EnterLimits
  <2>4. QED
    BY <1>4, <2>3, CopyIsThere DEF EndScriptPubKey, StackCopyHasScript
<1>5. CASE Conclude(stack, FALSE)
  BY <1>1, <1>5, ConcludeLimits
<1>6. QED
  BY <1>2, <1>3, <1>4, <1>5 DEF EndScriptPubKey

LEMMA EndRedeemScriptLimits == ASSUME LInv, EndRedeemScript PROVE LInv'
<1>1. phase # "idle"
  BY DEF EndRedeemScript, AtEnd
<1>2. \/ Raise
      \/ SpendsWitness(script) /\ WitnessProgram(script)
      \/ Conclude(stack, FALSE)
  BY DEF EndRedeemScript
<1>3. SizedScript(script)
  BY DEF LInv, FrameInv, PlaceInv
<1>4. QED
  BY <1>1, <1>2, <1>3, RaiseLimits, WitnessProgramLimits, ConcludeLimits
     DEF SpendsWitness

LEMMA EndWitnessLimits == ASSUME LInv, EndWitness PROVE LInv'
BY RaiseLimits, ConcludeLimits DEF EndWitness, AtEnd

LEMMA LInvInit == Init => LInv
<1> SUFFICES ASSUME Init PROVE LInv
  OBVIOUS
<1>1. Counts(pc - 1) = {} /\ Len(Trials) \in Nat
  BY InputsAreScripts DEF Init, InitFrame, Counts
<1>2. Cardinality(Counts(pc - 1)) = 0
  BY <1>1, FS_EmptySet
<1>3. SizedScript(script) /\ vfExec \in Seq(BOOLEAN) /\ Len(script) = 0
  BY NoScript, EmptySeq DEF Init, InitFrame
<1>4. FittingList(stack) /\ FittingList(altstack) /\ CopyInv
  BY EmptyFits DEF Init, InitFrame, CopyInv
<1>5. CallInv /\ ReadInv /\ RedeemInv
  BY <1>1 DEF Init, CallInv, ReadInv, RedeemInv
<1>6. PlaceInv /\ CountInv
  BY <1>2, <1>3, Limits DEF Init, InitFrame, PlaceInv, CountInv
<1>7. QED
  BY <1>4, <1>5, <1>6 DEF LInv, FrameInv, StacksInv

LEMMA LInvStep == LInv /\ [Next]_vars => LInv'
<1> SUFFICES ASSUME LInv, [Next]_vars PROVE LInv'
  OBVIOUS
<1>1. CASE Unterminated
  BY <1>1, RaiseLimits DEF Unterminated
<1>2. CASE UNCHANGED vars
  <2>1. /\ UNCHANGED <<inp, trial, verdict, phase, stackCopy>>
        /\ UNCHANGED <<script, pc, stack, altstack, vfExec, nOpCount, pbegincodehash>>
    BY <1>2 DEF vars, frame
  <2>2. CallInv' /\ CopyInv' /\ RedeemInv'
    BY <2>1 DEF LInv, CallInv, CopyInv, RedeemInv, SpendsP2SH, flags
  <2>3. PlaceInv' /\ StacksInv' /\ ReadInv'
    BY <2>1 DEF LInv, FrameInv, PlaceInv, StacksInv, ReadInv
  <2>4. CountInv'
    BY <2>1 DEF LInv, FrameInv, CountInv, Counts
  <2>5. QED
    BY <2>2, <2>3, <2>4 DEF LInv, FrameInv
<1>3. QED
  BY <1>1, <1>2, StartScriptSigLimits, EvalLimits, StartScriptPubKeyLimits,
     EndScriptPubKeyLimits, EndRedeemScriptLimits, EndWitnessLimits
     DEF Next, Finished

\* At every moment of a call the frame of the running script is in order: its
\* stacks hold elements of a permitted size, its counts are those of the
\* operations behind it, and what may be run as a script next is a script.
THEOREM FrameInvariance == Spec => []LInv
BY LInvInit, LInvStep, PTL DEF Spec

\* No script exceeds the limits of _EvalScript after any operation: not by a
\* multi-signature check, not through a witness, not from one script to the
\* next, for any scripts and any values of the limits.
THEOREM LimitsHold == Spec => []WithinLimits
<1>1. LInv => WithinLimits
  BY DEF LInv, FrameInv, StacksInv, CountInv, FittingList, Fits, Counts,
         WithinLimits
<1>2. QED
  BY <1>1, FrameInvariance, PTL

\* The assertion of VerifyScript that the stack restored for a redeem script
\* is not empty cannot fail.
THEOREM AssertionHolds == Spec => []StackCopyHasScript
BY CopyIsThere, FrameInvariance, PTL

\* The interpreter's state has the types the model says, for any inputs.
THEOREM TypeCorrect == Spec => []TypeOK
<1>1. LInv /\ IInv => TypeOK
  <2> SUFFICES ASSUME LInv, IInv PROVE TypeOK
    OBVIOUS
  <2>1. verdict \in [1 .. trial - 1 -> {"ok", "rejected"}]
    BY DEF IInv, VerdictInv
  <2>2. DOMAIN inp = {"sig", "pub", "wit"} /\ CallInv
    BY InputsAreScripts DEF LInv, CallInv
  <2>3. \A i \in DOMAIN stack : Size(stack[i]) \in Nat
    BY DEF LInv, FrameInv, StacksInv, FittingList, Fits, ToSet
  <2>4. \A i \in DOMAIN vfExec : vfExec[i] \in BOOLEAN
    BY DEF LInv, FrameInv, PlaceInv
  <2>5. QED
    BY <2>1, <2>2, <2>3, <2>4
       DEF LInv, CallInv, FrameInv, PlaceInv, CountInv, TypeOK
<1>2. QED
  BY <1>1, FrameInvariance, Invariance, PTL

-----------------------------------------------------------------------------
(* Failed signature checks.                                                  *)

LEMMA BoolZero == ASSUME NEW b \in BOOLEAN, Bool(b) = Zero PROVE b = FALSE
<1>1. Num(1) # Zero
  BY DEF Num, Zero
<1>2. CASE b = TRUE
  <2>1. Bool(b) = Num(1)
    BY <1>2, Zenon DEF Bool
  <2>2. QED
    BY <1>1, <2>1
<1>3. QED
  BY <1>2, Zenon

\* What an operation that does not raise leaves on the stack.
LEMMA LeaveStacks ==
    ASSUME NEW st, NEW alt, NEW exec, NEW begin, NEW count,
           Leave(st, alt, exec, begin, count), phase # "idle", phase' = phase
    PROVE  stack' = st
BY DEF Leave, Raise, Answer, Enter

\* Which step of a script executes a signature check.
LEMMA ChecksOnly ==
    ASSUME EvalStep, phase # "idle", phase' = phase, fExec,
           Name \in {"CHECKSIG", "CHECKMULTISIG"}
    PROVE  CheckSigOp \/ CheckMultiSig
<1>1. ~Raise
  BY DEF Raise, Answer, Enter
<1>2. /\ Name \notin ShuffleNames \cup Unary \cup Binary \cup Hashes
      /\ Name \notin {"PUSH", "NUM", "IFDUP", "PICK", "ROLL", "DEPTH", "SIZE", "WITHIN",
                      "EQUAL", "VERIFY", "EQUALVERIFY", "NUMEQUALVERIFY",
                      "CHECKSIGVERIFY", "TOALTSTACK", "FROMALTSTACK",
                      "CODESEPARATOR", "NOP", "NOPn", "IF", "NOTIF", "ELSE", "ENDIF"}
  BY DEF ShuffleNames, Unary, Binary, Hashes, TwentyByteHashes
<1>3. ~(NotPermitted \/ OpFails \/ Skip)
  BY <1>1 DEF NotPermitted, OpFails, Skip
<1>4. ~(Push \/ Rearrange \/ IfDup \/ PickOrRoll \/ Measure \/ Arithmetic)
  BY <1>2, ShuffleReads
     DEF Push, Rearrange, IfDup, PickOrRoll, Measure, Arithmetic, Execute
<1>5. ~(Hash \/ Equal \/ Verified)
  BY <1>2 DEF Hash, Equal, Verified, Execute
<1>6. ~(AltStack \/ CodeSeparator \/ Nop \/ If \/ ElseOrEndIf)
  BY <1>2 DEF AltStack, CodeSeparator, Nop, If, ElseOrEndIf, Execute
<1>7. QED
  BY <1>3, <1>4, <1>5, <1>6 DEF EvalStep

LEMMA FailedCheckSig ==
    ASSUME LInv, CheckSigOp, phase' = phase, "NULLFAIL" \in flags,
           Last(stack') = Zero
    PROVE  Name = "CHECKSIG" /\ Top(2) = Zero
<1> DEFINE ok == CheckSigOk
<1>1. /\ Name = "CHECKSIG" /\ Has(2) /\ ~OpRaises /\ phase # "idle"
      /\ LeaveStack(Append(Pop(2), Bool(ok)))
  BY ExecuteHas, ItemsRead DEF CheckSigOp, Running
<1>2. ok \in BOOLEAN
  BY Zenon DEF CheckSigOk, CheckSig
<1>3. ok \/ Top(2) = Zero
  BY <1>1 DEF OpRaises
<1> HIDE DEF ok
<1>4. stack' = Append(Pop(2), Bool(ok))
  BY <1>1, LeaveStacks DEF LeaveStack
<1>5. Last(stack') = Bool(ok)
  <2>1. Pop(2) \in Seq(Elems(Bool(ok))) /\ Bool(ok) \in Elems(Bool(ok))
    BY <1>1, InvLists, PopTop, OwnElems
  <2> DEFINE S == Elems(Bool(ok))
  <2> HIDE DEF S
  <2>2. QED
    BY <1>4, <2>1 DEF Last, S
<1>6. ok = FALSE
  BY <1>2, <1>5, BoolZero
<1>7. QED
  BY <1>1, <1>3, <1>6, Zenon

LEMMA FailedCheckMultiSig ==
    ASSUME LInv, CheckMultiSig, Name = "CHECKMULTISIG", phase' = phase,
           "NULLFAIL" \in flags, Last(stack') = Zero
    PROVE  \A i \in DOMAIN Sigs : Sigs[i] = Zero
<1> DEFINE ok == ~MultiSig.failed
           st == Pop(MultiSigSize) \o <<Bool(ok)>>
<1>1. ~MultiSigRaises /\ phase # "idle" /\ Name = "CHECKMULTISIG"
  BY ExecuteHas DEF CheckMultiSig, OpRaises, Running
<1>2. ok \in BOOLEAN
  BY Zenon
<1>3. ok \/ \A i \in DOMAIN Sigs : Sigs[i] = Zero
  BY <1>1, Zenon DEF MultiSigRaises
<1>4. MultiSigSize \in Nat /\ Has(MultiSigSize)
  <2>1. KeysCount \in 0 .. MaxKeys /\ SigsCount \in 0 .. KeysCount /\ Has(MultiSigSize)
    BY <1>1 DEF MultiSigRaises, MultiSigMalformed
  <2>2. QED
    BY <2>1, Limits DEF MultiSigSize
<1>5. Leave(st, altstack, vfExec, pbegincodehash, CountedOps + KeysCount)
  BY <1>1 DEF CheckMultiSig
<1> HIDE DEF ok
<1>6. stack' = st
  <2> HIDE DEF st
  <2>1. QED
    BY <1>1, <1>5, LeaveStacks
<1>7. Last(stack') = Bool(ok)
  <2> DEFINE e == Bool(ok)
             below == Pop(MultiSigSize)
  <2>1. below \in Seq(Elems(e))
    BY <1>4, InvLists, PopTop
  <2>2. stack' = below \o <<e>>
    BY <1>6
  <2> HIDE DEF e, below
  <2>3. Last(stack') = e
    BY <2>1, <2>2 DEF Last
  <2>4. QED
    BY <2>3 DEF e
<1>8. ok = FALSE
  BY <1>2, <1>7, BoolZero
<1>9. QED
  BY <1>3, <1>8, Zenon

\* Under NULLFAIL no failed check that leaves the script running held a
\* signature, whatever the keys, the signatures and the scripts are.
THEOREM FailuresHoldNoSignature == Spec => FailedChecksHoldNoSignature
<1> DEFINE tried == IF Name = "CHECKSIG" THEN <<Top(2)>> ELSE Sigs
           Held == /\ Running /\ phase' = phase /\ "NULLFAIL" \in flags
                   /\ Name \in {"CHECKSIG", "CHECKMULTISIG"} /\ fExec
                   /\ stack' # <<>> /\ Last(stack') = Zero
                   => \A i \in DOMAIN tried : tried[i] = Zero
<1>1. LInv /\ [Next]_vars => [Held]_vars
  <2> SUFFICES ASSUME LInv, Next, Running, phase' = phase, "NULLFAIL" \in flags,
                      Name \in {"CHECKSIG", "CHECKMULTISIG"}, fExec,
                      Last(stack') = Zero, ~(UNCHANGED vars)
               PROVE  \A i \in DOMAIN tried : tried[i] = Zero
    OBVIOUS
  <2>1. phase # "idle" /\ ~(pc > Len(script))
    BY InvLists DEF Running, Lists
  <2>2. EvalStep
    BY <2>1 DEF Next, StartScriptSig, Unterminated, StartScriptPubKey,
                EndScriptPubKey, EndRedeemScript, EndWitness, AtEnd, Finished
  <2>3. CheckSigOp \/ CheckMultiSig
    BY <2>1, <2>2, ChecksOnly
  <2>4. CASE Name = "CHECKSIG"
    <3>1. CheckSigOp
      BY <2>3, <2>4 DEF CheckMultiSig, Execute
    <3>2. Top(2) = Zero
      BY <3>1, FailedCheckSig
    <3>3. QED
      BY <2>4, <3>2
  <2>5. CASE Name = "CHECKMULTISIG"
    <3>1. CheckMultiSig
      BY <2>3, <2>5 DEF CheckSigOp, Execute
    <3>2. QED
      BY <2>5, <3>1, FailedCheckMultiSig
  <2>6. QED
    BY <2>4, <2>5
<1>2. QED
  BY <1>1, FrameInvariance, PTL DEF Spec, FailedChecksHoldNoSignature

-----------------------------------------------------------------------------
(* The interpreter as a function of a frame: what Opcodes says of any frame  *)
(* under any flags, which is what the specification reads where the frame is *)
(* the current one and the flags are those of the call.                      *)

At(F, c) == INSTANCE Opcodes WITH
    flags <- F, phase <- c.phase, script <- c.script, pc <- c.pc,
    stack <- c.stack, altstack <- c.altstack, vfExec <- c.vfExec,
    nOpCount <- c.nOpCount, pbegincodehash <- c.pbegincodehash

Shows(c) ==
    /\ c.phase = phase /\ c.script = script /\ c.pc = pc
    /\ c.stack = stack /\ c.altstack = altstack /\ c.vfExec = vfExec
    /\ c.nOpCount = nOpCount /\ c.pbegincodehash = pbegincodehash
    /\ "P2SH" \in flags => c.stackCopy = stackCopy

\* What does not depend on the frame.
LEMMA SameElements ==
    ASSUME NEW F, NEW c
    PROVE  /\ At(F, c)!Zero = Zero
           /\ \A n : At(F, c)!Num(n) = Num(n)
           /\ \A b : At(F, c)!Bool(b) = Bool(b)
           /\ \A e : At(F, c)!CastToBool(e) = CastToBool(e)
           /\ \A e : At(F, c)!BigNum(e) = BigNum(e)
           /\ \A e : At(F, c)!IsBigNum(e) = IsBigNum(e)
           /\ \A e : At(F, c)!Size(e) = Size(e)
           /\ \A s : At(F, c)!Pushes(s) = Pushes(s)
           /\ At(F, c)!Shuffle = Shuffle
           /\ \A sig, key, hash :
                 At(F, c)!CheckSig(sig, key, hash) = CheckSig(sig, key, hash)
<1>1. \A e : At(F, c)!Size(e) = Size(e)
  BY DEF At!Size, Size, At!NumSize, NumSize, At!Abs, Abs, At!TwentyByteHashes,
         TwentyByteHashes
<1>2. QED
  BY <1>1
     DEF At!Zero, Zero, At!Num, Num, At!Bool, Bool, At!CastToBool, CastToBool,
         At!BigNum, BigNum,
     At!IsBigNum, IsBigNum, At!Pushes, Pushes, At!Shuffle, Shuffle,
         At!CheckSig, CheckSig

\* What an operation reads of the current frame is what it reads of the frame
\* that shows it.
LEMMA SameTurn ==
    ASSUME NEW F, NEW c, Shows(c)
    PROVE  /\ At(F, c)!Op = Op /\ At(F, c)!Name = Name
           /\ At(F, c)!CountedOps = CountedOps
           /\ At(F, c)!Permitted = Permitted
           /\ At(F, c)!fExec = fExec
           /\ At(F, c)!Items = Items /\ At(F, c)!Operands = Operands
           /\ \A n : At(F, c)!Top(n) = Top(n)
           /\ \A n : At(F, c)!Pop(n) = Pop(n)
           /\ \A n : At(F, c)!Has(n) = Has(n)
           /\ \A a : At(F, c)!UnaryOp(a) = UnaryOp(a)
           /\ \A a, b : At(F, c)!BinOp(a, b) = BinOp(a, b)
           /\ At(F, c)!sigversion = sigversion
<1>1. At(F, c)!Op = Op
  BY DEF At!Op, Op, Shows
<1>2. At(F, c)!Name = Name
  BY <1>1 DEF At!Name, Name
<1>3. At(F, c)!CountedOps = CountedOps
  BY <1>1, SameElements DEF At!CountedOps, CountedOps, Shows
<1>4. At(F, c)!Permitted = Permitted
  BY <1>1, <1>2, <1>3, SameElements
     DEF At!Permitted, Permitted, At!Disabled, Disabled, Shows
<1>5. At(F, c)!fExec = fExec
  BY DEF At!fExec, fExec, Shows
<1>6. At(F, c)!Items = Items /\ At(F, c)!Operands = Operands
  BY <1>2, SameElements
     DEF At!Items, Items, At!Operands, Operands, At!Unary, Unary, At!Binary,
         Binary,
    At!Hashes, Hashes, At!TwentyByteHashes, TwentyByteHashes
<1>7. /\ \A n : At(F, c)!Top(n) = Top(n)
      /\ \A n : At(F, c)!Pop(n) = Pop(n)
      /\ \A n : At(F, c)!Has(n) = Has(n)
  BY DEF At!Top, Top, At!Pop, Pop, At!Has, Has, Shows
<1>8. \A a : At(F, c)!UnaryOp(a) = UnaryOp(a)
  BY <1>2, SameElements DEF At!UnaryOp, UnaryOp, At!Abs, Abs
<1>9. \A a, b : At(F, c)!BinOp(a, b) = BinOp(a, b)
  BY <1>2 DEF At!BinOp, BinOp, At!Num, Num, At!Bool, Bool
<1>10. At(F, c)!sigversion = sigversion
  BY DEF At!sigversion, sigversion, Shows
<1>11. QED
  BY <1>1, <1>2, <1>3, <1>4, <1>5, <1>6, <1>7, <1>8, <1>9, <1>10

\* Signatures are checked against the same script and the same keys.
LEMMA SameChecks ==
    ASSUME NEW F, NEW c, Shows(c)
    PROVE  /\ \A s : At(F, c)!Sighash(s) = Sighash(s)
           /\ At(F, c)!CheckSigOk = CheckSigOk
           /\ At(F, c)!KeysCount = KeysCount
           /\ At(F, c)!SigsCount = SigsCount
           /\ At(F, c)!MultiSigSize = MultiSigSize
           /\ At(F, c)!MultiSigMalformed = MultiSigMalformed
           /\ At(F, c)!Sigs = Sigs
           /\ At(F, c)!MultiSig = MultiSig
<1>1. \A s : At(F, c)!Sighash(s) = Sighash(s)
  BY DEF At!Sighash, Sighash, At!sigversion, sigversion, At!Unsigned,
         Unsigned, Shows
<1>2. At(F, c)!CheckSigOk = CheckSigOk
  BY <1>1, SameElements, SameTurn DEF At!CheckSigOk, CheckSigOk
<1>3. /\ At(F, c)!KeysCount = KeysCount
      /\ At(F, c)!SigsCount = SigsCount
      /\ At(F, c)!MultiSigSize = MultiSigSize
  BY SameElements, SameTurn
     DEF At!KeysCount, KeysCount, At!SigsCount, SigsCount, At!MultiSigSize,
         MultiSigSize
<1>4. At(F, c)!MultiSigMalformed = MultiSigMalformed
  BY <1>3, SameElements, SameTurn
     DEF At!MultiSigMalformed, MultiSigMalformed, Shows
<1>5. At(F, c)!Sigs = Sigs /\ At(F, c)!Keys = Keys
  BY <1>3, SameTurn DEF At!Sigs, Sigs, At!Keys, Keys
<1>8. At(F, c)!MultiSig = MultiSig
  BY DEF At!MultiSig, MultiSig, At!TryKey, TryKey, At!CheckSig, CheckSig,
     At!MultiSigHash, MultiSigHash, At!Sighash, Sighash, At!sigversion,
     sigversion, At!Unsigned, Unsigned, At!KeysCount, KeysCount,
     At!SigsCount, SigsCount, At!Sigs, Sigs, At!Keys, Keys, At!Top, Top,
     At!BigNum, BigNum, Shows
<1>9. QED
  BY <1>1, <1>2, <1>3, <1>4, <1>5, <1>8

\* Under the flags of the call the frame raises where the operation does.
LEMMA SameRaises ==
    ASSUME NEW c, NEW F, F = flags, Shows(c)
    PROVE  At(F, c)!OpRaises = OpRaises
<1>1. \A sig, key : At(F, c)!CheckSigRaises(sig, key) = CheckSigRaises(sig, key)
  BY SameElements, SameTurn
     DEF At!CheckSigRaises, CheckSigRaises, At!StrictEncodingFlags,
         StrictEncodingFlags, At!StrictDER, StrictDER
<1>2. At(F, c)!MultiSigRaises = MultiSigRaises
  BY <1>1, SameElements, SameTurn, SameChecks
     DEF At!MultiSigRaises, MultiSigRaises
<1>3. /\ c.stack = stack /\ c.altstack = altstack /\ c.vfExec = vfExec
  BY DEF Shows
<1>4. /\ At(F, c)!Name = Name /\ At(F, c)!sigversion = sigversion
      /\ At(F, c)!Top(1) = Top(1) /\ At(F, c)!Top(2) = Top(2)
      /\ At(F, c)!Has(At(F, c)!Items) = Has(Items)
      /\ At(F, c)!CheckSigOk = CheckSigOk
  BY SameTurn, SameChecks
<1>5. (\E i \in 1 .. At(F, c)!Operands : ~At(F, c)!IsBigNum(At(F, c)!Top(i)))
      <=> \E i \in 1 .. Operands : ~IsBigNum(Top(i))
  BY SameTurn, SameElements
<1>6. /\ At(F, c)!CheckSigRaises(At(F, c)!Top(2), At(F, c)!Top(1))
         <=> CheckSigRaises(Top(2), Top(1))
      /\ At(F, c)!CastToBool(At(F, c)!Top(1)) <=> CastToBool(Top(1))
      /\ At(F, c)!BigNum(At(F, c)!Top(1)) = BigNum(Top(1))
      /\ At(F, c)!BigNum(At(F, c)!Top(2)) = BigNum(Top(2))
      /\ At(F, c)!Zero = Zero /\ At(F, c)!Num(1) = Num(1)
  BY <1>1, <1>4, SameElements
<1>7. QED
  BY ONLY <1>2, <1>3, <1>4, <1>5, <1>6, F = flags DEF At!OpRaises, OpRaises

\* The flags decide only where an operation raises.
LEMMA FlagsOnlyRaise ==
    ASSUME NEW F, NEW G, NEW c
    PROVE  /\ At(F, c)!Name = At(G, c)!Name
           /\ At(F, c)!sigversion = At(G, c)!sigversion
           /\ \A n : At(F, c)!Top(n) = At(G, c)!Top(n)
           /\ \A n : At(F, c)!Has(n) = At(G, c)!Has(n)
           /\ At(F, c)!Items = At(G, c)!Items
           /\ At(F, c)!Operands = At(G, c)!Operands
           /\ At(F, c)!CheckSigOk = At(G, c)!CheckSigOk
           /\ At(F, c)!Sigs = At(G, c)!Sigs
           /\ At(F, c)!MultiSig = At(G, c)!MultiSig
           /\ At(F, c)!MultiSigSize = At(G, c)!MultiSigSize
           /\ At(F, c)!MultiSigMalformed = At(G, c)!MultiSigMalformed
<1>1. /\ At(F, c)!Name = At(G, c)!Name
      /\ At(F, c)!sigversion = At(G, c)!sigversion
      /\ \A n : At(F, c)!Top(n) = At(G, c)!Top(n)
      /\ \A n : At(F, c)!Has(n) = At(G, c)!Has(n)
  BY DEF At!Name, At!Op, At!sigversion, At!Top, At!Has
<1>2. At(F, c)!Items = At(G, c)!Items /\ At(F, c)!Operands = At(G, c)!Operands
  BY DEF At!Items, At!Operands, At!Shuffle, At!Name, At!Op, At!Unary,
         At!Binary, At!Hashes, At!TwentyByteHashes
<1>3. \A s : At(F, c)!Sighash(s) = At(G, c)!Sighash(s)
  BY DEF At!Sighash, At!sigversion, At!Unsigned
<1>4. At(F, c)!CheckSigOk = At(G, c)!CheckSigOk
  BY <1>1, <1>3 DEF At!CheckSigOk, At!CheckSig
<1>5. /\ At(F, c)!KeysCount = At(G, c)!KeysCount
      /\ At(F, c)!SigsCount = At(G, c)!SigsCount
      /\ At(F, c)!MultiSigSize = At(G, c)!MultiSigSize
  BY DEF At!KeysCount, At!SigsCount, At!MultiSigSize, At!Top, At!BigNum
<1>6. At(F, c)!Sigs = At(G, c)!Sigs
  BY DEF At!Sigs, At!KeysCount, At!SigsCount, At!Top, At!BigNum
<1>7. At(F, c)!MultiSigMalformed = At(G, c)!MultiSigMalformed
  BY <1>1, <1>5, SameElements DEF At!MultiSigMalformed
<1>8. At(F, c)!MultiSig = At(G, c)!MultiSig
  BY DEF At!MultiSig, At!TryKey, At!CheckSig, At!MultiSigHash, At!Sighash,
         At!sigversion, At!Unsigned, At!KeysCount, At!SigsCount, At!Sigs,
         At!Keys, At!Top, At!BigNum
<1>9. QED
  BY <1>1, <1>2, <1>4, <1>5, <1>6, <1>7, <1>8

\* An operation that raises under some flags raises under more.
LEMMA MoreFlagsRaiseMore ==
    ASSUME NEW F, NEW G, NEW c, F \subseteq G, At(F, c)!OpRaises
    PROVE  At(G, c)!OpRaises
<1>1. ASSUME NEW sig, NEW key, At(F, c)!CheckSigRaises(sig, key)
      PROVE  At(G, c)!CheckSigRaises(sig, key)
  BY <1>1
     DEF At!CheckSigRaises, At!sigversion, At!Zero, At!StrictEncodingFlags,
         At!StrictDER
<1>2. At(F, c)!MultiSigRaises => At(G, c)!MultiSigRaises
  BY <1>1, FlagsOnlyRaise, SameElements DEF At!MultiSigRaises
<1>3. /\ At(F, c)!Name = At(G, c)!Name
      /\ At(F, c)!sigversion = At(G, c)!sigversion
      /\ At(F, c)!Top(1) = At(G, c)!Top(1) /\ At(F, c)!Top(2) = At(G, c)!Top(2)
      /\ At(F, c)!Has(At(F, c)!Items) = At(G, c)!Has(At(G, c)!Items)
      /\ At(F, c)!CheckSigOk = At(G, c)!CheckSigOk
  BY FlagsOnlyRaise
<1>4. (\E i \in 1 .. At(F, c)!Operands : ~At(F, c)!IsBigNum(At(F, c)!Top(i)))
      <=> \E i \in 1 .. At(G, c)!Operands : ~At(G, c)!IsBigNum(At(G, c)!Top(i))
  BY FlagsOnlyRaise, SameElements
<1>5. /\ At(F, c)!CheckSigRaises(At(F, c)!Top(2), At(F, c)!Top(1))
         => At(G, c)!CheckSigRaises(At(G, c)!Top(2), At(G, c)!Top(1))
      /\ At(F, c)!CastToBool(At(F, c)!Top(1))
         <=> At(G, c)!CastToBool(At(G, c)!Top(1))
      /\ At(F, c)!BigNum(At(F, c)!Top(1)) = At(G, c)!BigNum(At(G, c)!Top(1))
      /\ At(F, c)!BigNum(At(F, c)!Top(2)) = At(G, c)!BigNum(At(G, c)!Top(2))
      /\ At(F, c)!Zero = At(G, c)!Zero /\ At(F, c)!Num(1) = At(G, c)!Num(1)
  BY <1>1, <1>3, SameElements
<1>6. QED
  BY ONLY <1>2, <1>3, <1>4, <1>5, F \subseteq G, At(F, c)!OpRaises
     DEF At!OpRaises

-----------------------------------------------------------------------------
(* What becomes of a frame: the frame after it, or the answer as one that    *)
(* has nothing left to run.                                                  *)

Frame(ph, sc, at, st, alt, exec, count, begin, copy) ==
    [phase |-> ph, script |-> sc, pc |-> at, stack |-> st, altstack |-> alt,
     vfExec |-> exec, nOpCount |-> count, pbegincodehash |-> begin,
     stackCopy |-> copy]
Entered(ph, s, st, copy) == Frame(ph, s, 1, st, <<>>, <<>>, 0, 1, copy)
Ended(v) == Entered(v, <<>>, <<>>, <<>>)
Refused == Ended("rejected")

\* What Leave leaves of a frame.
Left(c, st, alt, exec, begin, count) ==
    IF Len(st) + Len(alt) > MaxStack THEN Refused
    ELSE Frame(c.phase, c.script, c.pc + 1, st, alt, exec, count, begin,
               c.stackCopy)
CountIn(c) == At({}, c)!CountedOps
LeftStack(c, st) ==
    Left(c, st, c.altstack, c.vfExec, c.pbegincodehash, CountIn(c))

NameIn(c) == At({}, c)!Name
OpIn(c) == At({}, c)!Op
ItemIn(c, n) == At({}, c)!Top(n)
NumberIn(c, n) == BigNum(ItemIn(c, n))
Below(c, n) == At({}, c)!Pop(n)

\* The stack that an operation leaves which touches nothing else.
StackAfter(c) ==
    IF NameIn(c) \in {"PUSH", "NUM"}
    THEN Append(c.stack,
                IF NameIn(c) = "PUSH" THEN OpIn(c)[2] ELSE Num(OpIn(c)[2]))
    ELSE IF NameIn(c) \in DOMAIN Shuffle
    THEN LET left == Shuffle[NameIn(c)][2]
         IN Below(c, At({}, c)!Items) \o [i \in DOMAIN left |-> ItemIn(c, left[i])]
    ELSE IF NameIn(c) = "IFDUP"
    THEN IF CastToBool(ItemIn(c, 1)) THEN Append(c.stack, ItemIn(c, 1)) ELSE c.stack
    ELSE IF NameIn(c) \in {"PICK", "ROLL"}
    THEN LET below == Below(c, 1)
             at == Len(below) - NumberIn(c, 1)
         IN Append(IF NameIn(c) = "ROLL" THEN RemoveAt(below, at) ELSE below, below[at])
    ELSE IF NameIn(c) \in {"DEPTH", "SIZE"}
    THEN Append(c.stack, Num(IF NameIn(c) = "DEPTH" THEN Len(c.stack)
                             ELSE Size(ItemIn(c, 1))))
    ELSE IF NameIn(c) \in Unary
    THEN Append(Below(c, 1), At({}, c)!UnaryOp(NumberIn(c, 1)))
    ELSE IF NameIn(c) \in Binary \ {"NUMEQUALVERIFY"}
    THEN Append(Below(c, 2), At({}, c)!BinOp(NumberIn(c, 2), NumberIn(c, 1)))
    ELSE IF NameIn(c) = "WITHIN"
    THEN Append(Below(c, 3), Bool(NumberIn(c, 3) \in
                                  NumberIn(c, 2) .. (NumberIn(c, 1) - 1)))
    ELSE IF NameIn(c) \in Hashes
    THEN Append(Below(c, 1), <<"hash", NameIn(c), ItemIn(c, 1)>>)
    ELSE IF NameIn(c) = "EQUAL"
    THEN Append(Below(c, 2), Bool(ItemIn(c, 1) = ItemIn(c, 2)))
    ELSE IF NameIn(c) \in {"VERIFY", "EQUALVERIFY", "NUMEQUALVERIFY", "CHECKSIGVERIFY"}
    THEN Below(c, At({}, c)!Items)
    ELSE IF NameIn(c) = "CHECKSIG"
    THEN Append(Below(c, 2), Bool(At({}, c)!CheckSigOk))
    ELSE c.stack

\* What an operation leaves that is executed and does not raise.
After(c) ==
    IF NameIn(c) \in {"CHECKMULTISIG", "CHECKMULTISIGVERIFY"}
    THEN Left(c, Below(c, At({}, c)!MultiSigSize) \o
                 IF NameIn(c) = "CHECKMULTISIG"
                 THEN <<Bool(~At({}, c)!MultiSig.failed)>> ELSE <<>>,
              c.altstack, c.vfExec, c.pbegincodehash, CountIn(c) + At({}, c)!KeysCount)
    ELSE IF NameIn(c) = "TOALTSTACK"
    THEN Left(c, Below(c, 1), Append(c.altstack, ItemIn(c, 1)), c.vfExec,
              c.pbegincodehash, CountIn(c))
    ELSE IF NameIn(c) = "FROMALTSTACK"
    THEN Left(c, Append(c.stack, Last(c.altstack)), Front(c.altstack), c.vfExec,
              c.pbegincodehash, CountIn(c))
    ELSE IF NameIn(c) = "CODESEPARATOR"
    THEN Left(c, c.stack, c.altstack, c.vfExec, c.pc + 1, CountIn(c))
    ELSE IF NameIn(c) \in {"IF", "NOTIF"}
    THEN Left(c, Below(c, 1), c.altstack,
              Append(c.vfExec, CastToBool(ItemIn(c, 1)) = (NameIn(c) = "IF")),
              c.pbegincodehash, CountIn(c))
    ELSE LeftStack(c, StackAfter(c))

\* One turn of the loop.
Turn(F, c) ==
    IF ~At({}, c)!Permitted THEN Refused
    ELSE IF NameIn(c) \in {"ELSE", "ENDIF"}
    THEN IF c.vfExec = <<>> THEN Refused
         ELSE Left(c, c.stack, c.altstack,
                   Front(c.vfExec) \o IF NameIn(c) = "ELSE"
                                      THEN <<~Last(c.vfExec)>> ELSE <<>>,
                   c.pbegincodehash, CountIn(c))
    ELSE IF ~At({}, c)!fExec
    THEN IF NameIn(c) \in {"IF", "NOTIF"}
         THEN Left(c, c.stack, c.altstack, Append(c.vfExec, FALSE),
                   c.pbegincodehash, CountIn(c))
         ELSE LeftStack(c, c.stack)
    ELSE IF At(F, c)!OpRaises THEN Refused ELSE After(c)

\* The passage from one script to the next, and the answer.
Concluded(F, i, st, had) ==
    IF \/ "CLEANSTACK" \in F /\ ("P2SH" \notin F \/ Len(st) # 1)
       \/ "WITNESS" \in F /\ ("P2SH" \notin F \/ (~had /\ i.wit # <<>>))
    THEN Refused ELSE Ended("ok")

Evaluated(c, s, st) ==
    IF \E i \in DOMAIN st : Size(st[i]) > MaxElement THEN Refused
    ELSE Entered("witness", s, st, c.stackCopy)

Program(F, i, c, s) ==
    IF WitnessVersion(s) # 0
    THEN IF "DISCOURAGE_UPGRADABLE_WITNESS_PROGRAM" \in F THEN Refused
         ELSE Concluded(F, i, <<Last(c.stack)>>, TRUE)
    ELSE IF Size(s[2][2]) = 32 /\ i.wit # <<>>
            /\ s[2][2] = <<"hash", "SHA256", Last(i.wit)>>
    THEN Evaluated(c, ScriptOf(Last(i.wit)), Front(i.wit))
    ELSE IF Size(s[2][2]) = 20 /\ Len(i.wit) = 2
    THEN Evaluated(c, KeyHashScript(s[2][2]), i.wit)
    ELSE Refused

TrueIn(c) == c.stack # <<>> /\ CastToBool(Last(c.stack))

PubKeyEnd(F, i, c) ==
    IF ~TrueIn(c) THEN Refused
    ELSE IF "WITNESS" \in F /\ IsWitnessScriptPubKey(i.pub)
    THEN IF i.sig # <<>> THEN Refused ELSE Program(F, i, c, i.pub)
    ELSE IF "P2SH" \in F /\ IsP2SH(i.pub)
    THEN IF ~Pushes(i.sig) THEN Refused
         ELSE Entered("redeemScript", ScriptOf(Last(c.stackCopy)),
                      Front(c.stackCopy), c.stackCopy)
    ELSE Concluded(F, i, c.stack, FALSE)

RedeemEnd(F, i, c) ==
    IF ~TrueIn(c) THEN Refused
    ELSE IF "WITNESS" \in F /\ IsWitnessScriptPubKey(c.script)
    THEN IF i.sig # <<<<"PUSH", ElementOf(c.script)>>>> THEN Refused
         ELSE Program(F, i, c, c.script)
    ELSE Concluded(F, i, c.stack, FALSE)

WitnessEnd(F, i, c) ==
    IF Len(c.stack) # 1 \/ ~TrueIn(c) THEN Refused
    ELSE Concluded(F, i, c.stack, TRUE)

Outcome(F, i, c) ==
    IF c.phase \in {"ok", "rejected"} THEN c
    ELSE IF c.phase = "idle"
    THEN IF F \cap Unhandled # {} THEN Refused
         ELSE Entered("scriptSig", i.sig, <<>>, c.stackCopy)
    ELSE IF c.pc <= Len(c.script) THEN Turn(F, c)
    ELSE IF c.vfExec # <<>> THEN Refused
    ELSE IF c.phase = "scriptSig"
    THEN Entered("scriptPubKey", i.pub, c.stack, c.stack)
    ELSE IF c.phase = "scriptPubKey" THEN PubKeyEnd(F, i, c)
    ELSE IF c.phase = "redeemScript" THEN RedeemEnd(F, i, c)
    ELSE WitnessEnd(F, i, c)

\* A step of the specification from the state that c shows is the outcome.
Follows(d) ==
    \/ d = Refused /\ Raise
    \/ d = Ended("ok") /\ Answer("ok")
    \/ UNCHANGED <<inp, trial, verdict>> /\ Shows(d)'

-----------------------------------------------------------------------------
\* The state that an operation leaves is the frame it leaves, or too large.
LEMMA LeaveFollows ==
    ASSUME NEW c, Shows(c), NEW st, NEW alt, NEW exec, NEW begin, NEW count,
           Leave(st, alt, exec, begin, count)
    PROVE  Follows(Left(c, st, alt, exec, begin, count))
<1>1. CASE Len(st) + Len(alt) > MaxStack
  BY <1>1 DEF Leave, Follows, Left
<1>2. CASE ~(Len(st) + Len(alt) > MaxStack)
  BY <1>2 DEF Leave, Follows, Left, Shows, Frame, flags
<1>3. QED
  BY <1>1, <1>2

-----------------------------------------------------------------------------
(* Every step of the specification is the outcome of its frame.              *)

\* The readings of a frame that no flag touches.
LEMMA FrameRead ==
    ASSUME NEW c, Shows(c)
    PROVE  /\ NameIn(c) = Name /\ OpIn(c) = Op /\ CountIn(c) = CountedOps
           /\ \A n : ItemIn(c, n) = Top(n) /\ NumberIn(c, n) = BigNum(Top(n))
           /\ \A n : Below(c, n) = Pop(n)
BY SameTurn DEF NameIn, OpIn, CountIn, ItemIn, NumberIn, Below

\* The same of an operation that changes the stack alone.
LEMMA LeaveStackFollows ==
    ASSUME NEW c, Shows(c), NEW st, LeaveStack(st)
    PROVE  Follows(LeftStack(c, st))
<1>1. /\ c.altstack = altstack /\ c.vfExec = vfExec
      /\ c.pbegincodehash = pbegincodehash
  BY DEF Shows
<1>2. QED
  BY <1>1, FrameRead, LeaveFollows DEF LeaveStack, LeftStack

\* An operation that is executed.
LEMMA TurnExecuted ==
    ASSUME NEW c, Shows(c), NEW F, F = flags, NEW names, Execute(names),
           Name \notin {"ELSE", "ENDIF"}
    PROVE  Turn(F, c) = After(c) /\ Name \in names
<1>1. Permitted /\ fExec /\ Name \in names /\ ~OpRaises
  BY DEF Execute, OpCompletes
<1>2. /\ At({}, c)!Permitted /\ At({}, c)!fExec /\ ~At(F, c)!OpRaises
      /\ NameIn(c) = Name
  BY <1>1, SameTurn, SameRaises, FrameRead
<1>3. QED
  BY <1>1, <1>2 DEF Turn

\* The operations that change the stack alone.
StackOnly ==
    Name \notin {"CHECKMULTISIG", "CHECKMULTISIGVERIFY", "TOALTSTACK",
                 "FROMALTSTACK", "CODESEPARATOR", "IF", "NOTIF", "ELSE", "ENDIF"}

\* Such an operation, when it is executed, is the turn of its frame.
LEMMA StackFollows ==
    ASSUME NEW c, Shows(c), NEW F, F = flags, NEW names, Execute(names),
           StackOnly, LeaveStack(StackAfter(c))
    PROVE  Follows(Turn(F, c))
<1>1. Turn(F, c) = After(c)
  BY TurnExecuted DEF StackOnly
<1>2. After(c) = LeftStack(c, StackAfter(c))
  BY FrameRead DEF StackOnly, After
<1>3. QED
  BY <1>1, <1>2, LeaveStackFollows

\* The operations that rearrange the stack.
LEMMA ShuffleDomain == DOMAIN Shuffle = ShuffleNames
BY DEF Shuffle, ShuffleNames

\* Each action of the loop, then, is the turn of the frame it starts from.
LEMMA PushFollows ==
    ASSUME NEW c, Shows(c), NEW F, F = flags, Push PROVE Follows(Turn(F, c))
<1>1. Execute({"PUSH", "NUM"}) /\ Name \in {"PUSH", "NUM"}
  BY DEF Push, Execute
<1>2. StackOnly
  BY <1>1 DEF StackOnly
<1>3. StackAfter(c) = Append(stack, IF Name = "PUSH" THEN Op[2] ELSE Num(Op[2]))
  BY <1>1, FrameRead DEF StackAfter, Shows
<1>4. QED
  BY <1>1, <1>2, <1>3, StackFollows DEF Push

LEMMA RearrangeFollows ==
    ASSUME NEW c, Shows(c), NEW F, F = flags, Rearrange
    PROVE  Follows(Turn(F, c))
<1> DEFINE left == Shuffle[Name][2]
<1>1. Execute(DOMAIN Shuffle) /\ Name \in DOMAIN Shuffle
  BY DEF Rearrange, Execute
<1>2. Name \in ShuffleNames
  BY <1>1, ShuffleDomain
<1>3. StackOnly /\ Name \notin {"PUSH", "NUM"}
  BY <1>2 DEF StackOnly, ShuffleNames
<1>4. StackAfter(c) = Pop(Items) \o [i \in DOMAIN left |-> Top(left[i])]
  BY <1>1, <1>3, FrameRead, SameTurn DEF StackAfter
<1>5. QED
  BY <1>1, <1>3, <1>4, StackFollows DEF Rearrange

LEMMA IfDupFollows ==
    ASSUME NEW c, Shows(c), NEW F, F = flags, IfDup PROVE Follows(Turn(F, c))
<1>1. Execute({"IFDUP"}) /\ Name = "IFDUP"
  BY DEF IfDup, Execute
<1>2. StackOnly
  BY <1>1 DEF StackOnly
<1>3. StackAfter(c) = IF CastToBool(Top(1)) THEN Append(stack, Top(1)) ELSE stack
  BY <1>1, FrameRead, ShuffleDomain DEF StackAfter, Shows, ShuffleNames
<1>4. QED
  BY <1>1, <1>2, <1>3, StackFollows DEF IfDup

LEMMA PickOrRollFollows ==
    ASSUME NEW c, Shows(c), NEW F, F = flags, PickOrRoll
    PROVE  Follows(Turn(F, c))
<1> DEFINE below == Pop(1)
           at == Len(below) - BigNum(Top(1))
<1>1. Execute({"PICK", "ROLL"}) /\ Name \in {"PICK", "ROLL"}
  BY DEF PickOrRoll, Execute
<1>2. StackOnly
  BY <1>1 DEF StackOnly
<1>3. StackAfter(c) = Append(IF Name = "ROLL" THEN RemoveAt(below, at) ELSE below,
                             below[at])
  BY <1>1, FrameRead, ShuffleDomain DEF StackAfter, ShuffleNames
<1>4. QED
  BY <1>1, <1>2, <1>3, StackFollows DEF PickOrRoll

LEMMA MeasureFollows ==
    ASSUME NEW c, Shows(c), NEW F, F = flags, Measure PROVE Follows(Turn(F, c))
<1>1. Execute({"DEPTH", "SIZE"}) /\ Name \in {"DEPTH", "SIZE"}
  BY DEF Measure, Execute
<1>2. StackOnly
  BY <1>1 DEF StackOnly
<1>3. StackAfter(c) = Append(stack, Num(IF Name = "DEPTH" THEN Len(stack)
                                        ELSE Size(Top(1))))
  BY <1>1, FrameRead, ShuffleDomain DEF StackAfter, ShuffleNames, Shows
<1>4. QED
  BY <1>1, <1>2, <1>3, StackFollows DEF Measure

LEMMA ArithmeticFollows ==
    ASSUME NEW c, Shows(c), NEW F, F = flags, Arithmetic
    PROVE  Follows(Turn(F, c))
<1>1. CASE Execute(Unary) /\ LeaveStack(Append(Pop(1), UnaryOp(BigNum(Top(1)))))
  <2>1. Name \in Unary
    BY <1>1 DEF Execute
  <2>2. StackOnly
    BY <2>1 DEF StackOnly, Unary
  <2>3. StackAfter(c) = Append(Pop(1), UnaryOp(BigNum(Top(1))))
    BY <2>1, FrameRead, SameTurn, ShuffleDomain
       DEF StackAfter, ShuffleNames, Unary
  <2>4. QED
    BY <1>1, <2>2, <2>3, StackFollows
<1>2. CASE /\ Execute(Binary \ {"NUMEQUALVERIFY"})
           /\ LeaveStack(Append(Pop(2), BinOp(BigNum(Top(2)), BigNum(Top(1)))))
  <2>1. Name \in Binary \ {"NUMEQUALVERIFY"}
    BY <1>2 DEF Execute
  <2>2. StackOnly
    BY <2>1 DEF StackOnly, Binary
  <2>3. StackAfter(c) = Append(Pop(2), BinOp(BigNum(Top(2)), BigNum(Top(1))))
    BY <2>1, FrameRead, SameTurn, ShuffleDomain
       DEF StackAfter, ShuffleNames, Unary, Binary
  <2>4. QED
    BY <1>2, <2>2, <2>3, StackFollows
<1>3. CASE /\ Execute({"WITHIN"})
           /\ LeaveStack(Append(Pop(3), Bool(BigNum(Top(3)) \in
                         BigNum(Top(2))..(BigNum(Top(1)) - 1))))
  <2>1. Name = "WITHIN"
    BY <1>3 DEF Execute
  <2>2. StackOnly
    BY <2>1 DEF StackOnly
  <2>3. StackAfter(c) = Append(Pop(3), Bool(BigNum(Top(3)) \in
                               BigNum(Top(2))..(BigNum(Top(1)) - 1)))
    BY <2>1, FrameRead, ShuffleDomain
       DEF StackAfter, ShuffleNames, Unary, Binary
  <2>4. QED
    BY <1>3, <2>2, <2>3, StackFollows
<1>4. QED
  BY <1>1, <1>2, <1>3 DEF Arithmetic

LEMMA HashFollows ==
    ASSUME NEW c, Shows(c), NEW F, F = flags, Hash PROVE Follows(Turn(F, c))
<1>1. Execute(Hashes) /\ Name \in Hashes
  BY DEF Hash, Execute
<1>2. StackOnly
  BY <1>1 DEF StackOnly, Hashes, TwentyByteHashes
<1>3. StackAfter(c) = Append(Pop(1), <<"hash", Name, Top(1)>>)
  BY <1>1, FrameRead, ShuffleDomain
     DEF StackAfter, ShuffleNames, Unary, Binary, Hashes, TwentyByteHashes
<1>4. QED
  BY <1>1, <1>2, <1>3, StackFollows DEF Hash

LEMMA EqualFollows ==
    ASSUME NEW c, Shows(c), NEW F, F = flags, Equal PROVE Follows(Turn(F, c))
<1>1. Execute({"EQUAL"}) /\ Name = "EQUAL"
  BY DEF Equal, Execute
<1>2. StackOnly
  BY <1>1 DEF StackOnly
<1>3. StackAfter(c) = Append(Pop(2), Bool(Top(1) = Top(2)))
  BY <1>1, FrameRead, ShuffleDomain
     DEF StackAfter, ShuffleNames, Unary, Binary, Hashes, TwentyByteHashes
<1>4. QED
  BY <1>1, <1>2, <1>3, StackFollows DEF Equal

LEMMA VerifiedFollows ==
    ASSUME NEW c, Shows(c), NEW F, F = flags, Verified
    PROVE  Follows(Turn(F, c))
<1>1. /\ Execute({"VERIFY", "EQUALVERIFY", "NUMEQUALVERIFY", "CHECKSIGVERIFY"})
      /\ Name \in {"VERIFY", "EQUALVERIFY", "NUMEQUALVERIFY", "CHECKSIGVERIFY"}
  BY DEF Verified, Execute
<1>2. StackOnly
  BY <1>1 DEF StackOnly
<1>3. StackAfter(c) = Pop(Items)
  BY <1>1, FrameRead, SameTurn, ShuffleDomain
     DEF StackAfter, ShuffleNames, Unary, Binary, Hashes, TwentyByteHashes
<1>4. QED
  BY <1>1, <1>2, <1>3, StackFollows DEF Verified

LEMMA CheckSigFollows ==
    ASSUME NEW c, Shows(c), NEW F, F = flags, CheckSigOp
    PROVE  Follows(Turn(F, c))
<1>1. Execute({"CHECKSIG"}) /\ Name = "CHECKSIG"
  BY DEF CheckSigOp, Execute
<1>2. StackOnly
  BY <1>1 DEF StackOnly
<1>3. StackAfter(c) = Append(Pop(2), Bool(CheckSigOk))
  BY <1>1, FrameRead, SameChecks, ShuffleDomain
     DEF StackAfter, ShuffleNames, Unary, Binary, Hashes, TwentyByteHashes
<1>4. QED
  BY <1>1, <1>2, <1>3, StackFollows DEF CheckSigOp

LEMMA NopFollows ==
    ASSUME NEW c, Shows(c), NEW F, F = flags, Nop PROVE Follows(Turn(F, c))
<1>1. Execute({"NOP", "NOPn"}) /\ Name \in {"NOP", "NOPn"}
  BY DEF Nop, Execute
<1>2. StackOnly
  BY <1>1 DEF StackOnly
<1>3. StackAfter(c) = stack
  BY <1>1, FrameRead, ShuffleDomain
     DEF StackAfter, ShuffleNames, Unary, Binary, Hashes, TwentyByteHashes,
         Shows
<1>4. QED
  BY <1>1, <1>2, <1>3, StackFollows DEF Nop

LEMMA CheckMultiSigFollows ==
    ASSUME NEW c, Shows(c), NEW F, F = flags, CheckMultiSig
    PROVE  Follows(Turn(F, c))
<1> DEFINE names == {"CHECKMULTISIG", "CHECKMULTISIGVERIFY"}
           st == Pop(MultiSigSize) \o IF Name = "CHECKMULTISIG"
                                      THEN <<Bool(~MultiSig.failed)>> ELSE <<>>
<1>1. Execute(names) /\ Name \in names
  BY DEF CheckMultiSig, Execute
<1>2. Leave(st, altstack, vfExec, pbegincodehash, CountedOps + KeysCount)
  BY DEF CheckMultiSig
<1>3. Follows(Left(c, st, altstack, vfExec, pbegincodehash, CountedOps + KeysCount))
  <2> HIDE DEF st
  <2>1. QED
    BY <1>2, LeaveFollows
<1>4. Turn(F, c) = After(c)
  BY <1>1, TurnExecuted
<1>5. After(c) = Left(c, st, altstack, vfExec, pbegincodehash, CountedOps + KeysCount)
  BY <1>1, FrameRead, SameChecks DEF After, Shows
<1>6. QED
  BY <1>3, <1>4, <1>5

LEMMA AltStackFollows ==
    ASSUME NEW c, Shows(c), NEW F, F = flags, AltStack
    PROVE  Follows(Turn(F, c))
<1>1. CASE /\ Execute({"TOALTSTACK"})
           /\ Leave(Pop(1), Append(altstack, Top(1)), vfExec, pbegincodehash,
                    CountedOps)
  <2>1. Name = "TOALTSTACK"
    BY <1>1 DEF Execute
  <2>2. After(c) = Left(c, Pop(1), Append(altstack, Top(1)), vfExec,
                        pbegincodehash, CountedOps)
    BY <2>1, FrameRead DEF After, Shows
  <2>3. QED
    BY <1>1, <2>1, <2>2, TurnExecuted, LeaveFollows
<1>2. CASE /\ Execute({"FROMALTSTACK"})
           /\ Leave(Append(stack, Last(altstack)), Front(altstack), vfExec,
                    pbegincodehash, CountedOps)
  <2>1. Name = "FROMALTSTACK"
    BY <1>2 DEF Execute
  <2>2. After(c) = Left(c, Append(stack, Last(altstack)), Front(altstack), vfExec,
                        pbegincodehash, CountedOps)
    BY <2>1, FrameRead DEF After, Shows
  <2>3. QED
    BY <1>2, <2>1, <2>2, TurnExecuted, LeaveFollows
<1>3. QED
  BY <1>1, <1>2 DEF AltStack

LEMMA CodeSeparatorFollows ==
    ASSUME NEW c, Shows(c), NEW F, F = flags, CodeSeparator
    PROVE  Follows(Turn(F, c))
<1>1. Name = "CODESEPARATOR" /\ Execute({"CODESEPARATOR"})
  BY DEF CodeSeparator, Execute
<1>2. After(c) = Left(c, stack, altstack, vfExec, pc + 1, CountedOps)
  BY <1>1, FrameRead DEF After, Shows
<1>3. QED
  BY <1>1, <1>2, TurnExecuted, LeaveFollows DEF CodeSeparator

\* A conditional counts its branch whether or not it is executed.
LEMMA IfFollows ==
    ASSUME NEW c, Shows(c), NEW F, F = flags, If
    PROVE  Follows(Turn(F, c))
<1>1. CASE /\ Execute({"IF", "NOTIF"})
           /\ Leave(Pop(1), altstack,
                    Append(vfExec, CastToBool(Top(1)) = (Name = "IF")),
                    pbegincodehash, CountedOps)
  <2> DEFINE exec == Append(vfExec, CastToBool(Top(1)) = (Name = "IF"))
  <2>1. Name \in {"IF", "NOTIF"}
    BY <1>1 DEF Execute
  <2>2. After(c) = Left(c, Pop(1), altstack, exec, pbegincodehash, CountedOps)
    BY <2>1, FrameRead DEF After, Shows
  <2>3. Follows(Left(c, Pop(1), altstack, exec, pbegincodehash, CountedOps))
    <3> HIDE DEF exec
    <3>1. Leave(Pop(1), altstack, exec, pbegincodehash, CountedOps)
      BY <1>1 DEF exec
    <3>2. QED
      BY <3>1, LeaveFollows
  <2>4. QED
    BY <1>1, <2>1, <2>2, <2>3, TurnExecuted
<1>2. CASE /\ Running /\ Permitted /\ ~fExec /\ Name \in {"IF", "NOTIF"}
           /\ Leave(stack, altstack, Append(vfExec, FALSE), pbegincodehash,
                    CountedOps)
  <2>1. Turn(F, c) = Left(c, stack, altstack, Append(vfExec, FALSE),
                          pbegincodehash, CountedOps)
    BY <1>2, FrameRead, SameTurn DEF Turn, Shows
  <2>2. QED
    BY <1>2, <2>1, LeaveFollows
<1>3. QED
  BY <1>1, <1>2 DEF If

LEMMA ElseOrEndIfFollows ==
    ASSUME NEW c, Shows(c), NEW F, F = flags, ElseOrEndIf
    PROVE  Follows(Turn(F, c))
<1> DEFINE exec == Front(vfExec) \o IF Name = "ELSE" THEN <<~Last(vfExec)>>
                                    ELSE <<>>
<1>1. /\ Permitted /\ vfExec # <<>> /\ Name \in {"ELSE", "ENDIF"}
      /\ Leave(stack, altstack, exec, pbegincodehash, CountedOps)
  BY DEF ElseOrEndIf
<1>2. Turn(F, c) = Left(c, stack, altstack, exec, pbegincodehash, CountedOps)
  BY <1>1, FrameRead, SameTurn DEF Turn, Shows
<1> HIDE DEF exec
<1>3. QED
  BY <1>1, <1>2, LeaveFollows

LEMMA SkipFollows ==
    ASSUME NEW c, Shows(c), NEW F, F = flags, Skip
    PROVE  Follows(Turn(F, c))
<1>1. /\ Permitted /\ ~fExec /\ Name \notin {"IF", "NOTIF", "ELSE", "ENDIF"}
      /\ LeaveStack(stack)
  BY DEF Skip, Conditionals
<1>2. Turn(F, c) = LeftStack(c, stack)
  BY <1>1, FrameRead, SameTurn DEF Turn, Shows
<1>3. QED
  BY <1>1, <1>2, LeaveStackFollows

\* An ELSE or ENDIF raises only outside of every IF.
LEMMA ElseRaises ==
    ASSUME Name \in {"ELSE", "ENDIF"}, OpRaises, Len(stack) \in Nat
    PROVE  vfExec = <<>>
<1>1. Items = 0 /\ Operands = 0
  BY ShuffleDomain DEF Items, Operands, ShuffleNames, Unary, Binary, Hashes,
                       TwentyByteHashes
<1>2. Has(Items) /\ ~\E i \in 1 .. Operands : ~IsBigNum(Top(i))
  BY <1>1 DEF Has
<1>3. QED
  BY <1>2 DEF OpRaises

\* An operation that may not run, or that raises, refuses the input.
LEMMA FailsFollows ==
    ASSUME NEW c, Shows(c), NEW F, F = flags, NotPermitted \/ OpFails,
           Len(stack) \in Nat
    PROVE  Follows(Turn(F, c))
<1>1. CASE NotPermitted
  <2>1. Turn(F, c) = Refused /\ Raise
    BY <1>1, SameTurn DEF NotPermitted, Turn
  <2>2. QED
    BY <2>1 DEF Follows
<1>2. CASE OpFails
  <2>1. Permitted /\ fExec /\ OpRaises /\ Raise
    BY <1>2 DEF OpFails, OpCompletes
  <2>2. Name \in {"ELSE", "ENDIF"} => vfExec = <<>>
    BY <2>1, ElseRaises
  <2>3. Turn(F, c) = Refused
    BY <2>1, <2>2, FrameRead, SameTurn, SameRaises DEF Turn, Shows
  <2>4. QED
    BY <2>1, <2>3 DEF Follows
<1>3. QED
  BY <1>1, <1>2

\* The phases of a call.
Phases == {"idle", "scriptSig", "scriptPubKey", "redeemScript", "witness"}

\* A step of the loop is the outcome of its frame.
LEMMA EvalFollows ==
    ASSUME NEW c, Shows(c), NEW F, F = flags, NEW i, EvalStep,
           Len(stack) \in Nat, phase \in Phases
    PROVE  Follows(Outcome(F, i, c))
<1>1. Running
  BY DEF EvalStep, NotPermitted, OpFails, Skip, Push, Rearrange, IfDup,
         PickOrRoll, Measure, Arithmetic, Hash, Equal, Verified, CheckSigOp,
         CheckMultiSig, AltStack, CodeSeparator, Nop, If, ElseOrEndIf, Execute
<1>2. Outcome(F, i, c) = Turn(F, c)
  BY <1>1 DEF Running, Outcome, Shows, Phases
<1>3. Follows(Turn(F, c))
  <2>1. CASE NotPermitted \/ OpFails
    BY <2>1, FailsFollows
  <2>2. CASE Skip \/ Push \/ Rearrange \/ IfDup \/ PickOrRoll \/ Measure
    BY <2>2, SkipFollows, PushFollows, RearrangeFollows, IfDupFollows,
       PickOrRollFollows, MeasureFollows
  <2>3. CASE Arithmetic \/ Hash \/ Equal \/ Verified \/ CheckSigOp \/ CheckMultiSig
    BY <2>3, ArithmeticFollows, HashFollows, EqualFollows, VerifiedFollows,
       CheckSigFollows, CheckMultiSigFollows
  <2>4. CASE AltStack \/ CodeSeparator \/ Nop \/ If \/ ElseOrEndIf
    BY <2>4, AltStackFollows, CodeSeparatorFollows, NopFollows, IfFollows,
       ElseOrEndIfFollows
  <2>5. QED
    BY <2>1, <2>2, <2>3, <2>4 DEF EvalStep
<1>4. QED
  BY <1>2, <1>3

-----------------------------------------------------------------------------
\* A script that is entered is the frame that enters it; the copy of the stack
\* is kept only under P2SH, which alone reads it.
LEMMA EnterFollows ==
    ASSUME NEW ph, NEW s, NEW st, NEW copy, Enter(ph, s, st),
           UNCHANGED <<inp, trial, verdict>>,
           "P2SH" \in flags => stackCopy' = copy
    PROVE  Follows(Entered(ph, s, st, copy))
<1>1. flags' = flags
  BY DEF flags
<1>2. QED
  BY <1>1 DEF Enter, Follows, Shows, Entered, Frame

\* The checks that come after the last script.
LEMMA ConcludeFollows ==
    ASSUME NEW F, F = flags, NEW i, i = inp, NEW st, NEW had \in BOOLEAN,
           Conclude(st, had)
    PROVE  Follows(Concluded(F, i, st, had))
BY DEF Conclude, Concluded, Follows

\* A witness script is entered, unless an element of its stack is too long.
LEMMA EvaluateFollows ==
    ASSUME NEW c, Shows(c), NEW s, NEW st, EvaluateWitness(s, st)
    PROVE  Follows(Evaluated(c, s, st))
<1>1. CASE \E k \in DOMAIN st : Size(st[k]) > MaxElement
  BY <1>1 DEF EvaluateWitness, Evaluated, Follows
<1>2. CASE ~\E k \in DOMAIN st : Size(st[k]) > MaxElement
  <2>1. /\ Enter("witness", s, st) /\ UNCHANGED <<inp, trial, verdict, stackCopy>>
        /\ Evaluated(c, s, st) = Entered("witness", s, st, c.stackCopy)
    BY <1>2 DEF EvaluateWitness, Evaluated
  <2>2. "P2SH" \in flags => stackCopy' = c.stackCopy
    BY <2>1 DEF Shows
  <2>3. QED
    BY <2>1, <2>2, EnterFollows
<1>3. QED
  BY <1>1, <1>2

\* A witness program, by its version and size.
LEMMA ProgramFollows ==
    ASSUME NEW c, Shows(c), NEW F, F = flags, NEW i, i = inp, NEW s,
           WitnessProgram(s)
    PROVE  Follows(Program(F, i, c, s))
<1>1. c.stack = stack
  BY DEF Shows
<1>2. CASE WitnessVersion(s) # 0
  BY <1>1, <1>2, ConcludeFollows DEF WitnessProgram, Program, Follows
<1>3. CASE WitnessVersion(s) = 0
  BY <1>3, EvaluateFollows DEF WitnessProgram, Program, Follows
<1>4. QED
  BY <1>2, <1>3

\* The end of each script, and of the call.
LEMMA PubKeyFollows ==
    ASSUME NEW c, Shows(c), NEW F, F = flags, NEW i, i = inp, EndScriptPubKey
    PROVE  Follows(PubKeyEnd(F, i, c))
<1>1. c.stack = stack /\ (TrueIn(c) <=> ReturnsTrue)
  BY DEF Shows, TrueIn, ReturnsTrue
<1>2. CASE ~ReturnsTrue
  BY <1>1, <1>2 DEF EndScriptPubKey, PubKeyEnd, Follows
<1>3. CASE ReturnsTrue /\ SpendsWitness(inp.pub)
  <2>1. ~IsP2SH(inp.pub)
    BY <1>3 DEF SpendsWitness, IsWitnessScriptPubKey, IsP2SH
  <2>2. IF inp.sig # <<>> THEN Raise ELSE WitnessProgram(inp.pub)
    BY <1>3, <2>1 DEF EndScriptPubKey, SpendsP2SH
  <2>3. PubKeyEnd(F, i, c) = IF i.sig # <<>> THEN Refused
                             ELSE Program(F, i, c, i.pub)
    BY <1>1, <1>3 DEF PubKeyEnd, SpendsWitness
  <2>4. QED
    BY <2>2, <2>3, ProgramFollows DEF Follows
<1>4. CASE ReturnsTrue /\ ~SpendsWitness(inp.pub) /\ SpendsP2SH
  <2>1. c.stackCopy = stackCopy
    BY <1>4 DEF Shows, SpendsP2SH
  <2>2. PubKeyEnd(F, i, c) =
        IF ~Pushes(i.sig) THEN Refused
        ELSE Entered("redeemScript", ScriptOf(Last(stackCopy)),
                     Front(stackCopy), stackCopy)
    BY <1>1, <1>4, <2>1 DEF PubKeyEnd, SpendsWitness, SpendsP2SH
  <2>3. CASE ~Pushes(inp.sig)
    BY <1>4, <2>2, <2>3 DEF EndScriptPubKey, Follows
  <2>4. CASE Pushes(inp.sig)
    <3>1. /\ Enter("redeemScript", ScriptOf(Last(stackCopy)), Front(stackCopy))
          /\ UNCHANGED <<inp, trial, verdict, stackCopy>>
      BY <1>4, <2>4 DEF EndScriptPubKey
    <3> DEFINE s == ScriptOf(Last(stackCopy))
               st == Front(stackCopy)
    <3>2. Enter("redeemScript", s, st) /\ UNCHANGED <<inp, trial, verdict, stackCopy>>
      BY <3>1
    <3>3. PubKeyEnd(F, i, c) = Entered("redeemScript", s, st, c.stackCopy)
      BY <2>1, <2>2, <2>4
    <3>4. "P2SH" \in flags => stackCopy' = c.stackCopy
      BY <2>1, <3>1
    <3> HIDE DEF s, st
    <3>5. QED
      BY <3>2, <3>3, <3>4, EnterFollows
  <2>5. QED
    BY <2>3, <2>4
<1>5. CASE ReturnsTrue /\ ~SpendsWitness(inp.pub) /\ ~SpendsP2SH
  <2>1. Conclude(stack, FALSE)
    BY <1>5 DEF EndScriptPubKey
  <2>2. PubKeyEnd(F, i, c) = Concluded(F, i, stack, FALSE)
    BY <1>1, <1>5 DEF PubKeyEnd, SpendsWitness, SpendsP2SH
  <2>3. QED
    BY <2>1, <2>2, ConcludeFollows
<1>6. QED
  BY <1>2, <1>3, <1>4, <1>5

LEMMA RedeemFollows ==
    ASSUME NEW c, Shows(c), NEW F, F = flags, NEW i, i = inp, EndRedeemScript
    PROVE  Follows(RedeemEnd(F, i, c))
<1>1. c.stack = stack /\ c.script = script /\ (TrueIn(c) <=> ReturnsTrue)
  BY DEF Shows, TrueIn, ReturnsTrue
<1>2. CASE ~ReturnsTrue
  BY <1>1, <1>2 DEF EndRedeemScript, RedeemEnd, Follows
<1>3. CASE ReturnsTrue /\ SpendsWitness(script)
  <2>1. IF inp.sig # <<<<"PUSH", ElementOf(script)>>>> THEN Raise
        ELSE WitnessProgram(script)
    BY <1>3 DEF EndRedeemScript
  <2>2. RedeemEnd(F, i, c) =
        IF inp.sig # <<<<"PUSH", ElementOf(script)>>>> THEN Refused
        ELSE Program(F, i, c, script)
    BY <1>1, <1>3 DEF RedeemEnd, SpendsWitness
  <2>3. WitnessProgram(script) => Follows(Program(F, i, c, script))
    BY ProgramFollows
  <2>4. CASE inp.sig # <<<<"PUSH", ElementOf(script)>>>>
    BY <2>1, <2>2, <2>4 DEF Follows
  <2>5. CASE inp.sig = <<<<"PUSH", ElementOf(script)>>>>
    BY <2>1, <2>2, <2>3, <2>5
  <2>6. QED
    BY <2>4, <2>5
<1>4. CASE ReturnsTrue /\ ~SpendsWitness(script)
  <2>1. Conclude(stack, FALSE)
    BY <1>4 DEF EndRedeemScript
  <2>2. RedeemEnd(F, i, c) = Concluded(F, i, stack, FALSE)
    BY <1>1, <1>4 DEF RedeemEnd, SpendsWitness
  <2>3. QED
    BY <2>1, <2>2, ConcludeFollows
<1>5. QED
  BY <1>2, <1>3, <1>4

LEMMA WitnessFollows ==
    ASSUME NEW c, Shows(c), NEW F, F = flags, NEW i, i = inp, EndWitness
    PROVE  Follows(WitnessEnd(F, i, c))
<1>1. c.stack = stack /\ (TrueIn(c) <=> ReturnsTrue)
  BY DEF Shows, TrueIn, ReturnsTrue
<1>2. CASE Len(stack) # 1 \/ ~ReturnsTrue
  BY <1>1, <1>2 DEF EndWitness, WitnessEnd, Follows
<1>3. CASE ~(Len(stack) # 1 \/ ~ReturnsTrue)
  BY <1>1, <1>3, ConcludeFollows DEF EndWitness, WitnessEnd
<1>4. QED
  BY <1>2, <1>3

\* Every step of a call is the outcome of its frame.
LEMMA NextFollows ==
    ASSUME NEW c, Shows(c), NEW F, F = flags, NEW i, i = inp,
           LInv, Next, ~Finished
    PROVE  Follows(Outcome(F, i, c))
<1>1. phase \in Phases /\ Len(stack) \in Nat /\ Len(script) \in Nat /\ pc \in Nat
  <2>1. Lists /\ Len(script) \in Nat
    BY InvLists
  <2>2. pc \in Nat
    BY <2>1 DEF LInv, FrameInv, PlaceInv
  <2>3. QED
    BY <2>1, <2>2 DEF Lists, LInv, CallInv, Phases
<1>2. /\ c.phase = phase /\ c.pc = pc /\ c.script = script
      /\ c.vfExec = vfExec /\ c.stack = stack
  BY DEF Shows
<1>3. CASE StartScriptSig
  <2>1. phase = "idle"
    BY <1>3 DEF StartScriptSig
  <2>2. CASE flags \cap Unhandled # {}
    BY <1>2, <1>3, <2>1, <2>2 DEF StartScriptSig, Outcome, Follows
  <2>3. CASE flags \cap Unhandled = {}
    <3>1. /\ Enter("scriptSig", inp.sig, <<>>)
          /\ UNCHANGED <<inp, trial, verdict, stackCopy>>
      BY <1>3, <2>3 DEF StartScriptSig
    <3>2. Outcome(F, i, c) = Entered("scriptSig", i.sig, <<>>, c.stackCopy)
      BY <1>2, <2>1, <2>3 DEF Outcome
    <3>3. QED
      BY <3>1, <3>2, EnterFollows DEF Shows
  <2>4. QED
    BY <2>2, <2>3
<1>4. CASE EvalStep
  BY <1>1, <1>4, EvalFollows
<1>5. CASE Unterminated
  <2>1. Outcome(F, i, c) = Refused /\ Raise
    BY <1>1, <1>2, <1>5 DEF Unterminated, Outcome, Phases
  <2>2. QED
    BY <2>1 DEF Follows
<1>6. CASE StartScriptPubKey
  <2>1. phase = "scriptSig" /\ pc > Len(script) /\ vfExec = <<>>
    BY <1>6 DEF StartScriptPubKey, AtEnd
  <2>2. Outcome(F, i, c) = Entered("scriptPubKey", i.pub, stack, stack)
    BY <1>1, <1>2, <2>1 DEF Outcome
  <2>3. /\ Enter("scriptPubKey", inp.pub, stack) /\ UNCHANGED <<inp, trial, verdict>>
        /\ "P2SH" \in flags => stackCopy' = stack
    BY <1>6 DEF StartScriptPubKey
  <2>4. QED
    BY <2>2, <2>3, EnterFollows
<1>7. CASE EndScriptPubKey
  <2>1. phase = "scriptPubKey" /\ pc > Len(script) /\ vfExec = <<>>
    BY <1>7 DEF EndScriptPubKey, AtEnd
  <2>2. Outcome(F, i, c) = PubKeyEnd(F, i, c)
    BY <1>1, <1>2, <2>1 DEF Outcome
  <2>3. QED
    BY <1>7, <2>2, PubKeyFollows
<1>8. CASE EndRedeemScript
  <2>1. phase = "redeemScript" /\ pc > Len(script) /\ vfExec = <<>>
    BY <1>8 DEF EndRedeemScript, AtEnd
  <2>2. Outcome(F, i, c) = RedeemEnd(F, i, c)
    BY <1>1, <1>2, <2>1 DEF Outcome
  <2>3. QED
    BY <1>8, <2>2, RedeemFollows
<1>9. CASE EndWitness
  <2>1. phase = "witness" /\ pc > Len(script) /\ vfExec = <<>>
    BY <1>9 DEF EndWitness, AtEnd
  <2>2. Outcome(F, i, c) = WitnessEnd(F, i, c)
    BY <1>1, <1>2, <2>1 DEF Outcome
  <2>3. QED
    BY <1>9, <2>2, WitnessFollows
<1>10. QED
  BY <1>3, <1>4, <1>5, <1>6, <1>7, <1>8, <1>9 DEF Next

-----------------------------------------------------------------------------
(* A call is a run of outcomes from its start.                               *)

\* A call from its start to the frame c: the frames it goes through.
IsRun(F, i, r, n) ==
    /\ r[0] = Ended("idle")
    /\ \A k \in 0 .. n - 1 : r[k + 1] = Outcome(F, i, r[k])
Reaches(F, i, c) == \E n \in Nat : \E r : IsRun(F, i, r, n) /\ r[n] = c

\* Every answer given, and the call being made, come about that way.
RunInv ==
    /\ \E c : Reaches(flags, inp, c) /\ Shows(c)
    /\ \A j \in DOMAIN verdict : Reaches(Trials[j], inp, Ended(verdict[j]))

\* A call has reached its start, and from each frame reaches the outcome.
LEMMA ReachesStart == ASSUME NEW F, NEW i PROVE Reaches(F, i, Ended("idle"))
<1> DEFINE r == [k \in {0} |-> Ended("idle")]
<1>1. IsRun(F, i, r, 0) /\ r[0] = Ended("idle")
  BY DEF IsRun
<1>2. QED
  BY <1>1 DEF Reaches

LEMMA ReachesNext ==
    ASSUME NEW F, NEW i, NEW c, Reaches(F, i, c)
    PROVE  Reaches(F, i, Outcome(F, i, c))
<1>0. PICK n \in Nat : \E r : IsRun(F, i, r, n) /\ r[n] = c
  BY DEF Reaches
<1>1. PICK r : IsRun(F, i, r, n) /\ r[n] = c
  BY <1>0
<1> DEFINE q == [k \in 0 .. n + 1 |-> IF k <= n THEN r[k] ELSE Outcome(F, i, c)]
<1>2. q[0] = r[0] /\ q[n] = c /\ q[n + 1] = Outcome(F, i, c)
  BY <1>1
<1>3. ASSUME NEW k \in 0 .. n PROVE q[k + 1] = Outcome(F, i, q[k])
  <2>1. CASE k = n
    BY <1>2, <2>1
  <2>2. CASE k # n
    <3>1. k \in 0 .. n - 1 /\ q[k] = r[k] /\ q[k + 1] = r[k + 1]
      BY <2>2
    <3>2. QED
      BY <1>1, <3>1 DEF IsRun
  <2>3. QED
    BY <2>1, <2>2
<1>4. IsRun(F, i, q, n + 1)
  <2> HIDE DEF q
  <2>1. QED
    BY <1>1, <1>2, <1>3 DEF IsRun
<1>5. QED
  <2> HIDE DEF q
  <2>1. QED
    BY <1>2, <1>4 DEF Reaches

\* The frame of an answer tells the answer.
LEMMA EndedOnce ==
    \A v, w : /\ Ended(v) = Ended(w) => v = w
              /\ Ended(v).phase = v
BY DEF Ended, Entered, Frame

\* An answer is recorded with the flags of the call.
LEMMA AnswerRun ==
    ASSUME RunInv, IInv, NEW c, Reaches(flags, inp, c),
           NEW v \in {"ok", "rejected"}, Outcome(flags, inp, c) = Ended(v),
           Answer(v)
    PROVE  RunInv'
<1>1. /\ verdict' = Append(verdict, v) /\ trial' = trial + 1
      /\ inp' = inp /\ Shows(Ended("idle"))'
  BY DEF Answer, Enter, Shows, Ended, Entered, Frame
<1>2. verdict \in Seq({"ok", "rejected"}) /\ trial = Len(verdict) + 1
  BY DEF IInv, VerdictInv
<1>3. Reaches(flags, inp, Ended(v))
  BY ReachesNext
<1>4. ASSUME NEW j \in DOMAIN verdict'
      PROVE  Reaches(Trials[j], inp, Ended(verdict'[j]))
  <2>1. CASE j = Len(verdict) + 1
    <3>1. verdict'[j] = v /\ Trials[j] = flags
      BY <1>1, <1>2, <2>1 DEF flags
    <3>2. QED
      BY <1>3, <3>1
  <2>2. CASE j # Len(verdict) + 1
    <3>1. j \in DOMAIN verdict /\ verdict'[j] = verdict[j]
      BY <1>1, <1>2, <2>2
    <3>2. QED
      BY <3>1 DEF RunInv
  <2>3. QED
    BY <2>1, <2>2
<1>5. Reaches(flags', inp', Ended("idle"))
  BY ReachesStart
<1>6. QED
  BY <1>1, <1>4, <1>5 DEF RunInv

\* Each step of the specification lengthens the run of the current call.
LEMMA RunInvStep == LInv /\ IInv /\ RunInv /\ [Next]_vars => RunInv'
<1> SUFFICES ASSUME LInv, IInv, RunInv, [Next]_vars PROVE RunInv'
  OBVIOUS
<1>1. PICK c : Reaches(flags, inp, c) /\ Shows(c)
  BY DEF RunInv
<1>2. CASE UNCHANGED vars
  <2>1. /\ UNCHANGED <<inp, trial, verdict, phase, stackCopy>>
        /\ UNCHANGED <<script, pc, stack, altstack, vfExec, nOpCount, pbegincodehash>>
        /\ flags' = flags
    BY <1>2 DEF vars, frame, flags
  <2>2. Shows(c)'
    BY <1>1, <2>1 DEF Shows
  <2>3. QED
    BY <1>1, <2>1, <2>2 DEF RunInv
<1>3. CASE Next /\ ~Finished
  <2>1. PICK F, i : F = flags /\ i = inp
    OBVIOUS
  <2> DEFINE d == Outcome(F, i, c)
  <2>2. Follows(d)
    BY <1>1, <1>3, <2>1, NextFollows
  <2>3. CASE d = Refused /\ Raise
    BY <1>1, <2>1, <2>3, AnswerRun DEF Refused, Raise
  <2>4. CASE d = Ended("ok") /\ Answer("ok")
    BY <1>1, <2>1, <2>4, AnswerRun
  <2>5. CASE UNCHANGED <<inp, trial, verdict>> /\ Shows(d)'
    <3>1. Reaches(F, i, d)
      BY <1>1, <2>1, ReachesNext
    <3>2. flags' = F /\ inp' = i
      BY <2>1, <2>5 DEF flags
    <3> HIDE DEF d
    <3>3. QED
      BY <2>5, <3>1, <3>2 DEF RunInv
  <2>6. QED
    BY <2>2, <2>3, <2>4, <2>5 DEF Follows
<1>4. QED
  BY <1>2, <1>3 DEF Finished

LEMMA RunInvInit == Init => RunInv
<1> SUFFICES ASSUME Init PROVE RunInv
  OBVIOUS
<1>1. Shows(Ended("idle"))
  BY DEF Init, InitFrame, Shows, Ended, Entered, Frame
<1>2. verdict = <<>>
  BY DEF Init
<1>3. QED
  BY <1>1, <1>2, ReachesStart DEF RunInv

\* Any call of VerifyScript goes, for any inputs, limits and flags, from frame
\* to outcome: its frame and its answer depend on the input and the flags
\* alone, on no earlier call.
THEOREM RunInvariance == Spec => []RunInv
BY RunInvInit, RunInvStep, FrameInvariance, Invariance, PTL DEF Spec

-----------------------------------------------------------------------------
(* Runs of one input under two sets of flags.                                *)

\* A non-empty set of numbers has a least one.
LEMMA LeastOf ==
    ASSUME NEW D, D \subseteq Nat, D # {}
    PROVE  \E m \in D : \A d \in D : m <= d
<1> DEFINE R == OpToRel(<, Nat)
<1>1. IsWellFoundedOn(R, Nat)
  BY NatLessThanWellFounded
<1>2. PICK m \in D : \A d \in D : <<d, m>> \notin R
  <2> HIDE DEF R
  <2>1. QED
    BY <1>1, WFMin
<1>3. ASSUME NEW d \in D PROVE m <= d
  <2>1. d \in Nat /\ m \in Nat
    OBVIOUS
  <2>2. d < m => <<d, m>> \in R
    BY <2>1 DEF OpToRel
  <2> HIDE DEF R
  <2>3. QED
    BY <1>2, <2>1, <2>2
<1>4. QED
  BY <1>3

\* A set that has zero, and the successor of each number it has, has all.
LEMMA Counting ==
    ASSUME NEW T, 0 \in T, \A k \in Nat : k \in T => k + 1 \in T
    PROVE  \A k \in Nat : k \in T
<1> SUFFICES ASSUME NEW k \in Nat, k \notin T PROVE FALSE
  OBVIOUS
<1> DEFINE D == {j \in Nat : j \notin T}
<1>1. PICK m \in D : \A d \in D : m <= d
  <2>1. D \subseteq Nat /\ D # {}
    OBVIOUS
  <2> HIDE DEF D
  <2>2. QED
    BY <2>1, LeastOf
<1>2. m \in Nat /\ m # 0
  OBVIOUS
<1>3. m - 1 \in Nat /\ (m - 1) + 1 = m /\ ~(m <= m - 1)
  BY <1>2
<1>4. m - 1 \in T
  BY <1>1, <1>3
<1>5. QED
  BY <1>3, <1>4

-----------------------------------------------------------------------------
\* The flags of a call that VerifyScript takes.
Sound(F) ==
    /\ "WITNESS" \in F => "P2SH" \in F
    /\ "CLEANSTACK" \in F => "WITNESS" \in F

\* What fewer flags make of an outcome: nothing else, unless more refuse or
\* fewer accept.
Agree(f, g) == g = Refused \/ f = Ended("ok") \/ f = g

\* More flags raise more in a turn of the loop, and change nothing else.
LEMMA TurnAgrees ==
    ASSUME NEW F, NEW G, F \subseteq G, NEW c
    PROVE  Agree(Turn(F, c), Turn(G, c))
<1>1. At(F, c)!OpRaises => At(G, c)!OpRaises
  BY MoreFlagsRaiseMore
<1>2. QED
  BY <1>1 DEF Turn, Agree

\* They ask more of the last stack.
LEMMA ConcludeAgrees ==
    ASSUME NEW F, NEW G, F \subseteq G, Sound(F), NEW i, NEW st,
           NEW had \in BOOLEAN
    PROVE  Agree(Concluded(F, i, st, had), Concluded(G, i, st, had))
BY DEF Concluded, Agree, Sound

\* A witness program is read the same way under all flags that look at it.
LEMMA ProgramAgrees ==
    ASSUME NEW F, NEW G, F \subseteq G, Sound(F), NEW i, NEW c, NEW s
    PROVE  Agree(Program(F, i, c, s), Program(G, i, c, s))
<1>1. Agree(Concluded(F, i, <<Last(c.stack)>>, TRUE),
            Concluded(G, i, <<Last(c.stack)>>, TRUE))
  BY ConcludeAgrees
<1>2. CASE WitnessVersion(s) # 0
  BY <1>1, <1>2 DEF Program, Agree
<1>3. CASE WitnessVersion(s) = 0
  BY <1>3 DEF Program, Agree
<1>4. QED
  BY <1>2, <1>3

\* Without WITNESS nothing is asked of the last stack but that it is true.
LEMMA ConcludeLax ==
    ASSUME NEW F, Sound(F), "WITNESS" \notin F, NEW i, NEW st, NEW had \in BOOLEAN
    PROVE  Concluded(F, i, st, had) = Ended("ok")
BY DEF Concluded, Sound

\* Where fewer flags end the call, they accept it.
LEMMA PubKeyAgrees ==
    ASSUME NEW F, NEW G, F \subseteq G, Sound(F), NEW i, NEW c
    PROVE  Agree(PubKeyEnd(F, i, c), PubKeyEnd(G, i, c))
<1>1. IsWitnessScriptPubKey(i.pub) => ~IsP2SH(i.pub)
  BY DEF IsWitnessScriptPubKey, IsP2SH
<1>2. Agree(Program(F, i, c, i.pub), Program(G, i, c, i.pub))
  BY ProgramAgrees
<1>3. Agree(Concluded(F, i, c.stack, FALSE), Concluded(G, i, c.stack, FALSE))
  BY ConcludeAgrees
<1>4. "WITNESS" \notin F => Concluded(F, i, c.stack, FALSE) = Ended("ok")
  BY ConcludeLax
<1>5. "P2SH" \notin F => "WITNESS" \notin F
  BY DEF Sound
<1>6. QED
  BY <1>1, <1>2, <1>3, <1>4, <1>5 DEF PubKeyEnd, Agree

LEMMA RedeemAgrees ==
    ASSUME NEW F, NEW G, F \subseteq G, Sound(F), NEW i, NEW c
    PROVE  Agree(RedeemEnd(F, i, c), RedeemEnd(G, i, c))
<1>1. Agree(Program(F, i, c, c.script), Program(G, i, c, c.script))
  BY ProgramAgrees
<1>2. Agree(Concluded(F, i, c.stack, FALSE), Concluded(G, i, c.stack, FALSE))
  BY ConcludeAgrees
<1>3. "WITNESS" \notin F => Concluded(F, i, c.stack, FALSE) = Ended("ok")
  BY ConcludeLax
<1>4. QED
  BY <1>1, <1>2, <1>3 DEF RedeemEnd, Agree

\* Together: an outcome under more flags is the one under fewer, a refusal,
\* or beyond an acceptance.
LEMMA OutcomeAgrees ==
    ASSUME NEW F, NEW G, F \subseteq G, Sound(F), NEW i, NEW c
    PROVE  Agree(Outcome(F, i, c), Outcome(G, i, c))
<1>1. Agree(Turn(F, c), Turn(G, c))
  BY TurnAgrees
<1>2. Agree(PubKeyEnd(F, i, c), PubKeyEnd(G, i, c))
  BY PubKeyAgrees
<1>3. Agree(RedeemEnd(F, i, c), RedeemEnd(G, i, c))
  BY RedeemAgrees
<1>4. Agree(WitnessEnd(F, i, c), WitnessEnd(G, i, c))
  <2>1. Agree(Concluded(F, i, c.stack, TRUE), Concluded(G, i, c.stack, TRUE))
    BY ConcludeAgrees
  <2>2. QED
    BY <2>1 DEF WitnessEnd, Agree
<1>5. F \cap Unhandled # {} => G \cap Unhandled # {}
  OBVIOUS
<1>6. QED
  BY <1>1, <1>2, <1>3, <1>4, <1>5 DEF Outcome, Agree

\* An answer stands.
LEMMA EndedStays ==
    ASSUME NEW F, NEW i, NEW v \in {"ok", "rejected"}
    PROVE  Outcome(F, i, Ended(v)) = Ended(v)
BY EndedOnce DEF Outcome

\* A call can be looked at any time after its answer.
LEMMA LongerRun ==
    ASSUME NEW F, NEW i, NEW r, NEW n \in Nat, IsRun(F, i, r, n),
           NEW v \in {"ok", "rejected"}, r[n] = Ended(v), NEW m \in Nat
    PROVE  \E q : IsRun(F, i, q, n + m) /\ q[n + m] = Ended(v)
<1> DEFINE q == [k \in 0 .. n + m |-> IF k <= n THEN r[k] ELSE Ended(v)]
<1>1. q[0] = r[0] /\ q[n + m] = Ended(v)
  OBVIOUS
<1>2. ASSUME NEW k \in 0 .. (n + m) - 1 PROVE q[k + 1] = Outcome(F, i, q[k])
  <2>1. CASE k < n
    <3>1. k \in 0 .. n - 1 /\ q[k] = r[k] /\ q[k + 1] = r[k + 1]
      BY <2>1
    <3>2. QED
      BY <3>1 DEF IsRun
  <2>2. CASE ~(k < n)
    <3>1. q[k] = Ended(v) /\ q[k + 1] = Ended(v)
      BY <2>2
    <3> HIDE DEF q
    <3>2. QED
      BY <3>1, EndedStays
  <2>3. QED
    BY <2>1, <2>2
<1>3. IsRun(F, i, q, n + m)
  <2> HIDE DEF q
  <2>1. QED
    BY <1>1, <1>2 DEF IsRun
<1>4. QED
  <2> HIDE DEF q
  <2>1. QED
    BY <1>1, <1>3

\* Two calls of one input go the same way, until more flags refuse it or
\* fewer accept it.
LEMMA RunsAgree ==
    ASSUME NEW F, NEW G, F \subseteq G, Sound(F), NEW i,
           NEW n \in Nat, NEW f, NEW g, IsRun(F, i, f, n), IsRun(G, i, g, n)
    PROVE  Agree(f[n], g[n])
<1> DEFINE T == {k \in Nat : k <= n => Agree(f[k], g[k])}
<1>1. 0 \in T
  BY DEF IsRun, Agree
<1>2. ASSUME NEW k \in Nat, k \in T PROVE k + 1 \in T
  <2> SUFFICES ASSUME k + 1 <= n PROVE Agree(f[k + 1], g[k + 1])
    OBVIOUS
  <2>1. k \in 0 .. n - 1 /\ Agree(f[k], g[k])
    BY <1>2
  <2>2. f[k + 1] = Outcome(F, i, f[k]) /\ g[k + 1] = Outcome(G, i, g[k])
    BY <2>1 DEF IsRun
  <2>3. CASE g[k] = Refused
    BY <2>2, <2>3, EndedStays DEF Agree, Refused
  <2>4. CASE f[k] = Ended("ok")
    BY <2>2, <2>4, EndedStays DEF Agree
  <2>5. CASE f[k] = g[k]
    BY <2>2, <2>5, OutcomeAgrees
  <2>6. QED
    BY <2>1, <2>3, <2>4, <2>5 DEF Agree
<1>3. \A k \in Nat : k \in T
  <2> HIDE DEF T
  <2>1. QED
    BY <1>1, <1>2, Counting
<1>4. QED
  BY <1>3

\* What is accepted under a set of flags is accepted under fewer.
LEMMA FewerAccept ==
    ASSUME NEW F, NEW G, F \subseteq G, Sound(F), NEW i,
           NEW v \in {"ok", "rejected"},
           Reaches(F, i, Ended(v)), Reaches(G, i, Ended("ok"))
    PROVE  v = "ok"
<1>1. PICK n \in Nat : \E r : IsRun(F, i, r, n) /\ r[n] = Ended(v)
  BY DEF Reaches
<1>2. PICK m \in Nat : \E r : IsRun(G, i, r, m) /\ r[m] = Ended("ok")
  BY DEF Reaches
<1>3. PICK f : IsRun(F, i, f, n + m) /\ f[n + m] = Ended(v)
  BY <1>1, LongerRun
<1>4. PICK g : IsRun(G, i, g, m + n) /\ g[m + n] = Ended("ok")
  BY <1>2, LongerRun
<1>5. m + n = n + m /\ n + m \in Nat
  OBVIOUS
<1>6. Agree(Ended(v), Ended("ok"))
  BY <1>3, <1>4, <1>5, RunsAgree
<1>7. QED
  BY <1>6, EndedOnce DEF Agree, Refused

\* Every flag is a soft fork, for any inputs, limits and sets of flags: what
\* VerifyScript accepts under some flags it accepts under every subset of
\* them that it can be called with.
THEOREM FlagsOnlyRestrict == Spec => []AddingFlagsOnlyRestricts
<1>1. RunInv /\ IInv => AddingFlagsOnlyRestricts
  <2> SUFFICES ASSUME RunInv, IInv, NEW F \in FlagsTried, NEW G \in FlagsTried,
                      F \subseteq G, Sound(F), Accepted(G)
               PROVE  Accepted(F)
    BY DEF AddingFlagsOnlyRestricts, Sound
  <2>1. PICK j \in DOMAIN verdict : Trials[j] = G /\ verdict[j] = "ok"
    BY DEF Accepted
  <2>2. PICK k \in DOMAIN verdict : Trials[k] = F
    BY DEF FlagsTried
  <2>3. verdict[k] \in {"ok", "rejected"}
    BY DEF IInv, VerdictInv
  <2>4. Reaches(F, inp, Ended(verdict[k])) /\ Reaches(G, inp, Ended("ok"))
    BY <2>1, <2>2 DEF RunInv
  <2>5. verdict[k] = "ok"
    BY <2>3, <2>4, FewerAccept
  <2>6. QED
    BY <2>2, <2>5 DEF Accepted
<1>2. QED
  BY <1>1, RunInvariance, Invariance, PTL

-----------------------------------------------------------------------------
(* Lists of anything: stacks while a usual script is run.                    *)

List(s) == \E S : s \in Seq(S)

\* The length, the positions and the items of a list.
LEMMA ListIs ==
    ASSUME NEW s, List(s)
    PROVE  /\ Len(s) \in Nat /\ DOMAIN s = 1 .. Len(s)
           /\ s \in Seq({s[j] : j \in 1 .. Len(s)})
           /\ Len(s) = 0 <=> s = <<>>
<1>1. PICK S : s \in Seq(S)
  BY DEF List
<1>2. Len(s) \in Nat /\ DOMAIN s = 1 .. Len(s) /\ s \in [1 .. Len(s) -> S]
  BY <1>1, LenProperties
<1>3. s \in [1 .. Len(s) -> {s[j] : j \in 1 .. Len(s)}]
  BY <1>2
<1>4. s \in Seq({s[j] : j \in 1 .. Len(s)})
  BY <1>2, <1>3, SeqDef
<1>5. Len(s) = 0 <=> s = <<>>
  BY <1>1, EmptySeq
<1>6. QED
  BY <1>2, <1>4, <1>5

\* A function on positions is a list.
LEMMA ListMade ==
    ASSUME NEW n \in Nat, NEW s, DOMAIN s = 1 .. n, s = [j \in 1 .. n |-> s[j]]
    PROVE  List(s) /\ Len(s) = n
<1> DEFINE S == {s[j] : j \in 1 .. n}
<1>1. s \in [1 .. n -> S]
  OBVIOUS
<1>2. s \in Seq(S)
  BY <1>1, SeqDef
<1>3. DOMAIN s = 1 .. Len(s) /\ Len(s) \in Nat
  BY <1>2, LenProperties
<1>4. Len(s) = n
  BY <1>3
<1>5. QED
  BY <1>2, <1>4 DEF List

\* Lists with the same items are the same.
LEMMA ListsEqual ==
    ASSUME NEW s, NEW t, List(s), List(t), Len(s) = Len(t),
           \A j \in 1 .. Len(s) : s[j] = t[j]
    PROVE  s = t
<1> DEFINE S == {s[j] : j \in 1 .. Len(s)} \cup {t[j] : j \in 1 .. Len(t)}
<1>1. s \in Seq(S) /\ t \in Seq(S)
  BY ListIs, SeqMonotonic
<1> HIDE DEF S
<1>2. QED
  BY <1>1, SeqEqual

\* An item more, and two lists joined.
LEMMA ListAppend ==
    ASSUME NEW s, List(s), NEW e
    PROVE  /\ List(Append(s, e)) /\ Len(Append(s, e)) = Len(s) + 1
           /\ \A j \in 1 .. Len(s) : Append(s, e)[j] = s[j]
           /\ Append(s, e)[Len(s) + 1] = e
<1> DEFINE R == {s[j] : j \in 1 .. Len(s)}
           S == R \cup {e}
<1>0. s \in Seq(R) /\ R \subseteq S /\ e \in S
  BY ListIs
<1> HIDE DEF R, S
<1>1. s \in Seq(S) /\ e \in S
  BY <1>0, SeqMonotonic
<1>2. QED
  BY <1>1, AppendProperties DEF List

LEMMA ListJoin ==
    ASSUME NEW s, NEW t, List(s), List(t)
    PROVE  /\ List(s \o t) /\ Len(s \o t) = Len(s) + Len(t)
           /\ \A j \in 1 .. Len(s) : (s \o t)[j] = s[j]
           /\ \A j \in 1 .. Len(t) : (s \o t)[Len(s) + j] = t[j]
<1> DEFINE R == {s[j] : j \in 1 .. Len(s)}
           Q == {t[j] : j \in 1 .. Len(t)}
           S == R \cup Q
<1>0. /\ Len(s) \in Nat /\ Len(t) \in Nat
      /\ s \in Seq(R) /\ t \in Seq(Q) /\ R \subseteq S /\ Q \subseteq S
  BY ListIs
<1> HIDE DEF R, Q, S
<1>1. s \in Seq(S) /\ t \in Seq(S)
  BY <1>0, SeqMonotonic
<1>2. /\ s \o t \in Seq(S) /\ Len(s \o t) = Len(s) + Len(t)
      /\ \A j \in 1 .. Len(s) + Len(t) :
            (s \o t)[j] = IF j <= Len(s) THEN s[j] ELSE t[j - Len(s)]
  BY <1>1, ConcatProperties
<1>3. \A j \in 1 .. Len(t) : (s \o t)[Len(s) + j] = t[j]
  BY <1>0, <1>2
<1>4. \A j \in 1 .. Len(s) : (s \o t)[j] = s[j]
  BY <1>0, <1>2
<1>5. QED
  BY <1>2, <1>3, <1>4 DEF List

\* The first items of a list.
LEMMA ListStart ==
    ASSUME NEW s, List(s), NEW n \in 0 .. Len(s)
    PROVE  /\ List(SubSeq(s, 1, n)) /\ Len(SubSeq(s, 1, n)) = n
           /\ \A j \in 1 .. n : SubSeq(s, 1, n)[j] = s[j]
<1> DEFINE S == {s[j] : j \in 1 .. Len(s)}
<1>0. Len(s) \in Nat /\ n \in Nat
  BY ListIs
<1>1. \A j \in 1 .. n : s[j] \in S
  BY <1>0
<1> HIDE DEF S
<1>2. /\ SubSeq(s, 1, n) \in Seq(S)
      /\ Len(SubSeq(s, 1, n)) = IF 1 <= n THEN n - 1 + 1 ELSE 0
      /\ \A j \in 1 .. n - 1 + 1 : SubSeq(s, 1, n)[j] = s[1 + j - 1]
  BY <1>0, <1>1, SubSeqProperties
<1>3. Len(SubSeq(s, 1, n)) = n
  BY <1>0, <1>2
<1>4. \A j \in 1 .. n : j \in 1 .. n - 1 + 1 /\ 1 + j - 1 = j
  BY <1>0
<1>5. \A j \in 1 .. n : SubSeq(s, 1, n)[j] = s[j]
  BY <1>2, <1>4
<1>6. QED
  BY <1>2, <1>3, <1>5 DEF List

\* All the items of a list.
LEMMA ListWhole ==
    ASSUME NEW s, List(s) PROVE SubSeq(s, 1, Len(s)) = s
<1>1. Len(s) \in Nat
  BY ListIs
<1>2. Len(s) \in 0 .. Len(s)
  BY <1>1
<1>3. QED
  BY <1>2, ListStart, ListsEqual

\* What is on top of an appended list, and below.
LEMMA ListBelow ==
    ASSUME NEW s, List(s), NEW e
    PROVE  SubSeq(Append(s, e), 1, Len(s)) = s
<1>1. Len(s) \in 0 .. Len(Append(s, e)) /\ Len(s) \in Nat
  BY ListIs, ListAppend
<1> DEFINE t == SubSeq(Append(s, e), 1, Len(s))
<1>2. List(Append(s, e))
  BY ListAppend
<1>3. List(t) /\ Len(t) = Len(s) /\ \A j \in 1 .. Len(s) : t[j] = Append(s, e)[j]
  BY <1>1, <1>2, ListStart
<1> HIDE DEF t
<1>4. \A j \in 1 .. Len(t) : t[j] = s[j]
  BY <1>3, ListAppend
<1>5. QED
  BY <1>3, <1>4, ListsEqual DEF t

-----------------------------------------------------------------------------
(* The operations of the usual scripts, at a frame outside of conditionals   *)
(* and before any separator.                                                 *)

ScriptPhases == {"scriptSig", "scriptPubKey", "redeemScript", "witness"}
Plain(ph, sc, at, st, count, copy) ==
    Frame(ph, sc, at, st, <<>>, <<>>, count, 1, copy)
PlainNext(ph, sc, at, st, count, copy) ==
    IF Len(st) > MaxStack THEN Refused
    ELSE Plain(ph, sc, at + 1, st, count, copy)

UsualNames == {"PUSH", "NUM", "DUP", "HASH160", "EQUAL", "EQUALVERIFY",
               "CHECKSIG", "CHECKMULTISIG"}

\* The limits are numbers.
LEMMA LimitsAre ==
    /\ MaxScript \in Nat /\ MaxOps \in Nat /\ MaxStack \in Nat
    /\ MaxElement \in Nat /\ MaxKeys \in Nat
BY LimitsAreNaturals

\* What an operation leaves there is such a frame again, or too large.
LEMMA LeftPlain ==
    ASSUME NEW ph, NEW sc, NEW at, NEW st, NEW count, NEW copy, NEW c,
           c = Plain(ph, sc, at, st, count, copy), NEW st2, List(st2), NEW n
    PROVE  Left(c, st2, c.altstack, c.vfExec, c.pbegincodehash, n)
           = PlainNext(ph, sc, at, st2, n, copy)
<1>1. Len(<<>>) = 0 /\ Len(st2) \in Nat
  BY ListIs
<1>2. /\ c.altstack = <<>> /\ c.vfExec = <<>> /\ c.pbegincodehash = 1
      /\ c.phase = ph /\ c.script = sc /\ c.pc = at /\ c.stackCopy = copy
  BY DEF Plain, Frame
<1>3. Len(st2) + Len(<<>>) = Len(st2)
  BY <1>1
<1>4. QED
  BY <1>2, <1>3 DEF Left, PlainNext, Plain

\* The readings of such a frame.
LEMMA NamedAt ==
    ASSUME NEW F, NEW c
    PROVE  /\ At(F, c)!Op = c.script[c.pc] /\ At(F, c)!Name = c.script[c.pc][1]
           /\ \A n : At(F, c)!Top(n) = c.stack[Len(c.stack) + 1 - n]
           /\ \A n : At(F, c)!Pop(n) = SubSeq(c.stack, 1, Len(c.stack) - n)
           /\ \A n : At(F, c)!Has(n) <=> Len(c.stack) >= n
BY DEF At!Op, At!Name, At!Top, At!Pop, At!Has

\* What a usual operation reads.
LEMMA ItemsAt ==
    ASSUME NEW F, NEW c, At(F, c)!Name \in UsualNames
    PROVE  /\ At(F, c)!Items =
                IF At(F, c)!Name \in {"DUP", "HASH160"} THEN 1
                ELSE IF At(F, c)!Name \in {"EQUAL", "EQUALVERIFY", "CHECKSIG"}
                THEN 2 ELSE 0
           /\ At(F, c)!Operands = 0
<1> DEFINE n == At(F, c)!Name
           H == Shuffle
<1>1. DOMAIN H = ShuffleNames /\ H["DUP"][1] = 1
  BY DEF Shuffle, ShuffleNames
<1>2. At(F, c)!Shuffle = H
  BY SameElements
<1>3. At(F, c)!Items = CASE n \in DOMAIN H -> H[n][1]
      [] n \in Unary \cup Hashes -> 1
      [] n \in {"IFDUP", "SIZE", "TOALTSTACK", "VERIFY", "IF", "NOTIF"} -> 1
      [] n \in Binary \cup {"EQUAL", "EQUALVERIFY", "PICK", "ROLL",
                               "CHECKSIG", "CHECKSIGVERIFY"} -> 2
      [] n = "WITHIN" -> 3
      [] OTHER -> 0
  BY <1>2 DEF At!Items, At!Unary, Unary, At!Hashes, Hashes, At!Binary, Binary,
              At!TwentyByteHashes, TwentyByteHashes
<1>4. At(F, c)!Operands = CASE n \in Unary \cup {"PICK", "ROLL"} -> 1
      [] n \in Binary -> 2
      [] n = "WITHIN" -> 3
      [] OTHER -> 0
  BY DEF At!Operands, At!Unary, Unary, At!Binary, Binary
<1> HIDE DEF n, H
<1>5. n \in UsualNames
  BY DEF n
<1>6. /\ At(F, c)!Items = IF n \in {"DUP", "HASH160"} THEN 1
                          ELSE IF n \in {"EQUAL", "EQUALVERIFY", "CHECKSIG"}
                          THEN 2 ELSE 0
      /\ At(F, c)!Operands = 0
  BY <1>1, <1>3, <1>4, <1>5
     DEF ShuffleNames, Unary, Binary, Hashes, TwentyByteHashes, UsualNames
<1>7. QED
  BY <1>6 DEF n

\* Where a usual operation may not run, and where it raises.
LEMMA PermittedAt ==
    ASSUME NEW ph, NEW sc, NEW at, NEW st, NEW count \in Nat, NEW copy, NEW c,
           c = Plain(ph, sc, at, st, count, copy), NEW n, n = sc[at][1],
           n \in UsualNames
    PROVE  /\ CountIn(c) = count + IF n \in {"PUSH", "NUM"} THEN 0 ELSE 1
           /\ At({}, c)!Permitted <=>
                 /\ Len(sc) <= MaxScript
                 /\ CountIn(c) <= MaxOps
                 /\ n = "PUSH" => Size(sc[at][2]) <= MaxElement
<1>1. c.script = sc /\ c.pc = at /\ c.nOpCount = count
  BY DEF Plain, Frame
<1>2. At({}, c)!Op = sc[at] /\ At({}, c)!Name = n
  BY <1>1, NamedAt
<1>3. Pushes(<<sc[at]>>) <=> n \in {"PUSH", "NUM"}
  BY DEF Pushes, UsualNames
<1>4. At({}, c)!Pushes(<<sc[at]>>) <=> n \in {"PUSH", "NUM"}
  BY <1>3, SameElements
<1>5. CountIn(c) = count + IF n \in {"PUSH", "NUM"} THEN 0 ELSE 1
  BY <1>1, <1>2, <1>4 DEF CountIn, At!CountedOps
<1>6. n \notin At({}, c)!Disabled \cup {"TRUNCATED"}
  BY DEF At!Disabled, UsualNames
<1>7. At({}, c)!Size(sc[at][2]) = Size(sc[at][2])
  BY SameElements
<1>8. QED
  BY <1>1, <1>2, <1>5, <1>6, <1>7 DEF At!Permitted, CountIn

\* So one that may run is executed, and raises or leaves its stack.
LEMMA TurnAt ==
    ASSUME NEW F, NEW i, NEW ph \in ScriptPhases, NEW sc, List(sc),
           NEW at \in 1 .. Len(sc), NEW st, NEW count, NEW copy, NEW c,
           c = Plain(ph, sc, at, st, count, copy), sc[at][1] \in UsualNames
    PROVE  Outcome(F, i, c) = IF ~At({}, c)!Permitted \/ At(F, c)!OpRaises
                              THEN Refused ELSE After(c)
<1>1. c.phase = ph /\ c.script = sc /\ c.pc = at /\ c.vfExec = <<>>
  BY DEF Plain, Frame
<1>2. at <= Len(sc)
  BY ListIs
<1>3. Outcome(F, i, c) = Turn(F, c)
  BY <1>1, <1>2 DEF Outcome, ScriptPhases
<1>4. NameIn(c) \notin {"ELSE", "ENDIF"}
  BY <1>1, NamedAt DEF NameIn, UsualNames
<1>5. At({}, c)!fExec
  BY <1>1 DEF At!fExec
<1>6. QED
  BY <1>3, <1>4, <1>5 DEF Turn

\* Where the usual operations raise.
LEMMA RaisesAt ==
    ASSUME NEW F, NEW c, List(c.stack), At(F, c)!Name \in UsualNames,
           NEW n, n = At(F, c)!Name
    PROVE  /\ n \in {"PUSH", "NUM"} => ~At(F, c)!OpRaises
           /\ n \in {"DUP", "HASH160"} =>
                 (At(F, c)!OpRaises <=> Len(c.stack) < 1)
           /\ n = "EQUAL" => (At(F, c)!OpRaises <=> Len(c.stack) < 2)
           /\ n = "EQUALVERIFY" =>
                 (At(F, c)!OpRaises <=> \/ Len(c.stack) < 2
                                        \/ At(F, c)!Top(1) # At(F, c)!Top(2))
           /\ n = "CHECKSIG" =>
                 (At(F, c)!OpRaises <=>
                    \/ Len(c.stack) < 2
                    \/ At(F, c)!CheckSigRaises(At(F, c)!Top(2), At(F, c)!Top(1))
                    \/ /\ ~At(F, c)!CheckSigOk
                       /\ "NULLFAIL" \in F /\ At(F, c)!Top(2) # Zero)
           /\ n = "CHECKMULTISIG" =>
                 (At(F, c)!OpRaises <=> At(F, c)!MultiSigRaises)
<1>1. Len(c.stack) \in Nat
  BY ListIs
<1>2. ~\E k \in 1 .. At(F, c)!Operands : ~At(F, c)!IsBigNum(At(F, c)!Top(k))
  BY ItemsAt
<1>3. At(F, c)!Has(At(F, c)!Items) <=>
        Len(c.stack) >= IF n \in {"DUP", "HASH160"} THEN 1
                        ELSE IF n \in {"EQUAL", "EQUALVERIFY", "CHECKSIG"}
                        THEN 2 ELSE 0
  BY ItemsAt, NamedAt
<1>4. At(F, c)!Zero = Zero
  BY SameElements
<1>5. n \in UsualNames /\ n = At(F, c)!Name
  OBVIOUS
<1>6. /\ n \in {"PUSH", "NUM"} => ~At(F, c)!OpRaises
      /\ n \in {"DUP", "HASH160"} => (At(F, c)!OpRaises <=> Len(c.stack) < 1)
      /\ n = "EQUAL" => (At(F, c)!OpRaises <=> Len(c.stack) < 2)
  BY ONLY <1>1, <1>2, <1>3, <1>5 DEF At!OpRaises, UsualNames
<1>7. n = "EQUALVERIFY" =>
        (At(F, c)!OpRaises <=> \/ Len(c.stack) < 2
                               \/ At(F, c)!Top(1) # At(F, c)!Top(2))
  BY ONLY <1>1, <1>2, <1>3, <1>5 DEF At!OpRaises, UsualNames
<1>8. n = "CHECKSIG" =>
        (At(F, c)!OpRaises <=>
           \/ Len(c.stack) < 2
           \/ At(F, c)!CheckSigRaises(At(F, c)!Top(2), At(F, c)!Top(1))
           \/ /\ ~At(F, c)!CheckSigOk
              /\ "NULLFAIL" \in F /\ At(F, c)!Top(2) # Zero)
  BY ONLY <1>1, <1>2, <1>3, <1>4, <1>5 DEF At!OpRaises, UsualNames
<1>9. n = "CHECKMULTISIG" => (At(F, c)!OpRaises <=> At(F, c)!MultiSigRaises)
  BY ONLY <1>1, <1>2, <1>3, <1>5 DEF At!OpRaises, UsualNames
<1>10. QED
  BY <1>6, <1>7, <1>8, <1>9

Value(o) == IF o[1] = "PUSH" THEN o[2] ELSE Num(o[2])

\* A push.
LEMMA PushAt ==
    ASSUME NEW F, NEW i, NEW ph \in ScriptPhases, NEW sc, List(sc),
           NEW at \in 1 .. Len(sc), NEW st, List(st), NEW count \in 0 .. MaxOps,
           NEW copy, sc[at][1] \in {"PUSH", "NUM"}
    PROVE  Outcome(F, i, Plain(ph, sc, at, st, count, copy)) =
             IF \/ Len(sc) > MaxScript
                \/ sc[at][1] = "PUSH" /\ ~(Size(sc[at][2]) <= MaxElement)
             THEN Refused
             ELSE PlainNext(ph, sc, at, Append(st, Value(sc[at])), count, copy)
<1> DEFINE c == Plain(ph, sc, at, st, count, copy)
           n == sc[at][1]
<1>1. c.script = sc /\ c.pc = at /\ c.stack = st
  BY DEF Plain, Frame
<1>2. n \in UsualNames /\ count \in Nat /\ Len(sc) \in Nat
  BY ListIs, LimitsAre DEF UsualNames
<1> HIDE DEF c
<1>3. CountIn(c) = count
  BY <1>2, PermittedAt DEF c
<1>4. At({}, c)!Permitted <=> /\ Len(sc) <= MaxScript
                              /\ n = "PUSH" => Size(sc[at][2]) <= MaxElement
  BY <1>2, <1>3, PermittedAt, LimitsAre DEF c
<1>5. ~At(F, c)!OpRaises
  BY <1>1, <1>2, NamedAt, RaisesAt
<1>6. Outcome(F, i, c) = IF At({}, c)!Permitted THEN After(c) ELSE Refused
  BY <1>2, <1>5, TurnAt DEF c
<1>7. NameIn(c) = n /\ OpIn(c) = sc[at]
  BY <1>1, NamedAt DEF NameIn, OpIn
<1>8. After(c) = LeftStack(c, Append(st, Value(sc[at])))
  BY <1>1, <1>7 DEF After, StackAfter, Value
<1>9. List(Append(st, Value(sc[at])))
  BY ListAppend
<1>10. LeftStack(c, Append(st, Value(sc[at])))
       = PlainNext(ph, sc, at, Append(st, Value(sc[at])), count, copy)
  BY <1>3, <1>9, LeftPlain DEF LeftStack, c
<1>11. QED
  BY <1>2, <1>4, <1>6, <1>8, <1>10, LimitsAre DEF c

\* A frame of a usual script: no conditional, nothing aside, no separator.
Usual(c) ==
    /\ c.phase \in ScriptPhases
    /\ List(c.script) /\ Len(c.script) <= MaxScript
    /\ c.pc \in 1 .. Len(c.script)
    /\ List(c.stack)
    /\ c.nOpCount \in Nat
    /\ c = Plain(c.phase, c.script, c.pc, c.stack, c.nOpCount, c.stackCopy)

\* What follows it when an operation leaves the stack st and the count n.
Onward(c, st, n) ==
    IF Len(st) > MaxStack THEN Refused
    ELSE Plain(c.phase, c.script, c.pc + 1, st, n, c.stackCopy)

\* Its readings.
LEMMA UsualReads ==
    ASSUME NEW F, NEW c, Usual(c)
    PROVE  /\ \A n : At(F, c)!Top(n) = c.stack[Len(c.stack) + 1 - n]
           /\ \A n : ItemIn(c, n) = c.stack[Len(c.stack) + 1 - n]
           /\ \A n : Below(c, n) = SubSeq(c.stack, 1, Len(c.stack) - n)
           /\ NameIn(c) = c.script[c.pc][1] /\ At(F, c)!Name = c.script[c.pc][1]
           /\ Len(c.stack) \in Nat /\ List(c.stack)
BY NamedAt, ListIs DEF ItemIn, Below, NameIn, Usual

\* What an operation leaves that changes the stack and the count alone.
LEMMA UsualLeft ==
    ASSUME NEW c, Usual(c), NEW st, List(st), NEW n
    PROVE  Left(c, st, c.altstack, c.vfExec, c.pbegincodehash, n) = Onward(c, st, n)
<1>1. PlainNext(c.phase, c.script, c.pc, st, n, c.stackCopy) = Onward(c, st, n)
  BY DEF PlainNext, Onward
<1>2. QED
  BY <1>1, LeftPlain DEF Usual

\* An operation that counts.
LEMMA CountedAt ==
    ASSUME NEW F, NEW i, NEW c, Usual(c), c.nOpCount + 1 <= MaxOps,
           NameIn(c) \in UsualNames, NameIn(c) \notin {"PUSH", "NUM"}
    PROVE  /\ CountIn(c) = c.nOpCount + 1
           /\ Outcome(F, i, c) = IF At(F, c)!OpRaises THEN Refused ELSE After(c)
<1> DEFINE ph == c.phase
           sc == c.script
           at == c.pc
           st == c.stack
           count == c.nOpCount
           copy == c.stackCopy
           n == sc[at][1]
<1>0. /\ c = Plain(ph, sc, at, st, count, copy) /\ count \in Nat
      /\ ph \in ScriptPhases /\ List(sc) /\ at \in 1 .. Len(sc)
      /\ count + 1 <= MaxOps /\ Len(sc) <= MaxScript
  BY DEF Usual
<1>1. n \in UsualNames /\ n \notin {"PUSH", "NUM"} /\ n # "PUSH"
  BY UsualReads
<1> HIDE DEF ph, sc, at, st, count, copy, n
<1>2. /\ CountIn(c) = count + IF n \in {"PUSH", "NUM"} THEN 0 ELSE 1
      /\ At({}, c)!Permitted <=>
            /\ Len(sc) <= MaxScript
            /\ CountIn(c) <= MaxOps
            /\ n = "PUSH" => Size(sc[at][2]) <= MaxElement
  BY <1>0, <1>1, PermittedAt DEF n
<1>3. CountIn(c) = count + 1 /\ At({}, c)!Permitted
  BY <1>0, <1>1, <1>2
<1>4. Outcome(F, i, c) = IF ~At({}, c)!Permitted \/ At(F, c)!OpRaises
                         THEN Refused ELSE After(c)
  BY <1>0, <1>1, TurnAt DEF n
<1>5. QED
  BY <1>3, <1>4 DEF count

\* An operation that replaces the items it reads by others.
LEMMA ReplacedAt ==
    ASSUME NEW F, NEW i, NEW c, Usual(c), c.nOpCount + 1 <= MaxOps,
           NameIn(c) \in {"DUP", "HASH160", "EQUAL", "EQUALVERIFY", "CHECKSIG"},
           ~At(F, c)!OpRaises, NEW left, List(left), StackAfter(c) = left
    PROVE  Outcome(F, i, c) = Onward(c, left, c.nOpCount + 1)
<1>1. NameIn(c) \in UsualNames /\ NameIn(c) \notin {"PUSH", "NUM"}
  BY DEF UsualNames
<1>2. CountIn(c) = c.nOpCount + 1 /\ Outcome(F, i, c) = After(c)
  BY <1>1, CountedAt
<1>3. After(c) = LeftStack(c, left)
  BY DEF After
<1>4. QED
  BY <1>2, <1>3, UsualLeft DEF LeftStack

\* And one that raises.
LEMMA RefusedAt ==
    ASSUME NEW F, NEW i, NEW c, Usual(c), c.nOpCount + 1 <= MaxOps,
           NameIn(c) \in {"DUP", "HASH160", "EQUAL", "EQUALVERIFY", "CHECKSIG"},
           At(F, c)!OpRaises
    PROVE  Outcome(F, i, c) = Refused
<1>1. NameIn(c) \in UsualNames /\ NameIn(c) \notin {"PUSH", "NUM"}
  BY DEF UsualNames
<1>2. QED
  BY <1>1, CountedAt

\* The stack less its last items, and with an item instead.
LEMMA Popped ==
    ASSUME NEW st, List(st), NEW n \in 0 .. Len(st), NEW e
    PROVE  /\ List(SubSeq(st, 1, Len(st) - n))
           /\ List(Append(SubSeq(st, 1, Len(st) - n), e))
           /\ Len(SubSeq(st, 1, Len(st) - n)) = Len(st) - n
<1>1. Len(st) - n \in 0 .. Len(st)
  BY ListIs
<1>2. QED
  BY <1>1, ListStart, ListAppend

\* The last item twice.
LEMMA Doubled ==
    ASSUME NEW st, List(st), Len(st) >= 1, NEW low, List(low),
           Len(low) = Len(st) - 1, \A j \in 1 .. Len(st) - 1 : low[j] = st[j],
           NEW two, List(two), Len(two) = 2, two[1] = st[Len(st)],
           two[2] = st[Len(st)]
    PROVE  low \o two = Append(st, st[Len(st)])
<1> DEFINE t == st[Len(st)]
<1>1. Len(st) \in Nat
  BY ListIs
<1>2. /\ List(Append(st, t)) /\ Len(Append(st, t)) = Len(st) + 1
      /\ \A j \in 1 .. Len(st) : Append(st, t)[j] = st[j]
      /\ Append(st, t)[Len(st) + 1] = t
  BY ListAppend
<1> HIDE DEF t
<1>3. /\ List(low \o two) /\ Len(low \o two) = Len(low) + Len(two)
      /\ \A j \in 1 .. Len(low) : (low \o two)[j] = low[j]
      /\ \A j \in 1 .. Len(two) : (low \o two)[Len(low) + j] = two[j]
  <2>1. List(low) /\ List(two)
    OBVIOUS
  <2>2. List(low \o two) /\ Len(low \o two) = Len(low) + Len(two)
    BY ONLY <2>1, ListJoin
  <2>3. \A j \in 1 .. Len(low) : (low \o two)[j] = low[j]
    BY ONLY <2>1, ListJoin
  <2>4. \A j \in 1 .. Len(two) : (low \o two)[Len(low) + j] = two[j]
    BY ONLY <2>1, ListJoin
  <2>5. QED
    BY <2>2, <2>3, <2>4
<1>4. (low \o two)[Len(st)] = t /\ (low \o two)[Len(st) + 1] = t
  <2>1. 1 \in 1 .. Len(two) /\ 2 \in 1 .. Len(two)
    OBVIOUS
  <2>2. (low \o two)[Len(low) + 1] = two[1] /\ (low \o two)[Len(low) + 2] = two[2]
    BY <1>3, <2>1
  <2>3. Len(low) + 1 = Len(st) /\ Len(low) + 2 = Len(st) + 1
    BY <1>1
  <2>4. QED
    BY <2>2, <2>3 DEF t
<1>5. ASSUME NEW j \in 1 .. Len(st) + 1
      PROVE  (low \o two)[j] = Append(st, t)[j]
  <2>1. CASE j <= Len(st) - 1
    <3>1. j \in 1 .. Len(low) /\ j \in 1 .. Len(st) /\ j \in 1 .. Len(st) - 1
      BY <1>1, <2>1
    <3>2. QED
      BY <1>2, <1>3, <3>1
  <2>2. CASE j = Len(st)
    <3>1. j \in 1 .. Len(st)
      BY <1>1, <2>2
    <3>2. QED
      BY <1>2, <1>4, <2>2, <3>1 DEF t
  <2>3. CASE j = Len(st) + 1
    BY <1>2, <1>4, <2>3
  <2>4. j <= Len(st) - 1 \/ j = Len(st) \/ j = Len(st) + 1
    BY <1>1
  <2>5. QED
    BY <2>1, <2>2, <2>3, <2>4, Zenon
<1>6. Len(low \o two) = Len(st) + 1
  BY <1>1, <1>3
<1>7. low \o two = Append(st, t)
  BY <1>2, <1>3, <1>5, <1>6, ListsEqual
<1>8. QED
  BY <1>7 DEF t

\* The operations of a script with the hash of a key.
LEMMA DupAt ==
    ASSUME NEW F, NEW i, NEW c, Usual(c), c.nOpCount + 1 <= MaxOps,
           NameIn(c) = "DUP", NEW st, st = c.stack
    PROVE  Outcome(F, i, c) =
             IF Len(st) < 1 THEN Refused
             ELSE Onward(c, Append(st, st[Len(st)]), c.nOpCount + 1)
<1> DEFINE t == st[Len(st)]
           low == SubSeq(st, 1, Len(st) - 1)
           two == <<t, t>>
<1>1. Len(st) \in Nat /\ List(st) /\ At(F, c)!Name = "DUP"
  BY UsualReads
<1>2. At(F, c)!OpRaises <=> Len(st) < 1
  BY <1>1, RaisesAt DEF UsualNames
<1>3. ASSUME Len(st) >= 1
      PROVE  Outcome(F, i, c) = Onward(c, Append(st, t), c.nOpCount + 1)
  <2>1. ItemIn(c, 1) = t /\ Below(c, 1) = low
    BY <1>1, UsualReads
  <2>2. /\ Shuffle["DUP"] = <<1, <<1, 1>>>> /\ "DUP" \in DOMAIN Shuffle
    BY DEF Shuffle
  <2>3. At({}, c)!Items = 1
    BY UsualReads, ItemsAt DEF UsualNames
  <2>4. [k \in DOMAIN <<1, 1>> |-> ItemIn(c, <<1, 1>>[k])] = two
    BY <2>1
  <2>5. [k \in DOMAIN Shuffle["DUP"][2] |-> ItemIn(c, Shuffle["DUP"][2][k])] = two
    BY <2>2, <2>4
  <2>6. StackAfter(c) = low \o two
    <3> HIDE DEF low, two
    <3>1. NameIn(c) \notin {"PUSH", "NUM"}
      OBVIOUS
    <3>2. QED
      BY <2>1, <2>2, <2>3, <2>5, <3>1 DEF StackAfter
  <2>7. Len(st) - 1 \in 0 .. Len(st)
    BY <1>1, <1>3
  <2>8. /\ List(low) /\ Len(low) = Len(st) - 1
        /\ \A j \in 1 .. Len(st) - 1 : low[j] = st[j]
    BY <1>1, <2>7, ListStart
  <2>9. List(two) /\ Len(two) = 2 /\ two[1] = t /\ two[2] = t
    <3>1. two \in Seq({t})
      OBVIOUS
    <3>2. QED
      BY <3>1 DEF List
  <2>10. List(Append(st, t))
    BY <1>1, ListAppend
  <2>15. low \o two = Append(st, t)
    <3> HIDE DEF low, two
    <3>1. QED
      BY <1>1, <1>3, <2>8, <2>9, Doubled
  <2>16. NameIn(c) \in {"DUP", "HASH160", "EQUAL", "EQUALVERIFY", "CHECKSIG"}
    OBVIOUS
  <2>17. ~At(F, c)!OpRaises
    BY <1>1, <1>2, <1>3
  <2> DEFINE left == Append(st, t)
  <2>18. StackAfter(c) = left /\ List(left)
    BY <2>6, <2>10, <2>15
  <2> HIDE DEF left
  <2>19. Outcome(F, i, c) = Onward(c, left, c.nOpCount + 1)
    BY <2>16, <2>17, <2>18, ReplacedAt
  <2>20. QED
    BY <2>19 DEF left
<1>4. ASSUME Len(st) < 1 PROVE Outcome(F, i, c) = Refused
  BY <1>2, <1>4, RefusedAt
<1>5. QED
  BY <1>1, <1>3, <1>4

LEMMA HashAt ==
    ASSUME NEW F, NEW i, NEW c, Usual(c), c.nOpCount + 1 <= MaxOps,
           NameIn(c) = "HASH160", NEW st, st = c.stack
    PROVE  Outcome(F, i, c) =
             IF Len(st) < 1 THEN Refused
             ELSE Onward(c, Append(SubSeq(st, 1, Len(st) - 1),
                                   <<"hash", "HASH160", st[Len(st)]>>),
                         c.nOpCount + 1)
<1> DEFINE left == Append(SubSeq(st, 1, Len(st) - 1),
                          <<"hash", "HASH160", st[Len(st)]>>)
<1>1. Len(st) \in Nat /\ List(st) /\ At(F, c)!Name = "HASH160"
  BY UsualReads
<1>2. At(F, c)!OpRaises <=> Len(st) < 1
  BY <1>1, RaisesAt DEF UsualNames
<1>3. ASSUME Len(st) >= 1 PROVE Outcome(F, i, c) = Onward(c, left, c.nOpCount + 1)
  <2>1. ItemIn(c, 1) = st[Len(st)] /\ Below(c, 1) = SubSeq(st, 1, Len(st) - 1)
    BY <1>1, UsualReads
  <2>2. StackAfter(c) = left
    BY <2>1, ShuffleDomain
       DEF StackAfter, ShuffleNames, Unary, Binary, Hashes, TwentyByteHashes
  <2>3. List(left)
    <3>1. 1 \in 0 .. Len(st)
      BY <1>1, <1>3
    <3>2. QED
      BY <1>1, <3>1, Popped
  <2> HIDE DEF left
  <2>4. NameIn(c) \in {"DUP", "HASH160", "EQUAL", "EQUALVERIFY", "CHECKSIG"}
    OBVIOUS
  <2>5. ~At(F, c)!OpRaises
    BY <1>1, <1>2, <1>3
  <2>6. QED
    BY <2>2, <2>3, <2>4, <2>5, ReplacedAt
<1>4. ASSUME Len(st) < 1 PROVE Outcome(F, i, c) = Refused
  BY <1>2, <1>4, RefusedAt
<1>5. QED
  BY <1>1, <1>3, <1>4

LEMMA EqualAt ==
    ASSUME NEW F, NEW i, NEW c, Usual(c), c.nOpCount + 1 <= MaxOps,
           NameIn(c) = "EQUAL", NEW st, st = c.stack
    PROVE  Outcome(F, i, c) =
             IF Len(st) < 2 THEN Refused
             ELSE Onward(c, Append(SubSeq(st, 1, Len(st) - 2),
                                   Bool(st[Len(st)] = st[Len(st) - 1])),
                         c.nOpCount + 1)
<1> DEFINE left == Append(SubSeq(st, 1, Len(st) - 2),
                          Bool(st[Len(st)] = st[Len(st) - 1]))
<1>1. Len(st) \in Nat /\ List(st) /\ At(F, c)!Name = "EQUAL"
  BY UsualReads
<1>2. At(F, c)!OpRaises <=> Len(st) < 2
  BY <1>1, RaisesAt DEF UsualNames
<1>3. ASSUME Len(st) >= 2 PROVE Outcome(F, i, c) = Onward(c, left, c.nOpCount + 1)
  <2>0. Len(st) + 1 - 1 = Len(st) /\ Len(st) + 1 - 2 = Len(st) - 1
    BY <1>1
  <2>1. /\ ItemIn(c, 1) = st[Len(st)] /\ ItemIn(c, 2) = st[Len(st) - 1]
        /\ Below(c, 2) = SubSeq(st, 1, Len(st) - 2)
    BY <2>0, UsualReads
  <2>2. StackAfter(c) = left
    BY <2>1, ShuffleDomain
       DEF StackAfter, ShuffleNames, Unary, Binary, Hashes, TwentyByteHashes
  <2>3. List(left)
    <3>1. 2 \in 0 .. Len(st)
      BY <1>1, <1>3
    <3>2. QED
      BY <1>1, <3>1, Popped
  <2> HIDE DEF left
  <2>4. NameIn(c) \in {"DUP", "HASH160", "EQUAL", "EQUALVERIFY", "CHECKSIG"}
    OBVIOUS
  <2>5. ~At(F, c)!OpRaises
    BY <1>1, <1>2, <1>3
  <2>6. QED
    BY <2>2, <2>3, <2>4, <2>5, ReplacedAt
<1>4. ASSUME Len(st) < 2 PROVE Outcome(F, i, c) = Refused
  BY <1>2, <1>4, RefusedAt
<1>5. QED
  BY <1>1, <1>3, <1>4

LEMMA EqualVerifyAt ==
    ASSUME NEW F, NEW i, NEW c, Usual(c), c.nOpCount + 1 <= MaxOps,
           NameIn(c) = "EQUALVERIFY", NEW st, st = c.stack
    PROVE  Outcome(F, i, c) =
             IF Len(st) < 2 \/ st[Len(st)] # st[Len(st) - 1] THEN Refused
             ELSE Onward(c, SubSeq(st, 1, Len(st) - 2), c.nOpCount + 1)
<1> DEFINE left == SubSeq(st, 1, Len(st) - 2)
           bad == Len(st) < 2 \/ st[Len(st)] # st[Len(st) - 1]
<1>1. Len(st) \in Nat /\ List(st) /\ At(F, c)!Name = "EQUALVERIFY"
  BY UsualReads
<1>2. At(F, c)!OpRaises <=> bad
  <2>0. Len(st) + 1 - 1 = Len(st) /\ Len(st) + 1 - 2 = Len(st) - 1
    BY <1>1
  <2>1. /\ At(F, c)!Top(1) = st[Len(st)] /\ At(F, c)!Top(2) = st[Len(st) - 1]
    BY <2>0, UsualReads
  <2>2. QED
    BY <1>1, <2>1, RaisesAt DEF UsualNames
<1>3. ASSUME ~bad PROVE Outcome(F, i, c) = Onward(c, left, c.nOpCount + 1)
  <2>1. Below(c, 2) = left
    BY UsualReads
  <2>2. At({}, c)!Items = 2
    BY UsualReads, ItemsAt DEF UsualNames
  <2>3. List(left)
    <3>1. 2 \in 0 .. Len(st)
      BY <1>1, <1>3
    <3>2. QED
      BY <1>1, <3>1, Popped
  <2> HIDE DEF left, bad
  <2>4. StackAfter(c) = left
    BY <2>1, <2>2, ShuffleDomain
       DEF StackAfter, ShuffleNames, Unary, Binary, Hashes, TwentyByteHashes
  <2>5. NameIn(c) \in {"DUP", "HASH160", "EQUAL", "EQUALVERIFY", "CHECKSIG"}
    OBVIOUS
  <2>6. ~At(F, c)!OpRaises
    BY <1>2, <1>3
  <2>7. QED
    BY <2>3, <2>4, <2>5, <2>6, ReplacedAt
<1>4. ASSUME bad PROVE Outcome(F, i, c) = Refused
  BY <1>2, <1>4, RefusedAt
<1>5. QED
  BY <1>3, <1>4

\* A frame of a usual script, spelled out.
LEMMA PlainUsual ==
    ASSUME NEW ph \in ScriptPhases, NEW sc, List(sc), Len(sc) <= MaxScript,
           NEW at \in 1 .. Len(sc), NEW st, List(st), NEW count \in Nat,
           NEW copy, NEW c, c = Plain(ph, sc, at, st, count, copy)
    PROVE  /\ Usual(c) /\ c.stack = st /\ c.nOpCount = count
           /\ c.script = sc /\ c.pc = at /\ c.phase = ph
           /\ NameIn(c) = sc[at][1]
           /\ \A s, n : Onward(c, s, n) = PlainNext(ph, sc, at, s, n, copy)
<1>1. /\ c.phase = ph /\ c.script = sc /\ c.pc = at /\ c.stack = st
      /\ c.nOpCount = count /\ c.stackCopy = copy
  BY DEF Plain, Frame
<1>2. Usual(c)
  BY <1>1 DEF Usual
<1>3. NameIn(c) = sc[at][1]
  BY <1>1, <1>2, UsualReads
<1>4. \A s, n : Onward(c, s, n) = PlainNext(ph, sc, at, s, n, copy)
  BY <1>1 DEF Onward, PlainNext
<1>5. QED
  BY <1>1, <1>2, <1>3, <1>4

\* A script starts from such a frame.
LEMMA EnteredPlain ==
    ASSUME NEW ph, NEW sc, NEW st, NEW copy
    PROVE  Entered(ph, sc, st, copy) = Plain(ph, sc, 1, st, 0, copy)
BY DEF Entered, Plain

\* A call goes on from a frame it reaches.
LEMMA ReachesOutcome ==
    ASSUME NEW F, NEW i, NEW c, Reaches(F, i, c), NEW d, Outcome(F, i, c) = d
    PROVE  Reaches(F, i, d)
BY ReachesNext

-----------------------------------------------------------------------------
(* Scripts that start with pushes.                                           *)

\* The stack after the first k operations, which push, of the script sc.
Pile(st, sc, k) ==
    [j \in 1 .. Len(st) + k |-> IF j <= Len(st) THEN st[j]
                                ELSE Value(sc[j - Len(st)])]

\* That stack, from the first push to the last.
LEMMA PileIs ==
    ASSUME NEW st, List(st), NEW sc, NEW k \in Nat
    PROVE  /\ List(Pile(st, sc, k)) /\ Len(Pile(st, sc, k)) = Len(st) + k
           /\ \A j \in 1 .. Len(st) : Pile(st, sc, k)[j] = st[j]
           /\ \A j \in 1 .. k : Pile(st, sc, k)[Len(st) + j] = Value(sc[j])
<1> DEFINE n == Len(st) + k
           p == Pile(st, sc, k)
<1>1. Len(st) \in Nat /\ n \in Nat
  BY ListIs
<1>2. DOMAIN p = 1 .. n /\ p = [j \in 1 .. n |-> p[j]]
  BY DEF Pile
<1>3. List(p) /\ Len(p) = n
  <2> HIDE DEF p, n
  <2>1. QED
    BY <1>1, <1>2, ListMade
<1>4. \A j \in 1 .. Len(st) : p[j] = st[j]
  BY <1>1 DEF Pile
<1>5. \A j \in 1 .. k : p[Len(st) + j] = Value(sc[j])
  <2> SUFFICES ASSUME NEW j \in 1 .. k PROVE p[Len(st) + j] = Value(sc[j])
    OBVIOUS
  <2>1. /\ Len(st) + j \in 1 .. Len(st) + k /\ ~(Len(st) + j <= Len(st))
        /\ (Len(st) + j) - Len(st) = j
    BY <1>1
  <2>2. QED
    BY <2>1 DEF Pile
<1>6. QED
  BY <1>3, <1>4, <1>5

LEMMA PileStart ==
    ASSUME NEW st, List(st), NEW sc
    PROVE  Pile(st, sc, 0) = st
<1> DEFINE p == Pile(st, sc, 0)
<1>1. /\ List(p) /\ Len(p) = Len(st) + 0 /\ Len(st) \in Nat
      /\ \A j \in 1 .. Len(st) : p[j] = st[j]
  BY PileIs, ListIs
<1> HIDE DEF p
<1>2. p = st
  BY <1>1, ListsEqual
<1>3. QED
  BY <1>2 DEF p

LEMMA PileNext ==
    ASSUME NEW st, List(st), NEW sc, NEW k \in Nat
    PROVE  Append(Pile(st, sc, k), Value(sc[k + 1])) = Pile(st, sc, k + 1)
<1> DEFINE p == Pile(st, sc, k)
           q == Pile(st, sc, k + 1)
           v == Value(sc[k + 1])
           a == Append(p, v)
           n == Len(st)
<1>0. n \in Nat /\ k + 1 \in Nat
  BY ListIs
<1>1. /\ List(p) /\ Len(p) = n + k
      /\ \A j \in 1 .. n : p[j] = st[j]
      /\ \A j \in 1 .. k : p[n + j] = Value(sc[j])
  BY PileIs
<1>2. /\ List(q) /\ Len(q) = n + (k + 1)
      /\ \A j \in 1 .. n : q[j] = st[j]
      /\ \A j \in 1 .. k + 1 : q[n + j] = Value(sc[j])
  BY <1>0, PileIs
<1> HIDE DEF p, q, v
<1>3. /\ List(a) /\ Len(a) = Len(p) + 1
      /\ \A j \in 1 .. Len(p) : a[j] = p[j]
      /\ a[Len(p) + 1] = v
  BY <1>1, ListAppend
<1> HIDE DEF a, n
<1>4. ASSUME NEW j \in 1 .. Len(a) PROVE a[j] = q[j]
  <2>1. CASE j <= n
    <3>1. j \in 1 .. n /\ j \in 1 .. Len(p)
      BY <1>0, <1>1, <1>3, <2>1
    <3>2. QED
      BY <1>1, <1>2, <1>3, <3>1
  <2>2. CASE n < j /\ j <= n + k
    <3>1. /\ j \in 1 .. Len(p) /\ j - n \in 1 .. k /\ j - n \in 1 .. k + 1
          /\ j = n + (j - n)
      BY <1>0, <1>1, <1>3, <2>2
    <3>2. QED
      BY <1>1, <1>2, <1>3, <3>1
  <2>3. CASE j = n + (k + 1)
    <3>1. k + 1 \in 1 .. k + 1 /\ j = Len(p) + 1
      BY <1>0, <1>1, <2>3
    <3>2. QED
      BY <1>2, <1>3, <2>3, <3>1 DEF v
  <2>4. j <= n \/ (n < j /\ j <= n + k) \/ j = n + (k + 1)
    BY <1>0, <1>1, <1>3
  <2>5. QED
    BY <2>1, <2>2, <2>3, <2>4
<1>5. Len(a) = Len(q)
  BY <1>0, <1>1, <1>2, <1>3
<1>6. a = q
  BY <1>2, <1>3, <1>4, <1>5, ListsEqual
<1>7. QED
  BY <1>6 DEF a, q, p, v

Room(sc, st, K) ==
    /\ Len(sc) <= MaxScript
    /\ \A j \in 1 .. K : sc[j][1] = "PUSH" => Size(sc[j][2]) <= MaxElement
    /\ Len(st) + K <= MaxStack

\* Pushes run one after the other, as long as there is room for them.
LEMMA PushRun ==
    ASSUME NEW F, NEW i, NEW ph \in ScriptPhases, NEW sc, List(sc),
           NEW st, List(st), NEW copy, NEW K \in 0 .. Len(sc),
           \A j \in 1 .. K : sc[j][1] \in {"PUSH", "NUM"},
           Reaches(F, i, Entered(ph, sc, st, copy))
    PROVE  \/ Reaches(F, i, Plain(ph, sc, K + 1, Pile(st, sc, K), 0, copy))
           \/ Reaches(F, i, Refused) /\ ~Room(sc, st, K)
<1> DEFINE C(k) == Plain(ph, sc, k + 1, Pile(st, sc, k), 0, copy)
           Stopped == Reaches(F, i, Refused) /\ ~Room(sc, st, K)
           T == {k \in Nat : k <= K => Reaches(F, i, C(k)) \/ Stopped}
<1>0. Len(sc) \in Nat /\ Len(st) \in Nat /\ K \in Nat /\ MaxStack \in Nat
      /\ 0 \in 0 .. MaxOps
  BY ListIs, LimitsAre
<1>1. 0 \in T
  <2>1. C(0) = Entered(ph, sc, st, copy)
    BY PileStart, EnteredPlain
  <2> HIDE DEF C
  <2>2. QED
    BY <2>1
<1>2. ASSUME NEW k \in Nat, k \in T PROVE k + 1 \in T
  <2> SUFFICES ASSUME k + 1 <= K, Reaches(F, i, C(k))
               PROVE  Reaches(F, i, C(k + 1)) \/ Stopped
    BY <1>0, <1>2
  <2> DEFINE p == Pile(st, sc, k)
             q == Pile(st, sc, k + 1)
             bad == \/ Len(sc) > MaxScript
                    \/ /\ sc[k + 1][1] = "PUSH"
                       /\ ~(Size(sc[k + 1][2]) <= MaxElement)
  <2>1. k + 1 \in 1 .. Len(sc) /\ k + 1 \in 1 .. K /\ k + 1 \in Nat
    BY <1>0
  <2>2. sc[k + 1][1] \in {"PUSH", "NUM"} /\ List(p)
    BY <2>1, PileIs
  <2>3. List(q) /\ Len(q) = Len(st) + (k + 1)
    BY <2>1, PileIs
  <2>4. Append(p, Value(sc[k + 1])) = q
    BY PileNext
  <2> HIDE DEF p, q
  <2>5. Outcome(F, i, Plain(ph, sc, k + 1, p, 0, copy)) =
        IF bad THEN Refused
        ELSE PlainNext(ph, sc, k + 1, Append(p, Value(sc[k + 1])), 0, copy)
    <3> DEFINE at == k + 1
    <3>1. at \in 1 .. Len(sc) /\ sc[at][1] \in {"PUSH", "NUM"}
      BY <2>1, <2>2
    <3> HIDE DEF at
    <3>2. Outcome(F, i, Plain(ph, sc, at, p, 0, copy)) =
             IF \/ Len(sc) > MaxScript
                \/ sc[at][1] = "PUSH" /\ ~(Size(sc[at][2]) <= MaxElement)
             THEN Refused
             ELSE PlainNext(ph, sc, at, Append(p, Value(sc[at])), 0, copy)
      BY <1>0, <2>2, <3>1, PushAt
    <3>3. QED
      BY <3>2 DEF at
  <2>6. Reaches(F, i, Outcome(F, i, Plain(ph, sc, k + 1, p, 0, copy)))
    BY ReachesNext DEF p
  <2>7. CASE bad
    <3>1. ~Room(sc, st, K)
      BY <1>0, <2>1, <2>7, LimitsAre DEF Room
    <3>2. QED
      BY <2>5, <2>6, <2>7, <3>1
  <2>8. CASE ~bad /\ Len(q) > MaxStack
    <3>1. ~(Len(st) + K <= MaxStack)
      BY <1>0, <2>3, <2>8
    <3>2. ~Room(sc, st, K)
      BY <3>1 DEF Room
    <3>3. QED
      BY <2>4, <2>5, <2>6, <2>8, <3>2 DEF PlainNext
  <2>9. CASE ~bad /\ ~(Len(q) > MaxStack)
    <3>1. Outcome(F, i, Plain(ph, sc, k + 1, p, 0, copy)) = C(k + 1)
      BY <2>4, <2>5, <2>9 DEF PlainNext, q
    <3>2. QED
      BY <2>6, <3>1
  <2>10. QED
    BY <2>7, <2>8, <2>9
<1>3. \A k \in Nat : k \in T
  <2> HIDE DEF T
  <2>1. QED
    BY <1>1, <1>2, Counting
<1>4. QED
  BY <1>0, <1>3

-----------------------------------------------------------------------------
(* Signature checks in a script that holds none of the signatures checked.   *)

VersionIn(ph) == IF ph = "witness" THEN "v0" ELSE "base"

\* A script that FindAndDelete leaves as it is.
Whole(code, sigs) ==
    \A n \in 1 .. Len(code) :
        /\ code[n] # <<"CODESEPARATOR">>
        /\ \A s \in sigs : code[n] # <<"PUSH", s>>

\* It does, an operation at a time.
LEMMA UnsignedWhole ==
    ASSUME NEW code, List(code), NEW sigs, Whole(code, sigs)
    PROVE  Unsigned(code, sigs) = code
<1> DEFINE L == Len(code)
           deleted == {<<"PUSH", s>> : s \in sigs} \cup {<<"CODESEPARATOR">>}
           G(f) == f = [n \in 0 .. L |->
                          IF n = 0 THEN <<>>
                          ELSE IF code[n] \in deleted THEN f[n - 1]
                          ELSE Append(f[n - 1], code[n])]
           kept == CHOOSE f : G(f)
           made == [n \in 0 .. L |-> SubSeq(code, 1, n)]
           T == {n \in Nat : n <= L => kept[n] = SubSeq(code, 1, n)}
<1>0. L \in Nat
  BY ListIs
<1>1. Unsigned(code, sigs) = kept[L]
  BY DEF Unsigned
<1>2. \A n \in 1 .. L : code[n] \notin deleted
  BY DEF Whole
<1> HIDE DEF deleted
<1>3. SubSeq(code, 1, 0) = <<>>
  <2>1. 0 \in 0 .. Len(code)
    BY <1>0
  <2>2. List(SubSeq(code, 1, 0)) /\ Len(SubSeq(code, 1, 0)) = 0
    BY <2>1, ListStart
  <2>3. QED
    BY <2>2, ListIs
<1>4. ASSUME NEW n \in 1 .. L
      PROVE  Append(SubSeq(code, 1, n - 1), code[n]) = SubSeq(code, 1, n)
  <2> DEFINE s == SubSeq(code, 1, n - 1)
             t == SubSeq(code, 1, n)
             a == Append(s, code[n])
  <2>1. /\ n - 1 \in 0 .. Len(code) /\ n \in 0 .. Len(code)
        /\ n \in Nat /\ n - 1 \in Nat
    BY <1>0
  <2>2. List(s) /\ Len(s) = n - 1 /\ \A j \in 1 .. n - 1 : s[j] = code[j]
    BY <2>1, ListStart
  <2>3. List(t) /\ Len(t) = n /\ \A j \in 1 .. n : t[j] = code[j]
    BY <2>1, ListStart
  <2> HIDE DEF s, t
  <2>4. /\ List(a) /\ Len(a) = Len(s) + 1
        /\ \A j \in 1 .. Len(s) : a[j] = s[j]
        /\ a[Len(s) + 1] = code[n]
    BY <2>2, ListAppend
  <2> HIDE DEF a
  <2>5. Len(a) = n /\ a[n] = code[n] /\ \A j \in 1 .. n - 1 : a[j] = s[j]
    BY <2>1, <2>2, <2>4
  <2>6. ASSUME NEW j \in 1 .. n PROVE a[j] = t[j]
    <3>1. j \in 1 .. n - 1 \/ j = n
      BY <2>1
    <3>2. QED
      BY <2>2, <2>3, <2>5, <3>1
  <2>7. a = t
    BY <2>3, <2>4, <2>5, <2>6, ListsEqual
  <2>8. QED
    BY <2>7 DEF a, s, t
<1>5. G(made)
  <2>1. ASSUME NEW n \in 0 .. L
        PROVE  made[n] = IF n = 0 THEN <<>>
                         ELSE IF code[n] \in deleted THEN made[n - 1]
                         ELSE Append(made[n - 1], code[n])
    <3>1. CASE n = 0
      BY <1>3, <3>1
    <3>2. CASE n # 0
      <4>1. n \in 1 .. L /\ n - 1 \in 0 .. L
        BY <1>0, <3>2
      <4>2. made[n] = SubSeq(code, 1, n) /\ made[n - 1] = SubSeq(code, 1, n - 1)
        BY <4>1
      <4>3. code[n] \notin deleted
        BY <1>2, <4>1
      <4> HIDE DEF made
      <4>4. QED
        BY <1>4, <3>2, <4>1, <4>2, <4>3
    <3>3. QED
      BY <3>1, <3>2
  <2>2. made = [n \in 0 .. L |-> made[n]]
    OBVIOUS
  <2> HIDE DEF made
  <2>3. QED
    BY <2>1, <2>2
<1>6. G(kept)
  <2> HIDE DEF made, G
  <2>1. QED
    BY <1>5
<1> HIDE DEF kept
<1>7. 0 \in T
  BY <1>0, <1>3, <1>6
<1>8. ASSUME NEW n \in Nat, n \in T PROVE n + 1 \in T
  <2> SUFFICES ASSUME n + 1 <= L PROVE kept[n + 1] = SubSeq(code, 1, n + 1)
    OBVIOUS
  <2>1. /\ n + 1 \in 1 .. L /\ n + 1 \in 0 .. L /\ n + 1 # 0 /\ (n + 1) - 1 = n
        /\ n <= L
    BY <1>0
  <2>2. kept[n] = SubSeq(code, 1, n)
    BY <1>8, <2>1
  <2>3. code[n + 1] \notin deleted
    BY <1>2, <2>1
  <2>4. kept[n + 1] = Append(kept[n], code[n + 1])
    BY <1>6, <2>1, <2>3
  <2>5. Append(SubSeq(code, 1, n), code[n + 1]) = SubSeq(code, 1, n + 1)
    <3> DEFINE k == n + 1
    <3>1. k \in 1 .. L /\ k - 1 = n
      BY <2>1
    <3> HIDE DEF k
    <3>2. Append(SubSeq(code, 1, k - 1), code[k]) = SubSeq(code, 1, k)
      BY <1>4, <3>1
    <3>3. QED
      BY <3>1, <3>2 DEF k
  <2>6. QED
    BY <2>2, <2>4, <2>5
<1>9. \A n \in Nat : n \in T
  <2> HIDE DEF T
  <2>1. QED
    BY <1>7, <1>8, Counting
<1>10. kept[L] = SubSeq(code, 1, L)
  BY <1>0, <1>9
<1>11. QED
  BY <1>1, <1>10, ListWhole

\* So such a script is what its signatures sign.
LEMMA SighashAt ==
    ASSUME NEW F, NEW c, NEW sc, List(sc), c.script = sc, c.pbegincodehash = 1,
           NEW sigs, c.phase = "witness" \/ Whole(sc, sigs)
    PROVE  At(F, c)!Sighash(sigs) = <<VersionIn(c.phase), sc>>
<1>1. SubSeq(sc, 1, Len(sc)) = sc
  BY ListWhole
<1>2. At(F, c)!Unsigned(sc, sigs) = Unsigned(sc, sigs)
  BY DEF At!Unsigned, Unsigned
<1>3. At(F, c)!sigversion = VersionIn(c.phase)
  BY DEF At!sigversion, VersionIn
<1>4. At(F, c)!Sighash(sigs) =
        <<VersionIn(c.phase), IF VersionIn(c.phase) = "v0" THEN sc
                              ELSE At(F, c)!Unsigned(sc, sigs)>>
  BY <1>1, <1>3 DEF At!Sighash
<1>5. CASE c.phase = "witness"
  BY <1>4, <1>5 DEF VersionIn
<1>6. CASE c.phase # "witness" /\ Whole(sc, sigs)
  BY <1>2, <1>4, <1>6, UnsignedWhole DEF VersionIn
<1>7. QED
  BY <1>5, <1>6

\* Where a check raises under the flags that VerifyScript uses by default.
LEMMA StandardRaises ==
    ASSUME NEW c, NEW sig, NEW key
    PROVE  At(StandardFlags, c)!CheckSigRaises(sig, key) <=>
             /\ sig # Zero
             /\ ~(/\ sig[1] = "sig" /\ sig[4] = "lowS"
                  /\ UsualKey(key, VersionIn(c.phase)))
<1>1. /\ StandardFlags \cap At(StandardFlags, c)!StrictEncodingFlags # {}
      /\ {"STRICTENC", "WITNESS_PUBKEYTYPE", "LOW_S"} \subseteq StandardFlags
  BY DEF StandardFlags, At!StrictEncodingFlags
<1>2. At(StandardFlags, c)!Zero = Zero
  BY SameElements
<1>3. At(StandardFlags, c)!sigversion = VersionIn(c.phase)
  BY DEF At!sigversion, VersionIn
<1>4. VersionIn(c.phase) \in {"v0", "base"}
  BY DEF VersionIn
<1>5. QED
  BY <1>1, <1>2, <1>3, <1>4 DEF At!CheckSigRaises, At!StrictDER, UsualKey

\* What a signature must be for a check not to answer no, nor to raise.
LEMMA StandardSigned ==
    ASSUME NEW c, NEW sig, IsTuple(sig), NEW key, NEW sp, NEW hash,
           sp.ver = VersionIn(c.phase), hash = <<sp.ver, sp.script>>
    PROVE  /\ SignedBy(sig, key, sp) => /\ CheckSig(sig, key, hash)
                                        /\ sig # Zero
                                        /\ ~At(StandardFlags, c)!CheckSigRaises(sig, key)
           /\ /\ CheckSig(sig, key, hash)
              /\ ~At(StandardFlags, c)!CheckSigRaises(sig, key)
              => SignedBy(sig, key, sp)
<1>1. ASSUME SignedBy(sig, key, sp)
      PROVE  /\ CheckSig(sig, key, hash) /\ sig # Zero
             /\ ~At(StandardFlags, c)!CheckSigRaises(sig, key)
  <2>1. UsualKey(key, sp.ver) /\ sig = <<"sig", key[2], hash, "lowS">>
    BY <1>1 DEF SignedBy
  <2>2. sig[1] = "sig" /\ sig[2] = key[2] /\ sig[3] = hash /\ sig[4] = "lowS"
    BY <2>1
  <2>3. key[1] = "key"
    BY <2>1 DEF UsualKey
  <2>4. sig # Zero
    BY <2>2 DEF Zero
  <2>5. QED
    BY <2>1, <2>2, <2>3, <2>4, StandardRaises DEF CheckSig
<1>2. ASSUME CheckSig(sig, key, hash),
             ~At(StandardFlags, c)!CheckSigRaises(sig, key)
      PROVE  SignedBy(sig, key, sp)
  <2>1. sig[1] = "sig" /\ sig[2] = key[2] /\ sig[3] = hash
    BY <1>2 DEF CheckSig
  <2>2. sig # Zero
    BY <2>1 DEF Zero
  <2>3. sig[4] = "lowS" /\ UsualKey(key, sp.ver)
    BY <1>2, <2>2, StandardRaises
  <2>4. sig = <<"sig", sig[2], sig[3], sig[4]>>
    BY <2>1 DEF IsTuple
  <2>5. QED
    BY <2>1, <2>3, <2>4 DEF SignedBy
<1>3. QED
  BY <1>1, <1>2

SigIn(c) == c.stack[Len(c.stack) - 1]
KeyIn(c) == c.stack[Len(c.stack)]
Under(c) == SubSeq(c.stack, 1, Len(c.stack) - 2)

\* OP_CHECKSIG answers whether the signature is the one asked for; it
\* raises where there is another, and says no where there is none.
LEMMA CheckSigAt ==
    ASSUME NEW i, NEW c, Usual(c), c.nOpCount + 1 <= MaxOps,
           NameIn(c) = "CHECKSIG", Len(c.stack) >= 2, IsTuple(SigIn(c)),
           SigIn(c)[1] = "sig" => \/ c.phase = "witness"
                                 \/ Whole(c.script, {SigIn(c)}),
           NEW sp, sp.script = c.script, sp.ver = VersionIn(c.phase)
    PROVE  Outcome(StandardFlags, i, c) =
             IF SignedBy(SigIn(c), KeyIn(c), sp)
             THEN Onward(c, Append(Under(c), Num(1)), c.nOpCount + 1)
             ELSE IF SigIn(c) = Zero
             THEN Onward(c, Append(Under(c), Zero), c.nOpCount + 1)
             ELSE Refused
<1> DEFINE st == c.stack
           sig == SigIn(c)
           key == KeyIn(c)
<1>0. /\ sig = st[Len(st) - 1] /\ key = st[Len(st)]
      /\ Under(c) = SubSeq(st, 1, Len(st) - 2)
  BY DEF SigIn, KeyIn, Under
<1>00. /\ IsTuple(sig)
       /\ sig[1] = "sig" => c.phase = "witness" \/ Whole(c.script, {sig})
  OBVIOUS
<1> HIDE DEF sig, key
<1> DEFINE F == StandardFlags
           hash == <<sp.ver, sp.script>>
           ok == CheckSig(sig, key, hash)
           low == Under(c)
<1>1. Len(st) \in Nat /\ List(st) /\ \A G : At(G, c)!Name = "CHECKSIG"
  BY UsualReads
<1>2. \A G : At(G, c)!Top(1) = key /\ At(G, c)!Top(2) = sig
  <2>1. Len(st) + 1 - 1 = Len(st) /\ Len(st) + 1 - 2 = Len(st) - 1
    BY <1>1
  <2>2. ASSUME NEW G PROVE \A k : At(G, c)!Top(k) = st[Len(st) + 1 - k]
    BY UsualReads
  <2> HIDE DEF st
  <2>3. ASSUME NEW G PROVE At(G, c)!Top(1) = key /\ At(G, c)!Top(2) = sig
    <3>1. At(G, c)!Top(1) = st[Len(st) + 1 - 1]
      BY <2>2
    <3>2. At(G, c)!Top(2) = st[Len(st) + 1 - 2]
      BY <2>2
    <3>3. QED
      BY <1>0, <2>1, <3>1, <3>2
  <2>4. QED
    BY <2>3
<1>3. \A G : At(G, c)!CheckSigOk = ok
  <2>1. c.pbegincodehash = 1 /\ List(c.script)
    BY DEF Usual, Plain, Frame
  <2>2. ASSUME NEW G, sig[1] = "sig" PROVE At(G, c)!Sighash({sig}) = hash
    BY <1>00, <2>1, <2>2, SighashAt
  <2>3. ASSUME NEW G PROVE At(G, c)!CheckSigOk = ok
    <3>1. At(G, c)!CheckSigOk = At(G, c)!CheckSig(sig, key, At(G, c)!Sighash({sig}))
      BY <1>2 DEF At!CheckSigOk
    <3>2. CASE sig[1] = "sig"
      <4>1. At(G, c)!Sighash({sig}) = hash
        BY <2>2, <3>2
      <4>2. QED
        BY <3>1, <4>1 DEF At!CheckSig, CheckSig
    <3>3. CASE sig[1] # "sig"
      BY <3>1, <3>3 DEF At!CheckSig, CheckSig
    <3>4. QED
      BY <3>2, <3>3
  <2>4. QED
    BY <2>3
<1>4. At(F, c)!OpRaises <=>
        \/ At(F, c)!CheckSigRaises(sig, key)
        \/ ~ok /\ sig # Zero
  <2>1. "NULLFAIL" \in F
    BY DEF StandardFlags
  <2>2. At(F, c)!Name = "CHECKSIG" /\ List(c.stack) /\ ~(Len(c.stack) < 2)
    BY <1>1
  <2>3. /\ At(F, c)!Top(1) = key /\ At(F, c)!Top(2) = sig
        /\ At(F, c)!CheckSigOk = ok
    BY <1>2, <1>3
  <2> HIDE DEF F, ok
  <2>4. QED
    BY <2>1, <2>2, <2>3, RaisesAt DEF UsualNames
<1>5. /\ SignedBy(sig, key, sp) => ok /\ sig # Zero
                                   /\ ~At(F, c)!CheckSigRaises(sig, key)
      /\ ok /\ ~At(F, c)!CheckSigRaises(sig, key) => SignedBy(sig, key, sp)
  BY <1>00, StandardSigned
<1>6. ~At(F, c)!CheckSigRaises(Zero, key)
  BY StandardRaises
<1>7. sig = Zero => ~ok
  BY DEF Zero, CheckSig
<1>8. StackAfter(c) = Append(low, Bool(ok))
  <2>1. Below(c, 2) = low
    BY <1>0, UsualReads
  <2>2. At({}, c)!CheckSigOk = ok
    BY <1>3
  <2> HIDE DEF ok, low
  <2>3. QED
    BY <2>1, <2>2, ShuffleDomain
       DEF StackAfter, ShuffleNames, Unary, Binary, Hashes, TwentyByteHashes
<1>9. NameIn(c) \in {"DUP", "HASH160", "EQUAL", "EQUALVERIFY", "CHECKSIG"}
  OBVIOUS
<1>10. Bool(TRUE) = Num(1) /\ Bool(FALSE) = Zero
  BY DEF Bool, Num, Zero
<1>11. \A e : List(Append(low, e))
  <2>1. 2 \in 0 .. Len(st)
    BY <1>1
  <2>2. QED
    BY <1>0, <1>1, <2>1, Popped
<1> HIDE DEF F, ok, low
<1>12. CASE SignedBy(sig, key, sp)
  <2>1. ok = TRUE /\ ~At(F, c)!OpRaises
    BY <1>4, <1>5, <1>12 DEF ok, CheckSig
  <2> DEFINE left == Append(low, Num(1))
  <2>2. StackAfter(c) = left /\ List(left)
    BY <1>8, <1>10, <1>11, <2>1
  <2> HIDE DEF left
  <2>3. Outcome(F, i, c) = Onward(c, left, c.nOpCount + 1)
    BY <1>9, <2>1, <2>2, ReplacedAt
  <2>4. QED
    BY <1>12, <2>3 DEF F, low, left, sig, key
<1>13. CASE ~SignedBy(sig, key, sp) /\ sig = Zero
  <2>1. ok = FALSE /\ ~At(F, c)!OpRaises
    BY <1>4, <1>6, <1>7, <1>13 DEF ok, CheckSig
  <2> DEFINE left == Append(low, Zero)
  <2>2. StackAfter(c) = left /\ List(left)
    BY <1>8, <1>10, <1>11, <2>1
  <2> HIDE DEF left
  <2>3. Outcome(F, i, c) = Onward(c, left, c.nOpCount + 1)
    BY <1>9, <2>1, <2>2, ReplacedAt
  <2>4. QED
    BY <1>13, <2>3 DEF F, low, left, sig, key
<1>14. CASE ~SignedBy(sig, key, sp) /\ sig # Zero
  <2>1. At(F, c)!OpRaises
    BY <1>4, <1>5, <1>14
  <2>2. QED
    BY <1>9, <1>14, <2>1, RefusedAt DEF F, sig, key
<1>15. QED
  BY <1>12, <1>13, <1>14 DEF F, low, sig, key

-----------------------------------------------------------------------------
(* How the evaluation of a usual script ends: with one true item, or with    *)
(* anything else.                                                            *)

Gets(i, c) == Reaches(StandardFlags, i, c)
Good(i, ph, sc, copy) ==
    \E n : Gets(i, Plain(ph, sc, Len(sc) + 1, <<Num(1)>>, n, copy))
Bad(i, ph, sc, copy) ==
    \/ Gets(i, Refused)
    \/ \E n, st : /\ List(st) /\ ~(Len(st) = 1 /\ CastToBool(st[1]))
                  /\ Gets(i, Plain(ph, sc, Len(sc) + 1, st, n, copy))

\* The stack of one true item.
LEMMA OneTrue ==
    /\ List(<<Num(1)>>) /\ Len(<<Num(1)>>) = 1 /\ <<Num(1)>>[1] = Num(1)
    /\ CastToBool(Num(1)) /\ ~CastToBool(Zero) /\ Num(1) # Zero
<1>1. <<Num(1)>> \in Seq({Num(1)}) /\ Len(<<Num(1)>>) = 1 /\ <<Num(1)>>[1] = Num(1)
  OBVIOUS
<1>2. CastToBool(Num(1)) /\ ~CastToBool(Zero) /\ Num(1) # Zero
  BY DEF CastToBool, Num, Zero
<1>3. QED
  BY <1>1, <1>2 DEF List

\* An item appended to nothing.
LEMMA AppendedOne ==
    ASSUME NEW st, List(st), Len(st) = 0
    PROVE  Append(st, Num(1)) = <<Num(1)>>
<1> DEFINE a == Append(st, Num(1))
           b == <<Num(1)>>
<1>1. /\ List(a) /\ Len(a) = Len(st) + 1 /\ a[Len(st) + 1] = Num(1)
  BY ListAppend
<1>2. List(b) /\ Len(b) = 1 /\ b[1] = Num(1)
  BY OneTrue
<1> HIDE DEF a, b
<1>3. a = b
  BY <1>1, <1>2, ListsEqual
<1>4. QED
  BY <1>3 DEF a, b

\* The end of a script that checks a signature last.
LEMMA LastCheck ==
    ASSUME NEW i, NEW ph \in ScriptPhases, NEW sc, List(sc),
           Len(sc) <= MaxScript, Len(sc) >= 1, sc[Len(sc)] = <<"CHECKSIG">>,
           NEW st, List(st), NEW count \in Nat, count + 1 <= MaxOps, NEW copy,
           NEW sp, sp.script = sc, sp.ver = VersionIn(ph),
           NEW sig, sig = st[Len(st) - 1], NEW key, key = st[Len(st)],
           Len(st) >= 2 =>
              /\ IsTuple(sig)
              /\ sig[1] = "sig" => ph = "witness" \/ Whole(sc, {sig}),
           Gets(i, Plain(ph, sc, Len(sc), st, count, copy))
    PROVE  /\ Len(st) = 2 /\ SignedBy(sig, key, sp) => Good(i, ph, sc, copy)
           /\ ~(Len(st) = 2 /\ SignedBy(sig, key, sp)) => Bad(i, ph, sc, copy)
<1> DEFINE c == Plain(ph, sc, Len(sc), st, count, copy)
           low == SubSeq(st, 1, Len(st) - 2)
           F == StandardFlags
<1>0. Len(st) \in Nat /\ Len(sc) \in Nat /\ Len(sc) \in 1 .. Len(sc)
  BY ListIs
<1>1. /\ Usual(c) /\ c.stack = st /\ c.nOpCount = count
      /\ c.script = sc /\ c.phase = ph
      /\ NameIn(c) = "CHECKSIG"
      /\ \A s, n : Onward(c, s, n) = PlainNext(ph, sc, Len(sc), s, n, copy)
  <2> DEFINE at == Len(sc)
  <2>1. at \in 1 .. Len(sc) /\ sc[at][1] = "CHECKSIG"
    BY <1>0
  <2>2. c = Plain(ph, sc, at, st, count, copy)
    OBVIOUS
  <2> HIDE DEF at, c
  <2>3. QED
    BY <2>1, <2>2, PlainUsual DEF at
<1>2. Gets(i, Outcome(F, i, c))
  BY ReachesNext DEF Gets
<1> HIDE DEF c, F
<1>3. CASE Len(st) < 2
  <2>1. List(c.stack) /\ At(F, c)!Name = "CHECKSIG"
    BY <1>1, UsualReads
  <2>2. At(F, c)!OpRaises
    BY <1>1, <1>3, <2>1, RaisesAt DEF UsualNames
  <2>3. Outcome(F, i, c) = Refused
    BY <1>1, <2>2, RefusedAt
  <2>4. Len(st) # 2
    BY ONLY <1>0, <1>3
  <2>5. Bad(i, ph, sc, copy)
    BY <1>2, <2>3 DEF Bad
  <2>6. QED
    BY <2>4, <2>5
<1>4. CASE Len(st) >= 2
  <2>0. /\ Usual(c) /\ c.nOpCount + 1 <= MaxOps /\ NameIn(c) = "CHECKSIG"
        /\ st = c.stack /\ IsTuple(sig)
        /\ sig[1] = "sig" => c.phase = "witness" \/ Whole(c.script, {sig})
        /\ sp.script = c.script /\ sp.ver = VersionIn(c.phase)
    BY <1>1, <1>4
  <2>1. Outcome(F, i, c) =
             IF SignedBy(sig, key, sp)
             THEN Onward(c, Append(low, Num(1)), count + 1)
             ELSE IF sig = Zero THEN Onward(c, Append(low, Zero), count + 1)
             ELSE Refused
    <3>1. /\ SigIn(c) = sig /\ KeyIn(c) = key /\ Under(c) = low
          /\ Len(c.stack) >= 2
      BY <1>1, <1>4 DEF SigIn, KeyIn, Under
    <3> HIDE DEF low
    <3>2. /\ IsTuple(SigIn(c))
          /\ SigIn(c)[1] = "sig" => \/ c.phase = "witness"
                                   \/ Whole(c.script, {SigIn(c)})
      BY <2>0, <3>1
    <3>3. Outcome(StandardFlags, i, c) =
             IF SignedBy(SigIn(c), KeyIn(c), sp)
             THEN Onward(c, Append(Under(c), Num(1)), c.nOpCount + 1)
             ELSE IF SigIn(c) = Zero
             THEN Onward(c, Append(Under(c), Zero), c.nOpCount + 1)
             ELSE Refused
      BY ONLY <2>0, <3>1, <3>2, CheckSigAt
    <3>4. QED
      BY <1>1, <3>1, <3>3 DEF F
  <2>2. 2 \in 0 .. Len(st)
    BY <1>0, <1>4
  <2>3. List(low) /\ Len(low) = Len(st) - 2
    BY <2>2, Popped
  <2> HIDE DEF low
  <2>4. \A e : /\ List(Append(low, e)) /\ Len(Append(low, e)) = Len(st) - 1
               /\ Append(low, e)[Len(st) - 1] = e
    <3> TAKE e
    <3>1. /\ List(Append(low, e)) /\ Len(Append(low, e)) = Len(low) + 1
          /\ Append(low, e)[Len(low) + 1] = e
      BY <2>3, ListAppend
    <3>2. Len(low) + 1 = Len(st) - 1
      BY <1>0, <2>3
    <3>3. QED
      BY <3>1, <3>2
  <2>5. ASSUME NEW e, ~(Len(st) = 2 /\ CastToBool(e)),
               Outcome(F, i, c) = Onward(c, Append(low, e), count + 1)
        PROVE  Bad(i, ph, sc, copy)
    <3> DEFINE a == Append(low, e)
    <3>1. /\ List(a) /\ Len(a) = Len(st) - 1
          /\ a[Len(st) - 1] = e
      BY <2>4
    <3> HIDE DEF a
    <3>2. ~(Len(a) = 1 /\ CastToBool(a[1]))
      BY <1>0, <2>5, <3>1
    <3>3. Outcome(F, i, c) = PlainNext(ph, sc, Len(sc), a, count + 1, copy)
      BY <1>1, <2>5 DEF a
    <3>4. CASE Len(a) > MaxStack
      BY <1>2, <3>3, <3>4 DEF PlainNext, Bad
    <3>5. CASE ~(Len(a) > MaxStack)
      BY <1>2, <3>1, <3>2, <3>3, <3>5 DEF PlainNext, Bad
    <3>6. QED
      BY <3>4, <3>5
  <2>6. CASE SignedBy(sig, key, sp) /\ Len(st) = 2
    <3>1. Append(low, Num(1)) = <<Num(1)>>
      BY <2>3, <2>6, AppendedOne
    <3>2. Outcome(F, i, c) = PlainNext(ph, sc, Len(sc), <<Num(1)>>, count + 1, copy)
      BY <1>1, <2>1, <2>6, <3>1
    <3>3. ~(Len(<<Num(1)>>) > MaxStack)
      BY LimitsHoldUsualScripts, LimitsAre, OneTrue
    <3>4. Good(i, ph, sc, copy)
      BY <1>2, <3>2, <3>3 DEF PlainNext, Good
    <3>5. QED
      BY <2>6, <3>4
  <2>7. CASE SignedBy(sig, key, sp) /\ Len(st) # 2
    BY <2>1, <2>5, <2>7
  <2>8. CASE ~SignedBy(sig, key, sp) /\ sig = Zero
    BY <2>1, <2>5, <2>8, OneTrue
  <2>9. CASE ~SignedBy(sig, key, sp) /\ sig # Zero
    BY <1>2, <2>1, <2>9 DEF Bad
  <2>10. QED
    BY <2>6, <2>7, <2>8, <2>9
<1>5. QED
  BY <1>0, <1>3, <1>4

\* One item above another makes two.
LEMMA OneMore == \A n \in Nat : \A m : m = n + 1 => (m = 2 <=> n = 1)
OBVIOUS

\* A script with a key.
LEMMA KeyEnds ==
    ASSUME NEW i, NEW ph \in ScriptPhases, NEW sc, List(sc), NEW st, List(st),
           NEW copy, NEW sp, sp.script = sc, sp.with = st,
           sp.ver = VersionIn(ph), IsKeyScript(sp),
           \A j \in 1 .. Len(st) : IsTuple(st[j]),
           Gets(i, Entered(ph, sc, st, copy))
    PROVE  /\ Len(st) = 1 /\ SignedBy(st[1], sc[1][2], sp) => Good(i, ph, sc, copy)
           /\ ~(Len(st) = 1 /\ SignedBy(st[1], sc[1][2], sp)) => Bad(i, ph, sc, copy)
<1> DEFINE ok == Len(st) = 1 /\ SignedBy(st[1], sc[1][2], sp)
           p == Pile(st, sc, 1)
<1>0. Len(st) \in Nat /\ 1 \in Nat
  BY ListIs
<1>1. /\ Len(sc) = 2 /\ sc[1][1] = "PUSH" /\ UsualKey(sc[1][2], sp.ver)
      /\ sc[2] = <<"CHECKSIG">>
  BY DEF IsKeyScript
<1>2. /\ MaxScript >= 2 /\ MaxOps >= 1 /\ MaxElement >= 65 /\ MaxStack >= 5
      /\ {MaxScript, MaxOps, MaxElement, MaxStack} \subseteq Nat
  BY LimitsHoldUsualScripts, LimitsAre
<1>3. Size(sc[1][2]) <= 65 /\ Size(sc[1][2]) \in Nat
  BY <1>1 DEF UsualKey, Size
<1>4. \/ Gets(i, Plain(ph, sc, 2, p, 0, copy))
      \/ Gets(i, Refused) /\ ~Room(sc, st, 1)
  <2>1. /\ 1 \in 0 .. Len(sc)
        /\ \A j \in 1 .. 1 : sc[j][1] \in {"PUSH", "NUM"}
    BY <1>1
  <2>2. 1 + 1 = 2
    OBVIOUS
  <2>3. QED
    BY <2>1, <2>2, PushRun DEF Gets
<1>5. CASE Gets(i, Refused) /\ ~Room(sc, st, 1)
  <2>1. ~(Len(st) + 1 <= MaxStack)
    BY <1>1, <1>2, <1>3, <1>5 DEF Room
  <2>2. ~ok
    BY <1>0, <1>2, <2>1
  <2>3. QED
    BY <1>5, <2>2 DEF Bad
<1>6. CASE Gets(i, Plain(ph, sc, 2, p, 0, copy))
  <2>1. /\ List(p) /\ Len(p) = Len(st) + 1
        /\ \A j \in 1 .. Len(st) : p[j] = st[j]
        /\ \A j \in 1 .. 1 : p[Len(st) + j] = Value(sc[j])
    BY <1>0, PileIs
  <2> HIDE DEF p
  <2>2. p[Len(st) + 1] = sc[1][2]
    BY <1>1, <2>1 DEF Value
  <2> DEFINE sig == p[Len(p) - 1]
             key == p[Len(p)]
  <2>3. key = sc[1][2]
    BY <2>1, <2>2
  <2>4. Len(p) >= 2 => Len(st) \in 1 .. Len(st) /\ sig = st[Len(st)]
    BY <1>0, <2>1
  <2>5. ASSUME NEW e, e[1] = "sig" PROVE Whole(sc, {e})
    <3>1. sc[1][2] # e /\ sc[1][2][1] = "key"
      BY <1>1, <2>5 DEF UsualKey
    <3>2. \A n \in 1 .. Len(sc) : n = 1 \/ n = 2
      BY <1>1
    <3>3. sc[1] # <<"CODESEPARATOR">> /\ sc[1] # <<"PUSH", e>>
      BY <1>1, <3>1
    <3>4. sc[2] # <<"CODESEPARATOR">> /\ sc[2] # <<"PUSH", e>>
      BY <1>1
    <3>5. QED
      BY <3>2, <3>3, <3>4 DEF Whole
  <2>6. Len(p) = 2 /\ SignedBy(sig, key, sp) <=> ok
    <3>0. Len(p) = Len(st) + 1
      BY <2>1
    <3>1. Len(p) = 2 <=> Len(st) = 1
      BY <1>0, <3>0, OneMore
    <3>2. Len(st) = 1 => Len(p) >= 2
      BY <1>0, <3>0
    <3> HIDE DEF sig, key
    <3>3. QED
      BY <2>3, <2>4, <3>1, <3>2
  <2>7. Len(p) >= 2 =>
           IsTuple(sig) /\ (sig[1] = "sig" => ph = "witness" \/ Whole(sc, {sig}))
    BY <2>4, <2>5
  <2>8. sig = p[Len(p) - 1] /\ key = p[Len(p)]
    OBVIOUS
  <2> HIDE DEF sig, key
  <2>9. Gets(i, Plain(ph, sc, Len(sc), p, 0, copy))
    BY <1>1, <1>6
  <2>10. Len(sc) <= MaxScript /\ Len(sc) >= 1 /\ sc[Len(sc)] = <<"CHECKSIG">>
    BY <1>1, <1>2
  <2>11. QED
    <3>1. 0 \in Nat /\ 0 + 1 <= MaxOps
      BY <1>2
    <3>2. ok <=> Len(p) = 2 /\ SignedBy(sig, key, sp)
      BY <2>6
    <3>3. List(p)
      BY <2>1
    <3> HIDE DEF sig, key
    <3>4. QED
      BY <2>7, <2>8, <2>9, <2>10, <3>1, <3>2, <3>3, LastCheck
<1>7. QED
  BY <1>4, <1>5, <1>6

\* The operations of the usual scripts, each from where it is reached.
LEMMA DupGoes ==
    ASSUME NEW i, NEW ph \in ScriptPhases, NEW sc, List(sc),
           Len(sc) <= MaxScript, NEW at \in 1 .. Len(sc), NEW st, List(st),
           NEW count \in Nat, count + 1 <= MaxOps, NEW copy,
           Gets(i, Plain(ph, sc, at, st, count, copy)), sc[at][1] = "DUP"
    PROVE  \/ Gets(i, Plain(ph, sc, at + 1, Append(st, st[Len(st)]), count + 1,
                            copy))
           \/ Gets(i, Refused) /\ (Len(st) < 1 \/ Len(st) + 1 > MaxStack)
<1> DEFINE c == Plain(ph, sc, at, st, count, copy)
           left == Append(st, st[Len(st)])
<1>0. Len(st) \in Nat
  BY ListIs
<1>1. /\ Usual(c) /\ c.stack = st /\ c.nOpCount = count /\ NameIn(c) = sc[at][1]
      /\ \A s, n : Onward(c, s, n) = PlainNext(ph, sc, at, s, n, copy)
  <2>1. c = Plain(ph, sc, at, st, count, copy)
    OBVIOUS
  <2> HIDE DEF c
  <2>2. QED
    BY <2>1, PlainUsual
<1>2. Gets(i, Outcome(StandardFlags, i, c))
  BY ReachesNext DEF Gets
<1> HIDE DEF c
<1>3. Outcome(StandardFlags, i, c) =
        IF Len(st) < 1 THEN Refused ELSE Onward(c, left, count + 1)
  BY <1>1, DupAt
<1>4. CASE Len(st) < 1
  BY <1>2, <1>3, <1>4
<1>5. CASE ~(Len(st) < 1)
  <2>2. Len(left) = Len(st) + 1
    BY ListAppend
  <2> HIDE DEF left
  <2>3. Gets(i, PlainNext(ph, sc, at, left, count + 1, copy))
    BY <1>1, <1>2, <1>3, <1>5
  <2>4. CASE Len(left) > MaxStack
    BY <2>2, <2>3, <2>4 DEF PlainNext
  <2>5. CASE ~(Len(left) > MaxStack)
    BY <2>3, <2>5 DEF PlainNext, left
  <2>6. QED
    BY <2>4, <2>5
<1>6. QED
  BY <1>4, <1>5

LEMMA HashGoes ==
    ASSUME NEW i, NEW ph \in ScriptPhases, NEW sc, List(sc),
           Len(sc) <= MaxScript, NEW at \in 1 .. Len(sc), NEW st, List(st),
           NEW count \in Nat, count + 1 <= MaxOps, NEW copy,
           Gets(i, Plain(ph, sc, at, st, count, copy)), sc[at][1] = "HASH160"
    PROVE  \/ Gets(i, Plain(ph, sc, at + 1,
                            Append(SubSeq(st, 1, Len(st) - 1),
                                   <<"hash", "HASH160", st[Len(st)]>>),
                            count + 1, copy))
           \/ Gets(i, Refused) /\ (Len(st) < 1 \/ Len(st) > MaxStack)
<1> DEFINE c == Plain(ph, sc, at, st, count, copy)
           left == Append(SubSeq(st, 1, Len(st) - 1),
                          <<"hash", "HASH160", st[Len(st)]>>)
<1>0. Len(st) \in Nat
  BY ListIs
<1>1. /\ Usual(c) /\ c.stack = st /\ c.nOpCount = count /\ NameIn(c) = sc[at][1]
      /\ \A s, n : Onward(c, s, n) = PlainNext(ph, sc, at, s, n, copy)
  <2>1. c = Plain(ph, sc, at, st, count, copy)
    OBVIOUS
  <2> HIDE DEF c
  <2>2. QED
    BY <2>1, PlainUsual
<1>2. Gets(i, Outcome(StandardFlags, i, c))
  BY ReachesNext DEF Gets
<1> HIDE DEF c
<1>3. Outcome(StandardFlags, i, c) =
        IF Len(st) < 1 THEN Refused ELSE Onward(c, left, count + 1)
  BY <1>1, HashAt
<1>4. CASE Len(st) < 1
  BY <1>2, <1>3, <1>4
<1>5. CASE ~(Len(st) < 1)
  <2>0. 1 \in 0 .. Len(st)
    BY <1>0, <1>5
  <2>1. /\ List(SubSeq(st, 1, Len(st) - 1))
        /\ Len(SubSeq(st, 1, Len(st) - 1)) = Len(st) - 1
    BY <2>0, Popped
  <2>2. Len(left) = Len(st)
    BY <1>0, <2>1, ListAppend
  <2> HIDE DEF left
  <2>3. Gets(i, PlainNext(ph, sc, at, left, count + 1, copy))
    BY <1>1, <1>2, <1>3, <1>5
  <2>4. CASE Len(left) > MaxStack
    BY <2>2, <2>3, <2>4 DEF PlainNext
  <2>5. CASE ~(Len(left) > MaxStack)
    BY <2>3, <2>5 DEF PlainNext, left
  <2>6. QED
    BY <2>4, <2>5
<1>6. QED
  BY <1>4, <1>5

LEMMA EqualGoes ==
    ASSUME NEW i, NEW ph \in ScriptPhases, NEW sc, List(sc),
           Len(sc) <= MaxScript, NEW at \in 1 .. Len(sc), NEW st, List(st),
           NEW count \in Nat, count + 1 <= MaxOps, NEW copy,
           Gets(i, Plain(ph, sc, at, st, count, copy)), sc[at][1] = "EQUAL"
    PROVE  \/ Gets(i, Plain(ph, sc, at + 1,
                            Append(SubSeq(st, 1, Len(st) - 2),
                                   Bool(st[Len(st)] = st[Len(st) - 1])),
                            count + 1, copy))
           \/ Gets(i, Refused) /\ (Len(st) < 2 \/ Len(st) - 1 > MaxStack)
<1> DEFINE c == Plain(ph, sc, at, st, count, copy)
           left == Append(SubSeq(st, 1, Len(st) - 2),
                          Bool(st[Len(st)] = st[Len(st) - 1]))
<1>0. Len(st) \in Nat
  BY ListIs
<1>1. /\ Usual(c) /\ c.stack = st /\ c.nOpCount = count /\ NameIn(c) = sc[at][1]
      /\ \A s, n : Onward(c, s, n) = PlainNext(ph, sc, at, s, n, copy)
  <2>1. c = Plain(ph, sc, at, st, count, copy)
    OBVIOUS
  <2> HIDE DEF c
  <2>2. QED
    BY <2>1, PlainUsual
<1>2. Gets(i, Outcome(StandardFlags, i, c))
  BY ReachesNext DEF Gets
<1> HIDE DEF c
<1>3. Outcome(StandardFlags, i, c) =
        IF Len(st) < 2 THEN Refused ELSE Onward(c, left, count + 1)
  BY <1>1, EqualAt
<1>4. CASE Len(st) < 2
  BY <1>2, <1>3, <1>4
<1>5. CASE ~(Len(st) < 2)
  <2>0. 2 \in 0 .. Len(st)
    BY <1>0, <1>5
  <2>1. /\ List(SubSeq(st, 1, Len(st) - 2))
        /\ Len(SubSeq(st, 1, Len(st) - 2)) = Len(st) - 2
    BY <2>0, Popped
  <2>2. Len(left) = Len(st) - 1
    BY <1>0, <2>1, ListAppend
  <2> HIDE DEF left
  <2>3. Gets(i, PlainNext(ph, sc, at, left, count + 1, copy))
    BY <1>1, <1>2, <1>3, <1>5
  <2>4. CASE Len(left) > MaxStack
    BY <2>2, <2>3, <2>4 DEF PlainNext
  <2>5. CASE ~(Len(left) > MaxStack)
    BY <2>3, <2>5 DEF PlainNext, left
  <2>6. QED
    BY <2>4, <2>5
<1>6. QED
  BY <1>4, <1>5

LEMMA EqualVerifyGoes ==
    ASSUME NEW i, NEW ph \in ScriptPhases, NEW sc, List(sc),
           Len(sc) <= MaxScript, NEW at \in 1 .. Len(sc), NEW st, List(st),
           NEW count \in Nat, count + 1 <= MaxOps, NEW copy,
           Gets(i, Plain(ph, sc, at, st, count, copy)), sc[at][1] = "EQUALVERIFY"
    PROVE  \/ Gets(i, Plain(ph, sc, at + 1, SubSeq(st, 1, Len(st) - 2), count + 1,
                            copy))
           \/ /\ Gets(i, Refused)
              /\ \/ Len(st) < 2 \/ st[Len(st)] # st[Len(st) - 1]
                 \/ Len(st) - 2 > MaxStack
<1> DEFINE c == Plain(ph, sc, at, st, count, copy)
           left == SubSeq(st, 1, Len(st) - 2)
<1>0. Len(st) \in Nat
  BY ListIs
<1>1. /\ Usual(c) /\ c.stack = st /\ c.nOpCount = count /\ NameIn(c) = sc[at][1]
      /\ \A s, n : Onward(c, s, n) = PlainNext(ph, sc, at, s, n, copy)
  <2>1. c = Plain(ph, sc, at, st, count, copy)
    OBVIOUS
  <2> HIDE DEF c
  <2>2. QED
    BY <2>1, PlainUsual
<1>2. Gets(i, Outcome(StandardFlags, i, c))
  BY ReachesNext DEF Gets
<1> HIDE DEF c
<1>3. Outcome(StandardFlags, i, c) =
        IF Len(st) < 2 \/ st[Len(st)] # st[Len(st) - 1] THEN Refused
        ELSE Onward(c, left, count + 1)
  BY <1>1, EqualVerifyAt
<1>4. CASE Len(st) < 2 \/ st[Len(st)] # st[Len(st) - 1]
  BY <1>2, <1>3, <1>4
<1>5. CASE ~(Len(st) < 2 \/ st[Len(st)] # st[Len(st) - 1])
  <2>0. 2 \in 0 .. Len(st)
    BY <1>0, <1>5
  <2>1. /\ List(SubSeq(st, 1, Len(st) - 2))
        /\ Len(SubSeq(st, 1, Len(st) - 2)) = Len(st) - 2
    BY <2>0, Popped
  <2>2. Len(left) = Len(st) - 2
    BY <1>0, <2>1
  <2> HIDE DEF left
  <2>3. Gets(i, PlainNext(ph, sc, at, left, count + 1, copy))
    BY <1>1, <1>2, <1>3, <1>5
  <2>4. CASE Len(left) > MaxStack
    BY <2>2, <2>3, <2>4 DEF PlainNext
  <2>5. CASE ~(Len(left) > MaxStack)
    BY <2>3, <2>5 DEF PlainNext, left
  <2>6. QED
    BY <2>4, <2>5
<1>6. QED
  BY <1>4, <1>5

LEMMA PushGoes ==
    ASSUME NEW i, NEW ph \in ScriptPhases, NEW sc, List(sc),
           Len(sc) <= MaxScript, NEW at \in 1 .. Len(sc), NEW st, List(st),
           NEW count \in 0 .. MaxOps, NEW copy,
           Gets(i, Plain(ph, sc, at, st, count, copy)), sc[at][1] = "PUSH"
    PROVE  \/ Gets(i, Plain(ph, sc, at + 1, Append(st, sc[at][2]), count, copy))
           \/ /\ Gets(i, Refused)
              /\ ~(Size(sc[at][2]) <= MaxElement) \/ Len(st) + 1 > MaxStack
<1> DEFINE c == Plain(ph, sc, at, st, count, copy)
           left == Append(st, sc[at][2])
<1>1. Gets(i, Outcome(StandardFlags, i, c))
  BY ReachesNext DEF Gets
<1>2. Value(sc[at]) = sc[at][2] /\ sc[at][1] \in {"PUSH", "NUM"}
  BY DEF Value
<1>3. Outcome(StandardFlags, i, c) =
        IF ~(Size(sc[at][2]) <= MaxElement) THEN Refused
        ELSE PlainNext(ph, sc, at, Append(st, Value(sc[at])), count, copy)
  BY <1>2, PushAt, ListIs, LimitsAre
<1> HIDE DEF c
<1>4. Len(left) = Len(st) + 1
  BY ListAppend
<1>5. CASE ~(Size(sc[at][2]) <= MaxElement)
  BY <1>1, <1>3, <1>5
<1>6. CASE Size(sc[at][2]) <= MaxElement
  <2>1. Gets(i, PlainNext(ph, sc, at, left, count, copy))
    BY <1>1, <1>2, <1>3, <1>6
  <2> HIDE DEF left
  <2>2. CASE Len(left) > MaxStack
    BY <1>4, <2>1, <2>2 DEF PlainNext
  <2>3. CASE ~(Len(left) > MaxStack)
    BY <2>1, <2>3 DEF PlainNext, left
  <2>4. QED
    BY <2>2, <2>3
<1>7. QED
  BY <1>5, <1>6

\* What a list holds with an item above it.
LEMMA Above ==
    ASSUME NEW st, List(st), NEW e
    PROVE  /\ List(Append(st, e)) /\ Len(Append(st, e)) = Len(st) + 1
           /\ Append(st, e)[Len(Append(st, e))] = e
           /\ SubSeq(Append(st, e), 1, Len(Append(st, e)) - 1) = st
           /\ Len(st) \in Nat
<1>1. /\ List(Append(st, e)) /\ Len(Append(st, e)) = Len(st) + 1
      /\ Append(st, e)[Len(st) + 1] = e /\ Len(st) \in Nat
  BY ListAppend, ListIs
<1>2. SubSeq(Append(st, e), 1, Len(st)) = st
  BY ListBelow
<1>3. Len(Append(st, e)) - 1 = Len(st)
  BY <1>1
<1>4. QED
  BY <1>1, <1>2, <1>3

\* And with two.
LEMMA TwoAbove ==
    ASSUME NEW st, List(st), NEW d, NEW e, NEW a, a = Append(Append(st, d), e)
    PROVE  /\ List(a) /\ Len(a) = Len(st) + 2
           /\ a[Len(a)] = e /\ a[Len(a) - 1] = d
           /\ SubSeq(a, 1, Len(a) - 2) = st
<1> DEFINE b == Append(st, d)
<1>1. List(b) /\ Len(b) = Len(st) + 1 /\ Len(st) \in Nat /\ b[Len(st) + 1] = d
      /\ \A j \in 1 .. Len(st) : b[j] = st[j]
  BY ListAppend, ListIs
<1>2. a = Append(b, e)
  OBVIOUS
<1> HIDE DEF b
<1>3. /\ List(a) /\ Len(a) = Len(b) + 1 /\ a[Len(b) + 1] = e
      /\ \A j \in 1 .. Len(b) : a[j] = b[j]
  BY <1>1, <1>2, ListAppend
<1>4. Len(a) = Len(st) + 2 /\ Len(a) - 1 = Len(st) + 1 /\ Len(a) - 2 = Len(st)
  BY <1>1, <1>3
<1>5. Len(st) + 1 \in 1 .. Len(b)
  BY <1>1
<1>6. a[Len(a)] = e /\ a[Len(a) - 1] = d
  BY <1>1, <1>3, <1>4, <1>5
<1> DEFINE s == SubSeq(a, 1, Len(st))
<1>7. Len(st) \in 0 .. Len(a)
  BY <1>1, <1>4
<1>8. List(s) /\ Len(s) = Len(st) /\ \A j \in 1 .. Len(st) : s[j] = a[j]
  BY <1>3, <1>7, ListStart
<1> HIDE DEF s
<1>9. \A j \in 1 .. Len(s) : s[j] = st[j]
  <2> SUFFICES ASSUME NEW j \in 1 .. Len(st) PROVE s[j] = st[j]
    BY <1>8
  <2>1. j \in 1 .. Len(b)
    BY <1>1
  <2>2. QED
    BY <1>1, <1>3, <1>8, <2>1
<1>10. s = st
  BY <1>8, <1>9, ListsEqual
<1>11. QED
  BY <1>3, <1>4, <1>6, <1>10 DEF s

LEMMA BelowTwo ==
    ASSUME NEW st, List(st), NEW d, NEW e
    PROVE  SubSeq(Append(Append(st, d), e), 1, Len(st)) = st
<1> DEFINE b == Append(st, d)
           a == Append(b, e)
           s == SubSeq(a, 1, Len(st))
<1>1. /\ List(b) /\ Len(b) = Len(st) + 1 /\ Len(st) \in Nat
      /\ \A j \in 1 .. Len(st) : b[j] = st[j]
  BY ListAppend, ListIs
<1> HIDE DEF b
<1>2. /\ List(a) /\ Len(a) = Len(b) + 1
      /\ \A j \in 1 .. Len(b) : a[j] = b[j]
  BY <1>1, ListAppend
<1> HIDE DEF a
<1>3. Len(st) \in 0 .. Len(a) /\ \A j \in 1 .. Len(st) : j \in 1 .. Len(b)
  BY <1>1, <1>2
<1>4. List(s) /\ Len(s) = Len(st) /\ \A j \in 1 .. Len(st) : s[j] = a[j]
  BY <1>2, <1>3, ListStart
<1> HIDE DEF s
<1>5. \A j \in 1 .. Len(s) : s[j] = st[j]
  BY <1>1, <1>2, <1>3, <1>4
<1>6. s = st
  BY <1>4, <1>5, ListsEqual
<1>7. QED
  BY <1>6 DEF s, a, b

\* A script with the hash of a key.
LEMMA KeyHashEnds ==
    ASSUME NEW i, NEW ph \in ScriptPhases, NEW sc, List(sc), NEW st, List(st),
           NEW copy, NEW sp, sp.script = sc, sp.with = st,
           sp.ver = VersionIn(ph), IsKeyHashScript(sp),
           \A j \in 1 .. Len(st) : IsTuple(st[j]),
           Gets(i, Entered(ph, sc, st, copy))
    PROVE  LET ok == /\ Len(st) = 2 /\ sc[3][2] = <<"hash", "HASH160", st[2]>>
                     /\ SignedBy(st[1], st[2], sp)
           IN (ok => Good(i, ph, sc, copy)) /\ (~ok => Bad(i, ph, sc, copy))
<1> DEFINE h == sc[3][2]
           t == st[Len(st)]
           hash == <<"hash", "HASH160", t>>
           ok == /\ Len(st) = 2 /\ h = <<"hash", "HASH160", st[2]>>
                 /\ SignedBy(st[1], st[2], sp)
           a1 == Append(st, t)
           a2 == Append(st, hash)
           a3 == Append(a2, h)
<1>0. Len(st) \in Nat
  BY ListIs
<1>1. /\ Len(sc) = 5 /\ sc[1] = <<"DUP">> /\ sc[2] = <<"HASH160">>
      /\ sc[3] = <<"PUSH", h>> /\ sc[4] = <<"EQUALVERIFY">> /\ sc[5] = <<"CHECKSIG">>
  <2>1. sc = KeyHashScript(h) /\ Len(sc) = 5
    BY DEF IsKeyHashScript
  <2> HIDE DEF h
  <2>2. QED
    BY <2>1 DEF KeyHashScript
<1>2. /\ MaxScript >= 5 /\ MaxOps >= 4 /\ MaxElement >= 65 /\ MaxStack >= 5
      /\ {MaxScript, MaxOps, MaxElement, MaxStack} \subseteq Nat
  BY LimitsHoldUsualScripts, LimitsAre
<1>3. Gets(i, Plain(ph, sc, 1, st, 0, copy))
  BY EnteredPlain
<1>4. ok => Size(h) <= MaxElement
  <2>1. ok => Size(h) = 20
    BY DEF Size, TwentyByteHashes
  <2>2. QED
    BY <1>2, <2>1
<1>5. ok => h = hash
  OBVIOUS
<1>6. Len(st) >= 3 => ~ok
  BY <1>0
<1>7. Len(st) < 1 => ~ok
  BY <1>0
<1> HIDE DEF ok
<1>8. (Gets(i, Refused) /\ ~ok) \/ Gets(i, Plain(ph, sc, 2, a1, 1, copy))
  <2>1. \/ Gets(i, Plain(ph, sc, 1 + 1, a1, 0 + 1, copy))
        \/ Gets(i, Refused) /\ (Len(st) < 1 \/ Len(st) + 1 > MaxStack)
    <3>1. 1 \in 1 .. Len(sc) /\ sc[1][1] = "DUP" /\ 0 \in Nat /\ 0 + 1 <= MaxOps
          /\ Len(sc) <= MaxScript
      BY <1>1, <1>2
    <3>2. QED
      BY <1>3, <3>1, DupGoes
  <2>2. Len(st) + 1 > MaxStack => Len(st) >= 3
    BY <1>0, <1>2
  <2>3. QED
    BY <1>6, <1>7, <2>1, <2>2
<1>9. List(a1) /\ Len(a1) = Len(st) + 1 /\ a1[Len(a1)] = t
      /\ SubSeq(a1, 1, Len(a1) - 1) = st
  BY Above
<1>10. List(a2) /\ Len(a2) = Len(st) + 1
  BY Above
<1>11. /\ List(a3) /\ Len(a3) = Len(st) + 2
       /\ a3[Len(a3)] = h /\ a3[Len(a3) - 1] = hash
       /\ SubSeq(a3, 1, Len(a3) - 2) = st
  <2>1. a3 = Append(Append(st, hash), h)
    OBVIOUS
  <2> HIDE DEF a3, hash, h
  <2>2. List(st)
    OBVIOUS
  <2>3. List(a3)
    BY ONLY <2>1, <2>2, TwoAbove
  <2>4. a3[Len(a3)] = h
    BY ONLY <2>1, <2>2, TwoAbove
  <2>5. a3[Len(a3) - 1] = hash
    BY ONLY <2>1, <2>2, TwoAbove
  <2>6. Len(a3) = Len(st) + 2
    BY ONLY <2>1, <2>2, TwoAbove
  <2>7. SubSeq(a3, 1, Len(a3) - 2) = st
    <3> DEFINE n == Len(st)
    <3>1. SubSeq(a3, 1, n) = st
      BY ONLY <2>1, <2>2, BelowTwo
    <3>2. Len(a3) = n + 2 /\ n \in Nat
      BY <1>0, <2>6
    <3> HIDE DEF n
    <3>3. Len(a3) - 2 = n
      BY ONLY <3>2
    <3>4. QED
      BY <3>1, <3>3
  <2>8. QED
    BY <2>3, <2>4, <2>5, <2>6, <2>7
<1>12. ASSUME Gets(i, Plain(ph, sc, 2, a1, 1, copy))
       PROVE  (Gets(i, Refused) /\ ~ok) \/ Gets(i, Plain(ph, sc, 3, a2, 2, copy))
  <2>0. a2 = Append(SubSeq(a1, 1, Len(a1) - 1), <<"hash", "HASH160", a1[Len(a1)]>>)
    BY <1>9
  <2> HIDE DEF a1, a2
  <2>1. 2 \in 1 .. Len(sc) /\ sc[2][1] = "HASH160" /\ 1 \in Nat /\ 1 + 1 <= MaxOps
        /\ Len(sc) <= MaxScript
    BY <1>1, <1>2
  <2>2. \/ Gets(i, Plain(ph, sc, 2 + 1, a2, 1 + 1, copy))
        \/ Gets(i, Refused) /\ (Len(a1) < 1 \/ Len(a1) > MaxStack)
    BY <1>9, <1>12, <2>0, <2>1, HashGoes
  <2>3. ~(Len(a1) < 1)
    BY <1>0, <1>9
  <2>4. Len(a1) > MaxStack => Len(st) >= 3
    BY <1>0, <1>2, <1>9
  <2>5. QED
    BY <1>6, <2>2, <2>3, <2>4
<1>13. ASSUME Gets(i, Plain(ph, sc, 3, a2, 2, copy))
       PROVE  (Gets(i, Refused) /\ ~ok) \/ Gets(i, Plain(ph, sc, 4, a3, 2, copy))
  <2>1. 3 \in 1 .. Len(sc) /\ sc[3][1] = "PUSH" /\ 2 \in 0 .. MaxOps
        /\ Len(sc) <= MaxScript
    BY <1>1, <1>2
  <2> HIDE DEF a2
  <2>2. \/ Gets(i, Plain(ph, sc, 3 + 1, Append(a2, sc[3][2]), 2, copy))
        \/ /\ Gets(i, Refused)
           /\ ~(Size(sc[3][2]) <= MaxElement) \/ Len(a2) + 1 > MaxStack
    BY <1>10, <1>13, <2>1, PushGoes
  <2>3. Len(a2) + 1 > MaxStack => Len(st) >= 3
    BY <1>0, <1>2, <1>10
  <2>4. QED
    BY <1>4, <1>6, <2>2, <2>3
<1>14. ASSUME Gets(i, Plain(ph, sc, 4, a3, 2, copy))
       PROVE  \/ Gets(i, Refused) /\ ~ok
              \/ Gets(i, Plain(ph, sc, 5, st, 3, copy)) /\ h = hash
  <2>1. 4 \in 1 .. Len(sc) /\ sc[4][1] = "EQUALVERIFY" /\ 2 \in Nat
        /\ 2 + 1 <= MaxOps /\ Len(sc) <= MaxScript
    BY <1>1, <1>2
  <2> HIDE DEF a3, hash, h
  <2>2. \/ Gets(i, Plain(ph, sc, 4 + 1, SubSeq(a3, 1, Len(a3) - 2), 2 + 1, copy))
        \/ /\ Gets(i, Refused)
           /\ \/ Len(a3) < 2 \/ a3[Len(a3)] # a3[Len(a3) - 1]
              \/ Len(a3) - 2 > MaxStack
    BY <1>11, <1>14, <2>1, EqualVerifyGoes
  <2>3. ~(Len(a3) < 2)
    BY <1>0, <1>11
  <2>4. Len(a3) - 2 > MaxStack => Len(st) >= 3
    BY <1>0, <1>2, <1>11
  <2>5. CASE h # hash
    <3>1. ~ok
      BY <1>5, <2>5
    <3>2. Outcome(StandardFlags, i, Plain(ph, sc, 4, a3, 2, copy)) = Refused
      <4> DEFINE c == Plain(ph, sc, 4, a3, 2, copy)
      <4>1. c = Plain(ph, sc, 4, a3, 2, copy)
        OBVIOUS
      <4> HIDE DEF c
      <4>2. Usual(c) /\ c.stack = a3 /\ c.nOpCount = 2 /\ NameIn(c) = sc[4][1]
        BY <1>11, <2>1, <4>1, PlainUsual
      <4>3. QED
        BY <1>11, <2>1, <2>5, <4>1, <4>2, EqualVerifyAt, SMTT(30)
    <3>3. QED
      BY <1>14, <3>1, <3>2, ReachesOutcome DEF Gets
  <2>6. CASE h = hash
    <3>1. a3[Len(a3)] = a3[Len(a3) - 1]
      BY <1>11, <2>6
    <3>2. SubSeq(a3, 1, Len(a3) - 2) = st /\ 4 + 1 = 5 /\ 2 + 1 = 3
      BY <1>11
    <3>3. QED
      BY <1>6, <2>2, <2>3, <2>4, <2>6, <3>1, <3>2
  <2>7. QED
    BY <2>5, <2>6
<1>15. ASSUME Gets(i, Plain(ph, sc, 5, st, 3, copy)), h = hash
       PROVE  (ok => Good(i, ph, sc, copy)) /\ (~ok => Bad(i, ph, sc, copy))
  <2> DEFINE sig == st[Len(st) - 1]
             key == st[Len(st)]
  <2>1. ok <=> Len(st) = 2 /\ SignedBy(sig, key, sp)
    BY <1>15 DEF ok
  <2>2. ASSUME NEW e, e[1] = "sig" PROVE Whole(sc, {e})
    <3>1. h[1] = "hash"
      BY <1>15
    <3> HIDE DEF h
    <3>2. h # e
      BY <2>2, <3>1
    <3>3. \A n \in 1 .. Len(sc) : n = 1 \/ n = 2 \/ n = 3 \/ n = 4 \/ n = 5
      BY <1>1
    <3>4. sc[3] # <<"CODESEPARATOR">> /\ sc[3] # <<"PUSH", e>>
      BY <1>1, <3>2
    <3>5. /\ sc[1] # <<"CODESEPARATOR">> /\ sc[1] # <<"PUSH", e>>
          /\ sc[2] # <<"CODESEPARATOR">> /\ sc[2] # <<"PUSH", e>>
          /\ sc[4] # <<"CODESEPARATOR">> /\ sc[4] # <<"PUSH", e>>
          /\ sc[5] # <<"CODESEPARATOR">> /\ sc[5] # <<"PUSH", e>>
      BY <1>1
    <3>6. QED
      BY <3>3, <3>4, <3>5 DEF Whole
  <2>3. Len(st) >= 2 => Len(st) - 1 \in 1 .. Len(st)
    BY <1>0
  <2>4. Len(st) >= 2 =>
           IsTuple(sig) /\ (sig[1] = "sig" => ph = "witness" \/ Whole(sc, {sig}))
    BY <2>2, <2>3
  <2>5. sig = st[Len(st) - 1] /\ key = st[Len(st)]
    OBVIOUS
  <2> HIDE DEF sig, key
  <2>6. Gets(i, Plain(ph, sc, Len(sc), st, 3, copy))
    BY <1>1, <1>15
  <2>7. Len(sc) <= MaxScript /\ Len(sc) >= 1 /\ sc[Len(sc)] = <<"CHECKSIG">>
    BY <1>1, <1>2
  <2>8. 3 \in Nat /\ 3 + 1 <= MaxOps
    BY <1>2
  <2>9. QED
    BY <2>1, <2>4, <2>5, <2>6, <2>7, <2>8, LastCheck
<1>16. (ok => Good(i, ph, sc, copy)) /\ (~ok => Bad(i, ph, sc, copy))
  BY <1>8, <1>12, <1>13, <1>14, <1>15 DEF Bad
<1>17. QED
  BY <1>16 DEF ok

-----------------------------------------------------------------------------
(* The walk of _CheckMultiSig along the keys.                                *)

WalkStart == [next |-> 1, failed |-> FALSE, tried |-> {}]
WalkOn(w, sigs, key, m, left, hash) ==
    LET nx == IF CheckSig(sigs[w.next], key, hash) THEN w.next + 1 ELSE w.next
    IN IF w.next > m \/ w.failed THEN w
       ELSE [next |-> nx, failed |-> m - nx + 1 > left,
             tried |-> w.tried \cup {<<sigs[w.next], key>>}]
IsWalk(w, sigs, keys, m, n, hash) ==
    w = [k \in 0 .. n |-> IF k = 0 THEN WalkStart
                          ELSE WalkOn(w[k - 1], sigs, keys[k], m, n - k, hash)]

\* There is one for each number of signatures and keys.
LEMMA WalkExists ==
    ASSUME NEW sigs, NEW keys, NEW m, NEW n \in Nat, NEW hash
    PROVE  \E w : IsWalk(w, sigs, keys, m, n, hash)
<1> DEFINE On(w, k) == WalkOn(w, sigs, keys[k], m, n - k, hash)
           G(f, j) == f = [k \in 0 .. j |-> IF k = 0 THEN WalkStart
                                            ELSE On(f[k - 1], k)]
           T == {j \in Nat : \E f : G(f, j)}
<1> HIDE DEF On
<1>1. 0 \in T
  <2>1. G([k \in 0 .. 0 |-> WalkStart], 0)
    OBVIOUS
  <2> HIDE DEF G
  <2>2. QED
    BY <2>1
<1>2. ASSUME NEW j \in Nat, j \in T PROVE j + 1 \in T
  <2>1. PICK f : G(f, j)
    BY <1>2
  <2> DEFINE g == [k \in 0 .. j + 1 |-> IF k = j + 1 THEN On(f[j], j + 1) ELSE f[k]]
  <2>2. ASSUME NEW k \in 0 .. j + 1
        PROVE  g[k] = IF k = 0 THEN WalkStart ELSE On(g[k - 1], k)
    <3>1. CASE k = j + 1
      <4>1. j \in 0 .. j + 1 /\ j # j + 1 /\ k # 0 /\ k - 1 = j
        BY <3>1
      <4>2. g[k] = On(f[j], j + 1) /\ g[j] = f[j]
        BY <3>1, <4>1
      <4> HIDE DEF g
      <4>3. QED
        BY <3>1, <4>1, <4>2
    <3>2. CASE k # j + 1
      <4>1. k \in 0 .. j /\ (k # 0 => k - 1 \in 0 .. j + 1 /\ k - 1 # j + 1)
        BY <3>2
      <4>2. f[k] = IF k = 0 THEN WalkStart ELSE On(f[k - 1], k)
        BY <2>1, <4>1
      <4>3. g[k] = f[k] /\ (k # 0 => g[k - 1] = f[k - 1])
        BY <3>2, <4>1
      <4> HIDE DEF g
      <4>4. QED
        BY <4>2, <4>3
    <3>3. QED
      BY <3>1, <3>2
  <2>3. g = [k \in 0 .. j + 1 |-> g[k]]
    OBVIOUS
  <2> HIDE DEF g
  <2>4. G(g, j + 1)
    BY <2>2, <2>3
  <2> HIDE DEF G
  <2>5. QED
    BY <2>4
<1>3. \A j \in Nat : j \in T
  <2> HIDE DEF T
  <2>1. QED
    BY <1>1, <1>2, Counting
<1>4. PICK w : G(w, n)
  BY <1>3
<1>5. IsWalk(w, sigs, keys, m, n, hash)
  BY <1>4 DEF IsWalk, On
<1>6. QED
  BY <1>5

\* A walk step by step.
LEMMA WalkSteps ==
    ASSUME NEW sigs, NEW keys, NEW m \in Nat, NEW n \in Nat, NEW hash, NEW w,
           IsWalk(w, sigs, keys, m, n, hash)
    PROVE  /\ w[0] = WalkStart
           /\ \A k \in 0 .. n - 1 :
                 w[k + 1] = WalkOn(w[k], sigs, keys[k + 1], m, n - (k + 1), hash)
<1>1. w[0] = WalkStart
  BY DEF IsWalk
<1>2. ASSUME NEW k \in 0 .. n - 1
      PROVE  w[k + 1] = WalkOn(w[k], sigs, keys[k + 1], m, n - (k + 1), hash)
  <2>1. k + 1 \in 0 .. n /\ k + 1 # 0 /\ (k + 1) - 1 = k
    OBVIOUS
  <2>2. QED
    BY <2>1 DEF IsWalk
<1>3. QED
  BY <1>1, <1>2

\* One step of a walk, from u to v, with a key that leaves others to try.
WalksTo(u, v, sigs, key, m, left, hash) ==
    /\ u.next \in 1 .. m + 1 /\ u.failed \in BOOLEAN
    /\ v.next \in 1 .. m + 1 /\ v.failed \in BOOLEAN
    /\ u.next > m \/ u.failed => v = u
    /\ ~(u.next > m \/ u.failed) =>
          /\ v.next = IF CheckSig(sigs[u.next], key, hash)
                      THEN u.next + 1 ELSE u.next
          /\ v.failed <=> m - v.next + 1 > left
          /\ v.tried = u.tried \cup {<<sigs[u.next], key>>}

LEMMA WalkOnSteps ==
    ASSUME NEW u, NEW sigs, NEW key, NEW m \in Nat, NEW left \in Nat, NEW hash,
           u.next \in 1 .. m + 1, u.failed \in BOOLEAN
    PROVE  WalksTo(u, WalkOn(u, sigs, key, m, left, hash), sigs, key, m, left, hash)
<1> DEFINE v == WalkOn(u, sigs, key, m, left, hash)
<1> DEFINE ok == CheckSig(sigs[u.next], key, hash)
           nx == IF ok THEN u.next + 1 ELSE u.next
           few == m - nx + 1 > left
<1>1. CASE u.next > m \/ u.failed
  BY <1>1 DEF WalkOn, WalksTo
<1>2. CASE ~(u.next > m \/ u.failed)
  <2>1. v = [next |-> nx, failed |-> few,
             tried |-> u.tried \cup {<<sigs[u.next], key>>}]
    BY <1>2 DEF WalkOn
  <2>2. few \in BOOLEAN
    OBVIOUS
  <2>3. nx \in 1 .. m + 1
    <3> HIDE DEF ok
    <3>1. QED
      BY <1>2
  <2> HIDE DEF nx, few
  <2>4. /\ v.next = nx /\ v.failed = few
        /\ v.tried = u.tried \cup {<<sigs[u.next], key>>}
    BY <2>1
  <2>5. v.failed \in BOOLEAN /\ (v.failed <=> m - v.next + 1 > left)
    <3>1. v.failed \in BOOLEAN /\ (v.failed <=> few)
      BY <2>2, <2>4, Zenon
    <3>2. few <=> m - v.next + 1 > left
      BY <2>4 DEF few
    <3>3. QED
      BY <3>1, <3>2
  <2>6. v.next = IF ok THEN u.next + 1 ELSE u.next
    BY <2>4 DEF nx
  <2>7. v.next \in 1 .. m + 1
    BY <2>3, <2>4
  <2>8. QED
    BY <1>2, <2>4, <2>5, <2>6, <2>7 DEF WalksTo
<1>3. QED
  BY <1>1, <1>2

\* The walk never leaves the signatures, and tries them with the keys.
Walked(u, sigs, keys, m, n) ==
    /\ u.next \in 1 .. m + 1 /\ u.failed \in BOOLEAN
    /\ \A t \in u.tried : \E a \in 1 .. m, b \in 1 .. n : t = <<sigs[a], keys[b]>>

LEMMA WalkType ==
    ASSUME NEW sigs, NEW keys, NEW m \in Nat, NEW n \in Nat, NEW hash, NEW w,
           IsWalk(w, sigs, keys, m, n, hash)
    PROVE  \A k \in 0 .. n : Walked(w[k], sigs, keys, m, n)
<1> DEFINE P(k) == /\ w[k].next \in 1 .. m + 1 /\ w[k].failed \in BOOLEAN
                   /\ \A t \in w[k].tried :
                         \E a \in 1 .. m, b \in 1 .. n : t = <<sigs[a], keys[b]>>
           T == {k \in Nat : k <= n => P(k)}
<1>1. 0 \in T
  <2>1. w[0] = WalkStart
    BY DEF IsWalk
  <2>2. w[0].next = 1 /\ w[0].failed = FALSE /\ w[0].tried = {}
    BY <2>1 DEF WalkStart
  <2>3. P(0)
    <3>1. w[0].next \in 1 .. m + 1
      BY <2>2
    <3>2. QED
      BY <2>2, <3>1
  <2> HIDE DEF P
  <2>4. QED
    BY <2>3
<1>2. ASSUME NEW k \in Nat, k \in T PROVE k + 1 \in T
  <2> SUFFICES ASSUME k + 1 <= n PROVE P(k + 1)
    OBVIOUS
  <2>1. k \in 0 .. n - 1 /\ k + 1 \in 1 .. n /\ P(k) /\ n - (k + 1) \in Nat
    BY <1>2
  <2> DEFINE u == w[k]
             v == w[k + 1]
             key == keys[k + 1]
             left == n - (k + 1)
  <2>2. v = WalkOn(u, sigs, key, m, left, hash) /\ left \in Nat
    BY <2>1, WalkSteps
  <2>3. u.next \in 1 .. m + 1 /\ u.failed \in BOOLEAN
    BY <2>1
  <2> HIDE DEF u, v, key, left
  <2>4. /\ v.next \in 1 .. m + 1 /\ v.failed \in BOOLEAN
        /\ u.next > m \/ u.failed => v = u
        /\ ~(u.next > m \/ u.failed) =>
              v.tried = u.tried \cup {<<sigs[u.next], key>>}
    BY <2>2, <2>3, WalkOnSteps DEF WalksTo
  <2>5. CASE u.next > m \/ u.failed
    BY <2>1, <2>4, <2>5 DEF u, v
  <2>6. CASE ~(u.next > m \/ u.failed)
    <3>1. u.next \in 1 .. m
      BY <2>3, <2>6
    <3>2. \A t \in v.tried : t \in u.tried \/ t = <<sigs[u.next], keys[k + 1]>>
      BY <2>4, <2>6 DEF key
    <3>3. \A t \in u.tried :
             \E a \in 1 .. m, b \in 1 .. n : t = <<sigs[a], keys[b]>>
      BY <2>1 DEF u
    <3>4. \A t \in v.tried :
             \E a \in 1 .. m, b \in 1 .. n : t = <<sigs[a], keys[b]>>
      BY <2>1, <3>1, <3>2, <3>3
    <3>5. QED
      BY <2>4, <3>4 DEF v
  <2>7. QED
    BY <2>5, <2>6
<1>3. \A k \in Nat : k \in T
  <2> HIDE DEF T
  <2>1. QED
    BY <1>1, <1>2, Counting
<1>4. QED
  BY <1>3 DEF Walked

\* Keys, in order, that signatures match.
Rising(b) == \A i, j \in DOMAIN b : i < j => b[i] < b[j]
Matching(b, sigs, keys, hash) ==
    \A j \in DOMAIN b : CheckSig(sigs[j], keys[b[j]], hash)

\* A walk step by step, with what it tried.
LEMMA WalkStep ==
    ASSUME NEW sigs, NEW keys, NEW m \in Nat, NEW n \in Nat, NEW hash, NEW w,
           IsWalk(w, sigs, keys, m, n, hash)
    PROVE  \A k \in 0 .. n - 1 :
              WalksTo(w[k], w[k + 1], sigs, keys[k + 1], m, n - (k + 1), hash)
<1> SUFFICES ASSUME NEW k \in 0 .. n - 1
             PROVE  WalksTo(w[k], w[k + 1], sigs, keys[k + 1], m, n - (k + 1), hash)
  OBVIOUS
<1>1. w[k + 1] = WalkOn(w[k], sigs, keys[k + 1], m, n - (k + 1), hash)
  BY WalkSteps
<1>2. k \in 0 .. n /\ n - (k + 1) \in Nat
  OBVIOUS
<1>3. w[k].next \in 1 .. m + 1 /\ w[k].failed \in BOOLEAN
  BY <1>2, WalkType DEF Walked
<1> DEFINE u == w[k]
           key == keys[k + 1]
           left == n - (k + 1)
<1>4. u.next \in 1 .. m + 1 /\ u.failed \in BOOLEAN /\ left \in Nat
  BY <1>2, <1>3
<1> HIDE DEF u, key, left
<1>5. WalksTo(u, WalkOn(u, sigs, key, m, left, hash), sigs, key, m, left, hash)
  BY <1>4, WalkOnSteps
<1>6. QED
  BY <1>1, <1>5 DEF u, key, left

\* A walk that has failed stays so.
LEMMA NeverFailed ==
    ASSUME NEW sigs, NEW keys, NEW m \in Nat, NEW n \in Nat, NEW hash, NEW w,
           IsWalk(w, sigs, keys, m, n, hash), ~w[n].failed
    PROVE  \A k \in 0 .. n : ~w[k].failed
<1> DEFINE T == {d \in Nat : d <= n => ~w[n - d].failed}
<1>1. 0 \in T
  <2>1. n - 0 = n
    OBVIOUS
  <2>2. QED
    BY <2>1
<1>2. ASSUME NEW d \in Nat, d \in T PROVE d + 1 \in T
  <2> SUFFICES ASSUME d + 1 <= n, w[n - (d + 1)].failed PROVE FALSE
    OBVIOUS
  <2> DEFINE k == n - (d + 1)
             u == w[k]
             v == w[k + 1]
  <2>1. k \in 0 .. n - 1 /\ k + 1 = n - d
    OBVIOUS
  <2>2. ~v.failed /\ u.failed
    BY <1>2, <2>1
  <2> HIDE DEF k
  <2>3. u = w[k] /\ v = w[k + 1]
    OBVIOUS
  <2> HIDE DEF u, v
  <2>4. m \in Nat /\ n \in Nat /\ IsWalk(w, sigs, keys, m, n, hash)
    OBVIOUS
  <2>5. u.failed => v = u
    <3>1. WalksTo(w[k], w[k + 1], sigs, keys[k + 1], m, n - (k + 1), hash)
      BY ONLY <2>1, <2>4, WalkStep
    <3>2. QED
      BY <2>3, <3>1 DEF WalksTo
  <2>6. QED
    BY <2>2, <2>5
<1>3. \A d \in Nat : d \in T
  <2> HIDE DEF T
  <2>1. QED
    BY <1>1, <1>2, Counting
<1>4. ASSUME NEW k \in 0 .. n PROVE ~w[k].failed
  <2>1. n - k \in Nat /\ n - k <= n /\ n - (n - k) = k
    OBVIOUS
  <2>2. n - k \in T
    BY <1>3, <2>1
  <2>3. QED
    BY <2>1, <2>2
<1>5. QED
  BY <1>4

\* A walk that does not fail finds a key for each signature, in order.
LEMMA WalkSound ==
    ASSUME NEW sigs, NEW keys, NEW n \in Nat, NEW m \in 1 .. n, NEW hash, NEW w,
           IsWalk(w, sigs, keys, m, n, hash), ~w[n].failed
    PROVE  \E b \in [1 .. m -> 1 .. n] :
              /\ Rising(b) /\ Matching(b, sigs, keys, hash)
              /\ \A j \in 1 .. m : <<sigs[j], keys[b[j]]>> \in w[n].tried
<1> DEFINE Found(b, k) == /\ Rising(b) /\ Matching(b, sigs, keys, hash)
                          /\ \A j \in DOMAIN b : <<sigs[j], keys[b[j]]>> \in w[k].tried
           P(k) == \E b \in [1 .. w[k].next - 1 -> 1 .. k] : Found(b, k)
           T == {k \in Nat : k <= n => P(k)}
<1>0. m \in Nat /\ \A k \in 0 .. n : ~w[k].failed
  BY NeverFailed
<1>1. 0 \in T
  <2>1. w[0].next = 1
    BY DEF IsWalk, WalkStart
  <2> DEFINE b == [j \in {} |-> 0]
  <2>2. b \in [1 .. 1 - 1 -> 1 .. 0] /\ DOMAIN b = {}
    OBVIOUS
  <2>3. Found(b, 0)
    BY <2>2 DEF Rising, Matching
  <2> HIDE DEF b, Found
  <2>4. P(0)
    BY <2>1, <2>2, <2>3
  <2>5. QED
    BY <2>4
<1>2. ASSUME NEW k \in Nat, k \in T PROVE k + 1 \in T
  <2> SUFFICES ASSUME k + 1 <= n PROVE P(k + 1)
    OBVIOUS
  <2> DEFINE u == w[k]
             v == w[k + 1]
             x == u.next
  <2>1. k \in 0 .. n - 1 /\ k \in 0 .. n /\ P(k)
    BY <1>2
  <2>2. u = w[k] /\ v = w[k + 1]
    OBVIOUS
  <2>3. PICK b \in [1 .. x - 1 -> 1 .. k] : Found(b, k)
    BY <2>1
  <2>4. ~u.failed
    BY <1>0, <2>1
  <2> HIDE DEF u, v
  <2>5. /\ u.next \in 1 .. m + 1
        /\ u.next > m => v = u
        /\ ~(u.next > m) =>
              /\ v.next = IF CheckSig(sigs[u.next], keys[k + 1], hash)
                          THEN u.next + 1 ELSE u.next
              /\ v.tried = u.tried \cup {<<sigs[u.next], keys[k + 1]>>}
    <3>1. /\ m \in Nat /\ n \in Nat /\ IsWalk(w, sigs, keys, m, n, hash)
          /\ k \in 0 .. n - 1 /\ u = w[k] /\ v = w[k + 1]
      BY <1>0, <2>1, <2>2
    <3>2. WalksTo(w[k], w[k + 1], sigs, keys[k + 1], m, n - (k + 1), hash)
      BY ONLY <3>1, WalkStep
    <3>3. QED
      BY <2>4, <3>1, <3>2 DEF WalksTo
  <2>6. x \in Nat /\ x >= 1
    BY <1>0, <2>5
  <2>7. Found(b, k) <=> /\ Rising(b) /\ Matching(b, sigs, keys, hash)
                        /\ \A j \in DOMAIN b : <<sigs[j], keys[b[j]]>> \in u.tried
    BY <2>2
  <2> HIDE DEF x
  <2>8. u.tried \subseteq v.tried
    BY <2>5 DEF x
  <2>9. b \in [1 .. x - 1 -> 1 .. k + 1]
    BY <2>1
  <2>10. CASE v.next = x
    <3>1. Found(b, k + 1)
      BY <2>2, <2>3, <2>7, <2>8
    <3> HIDE DEF Found
    <3>2. QED
      BY <2>2, <2>9, <2>10, <3>1
  <2>11. CASE v.next # x
    <3>1. /\ v.next = x + 1 /\ CheckSig(sigs[x], keys[k + 1], hash)
          /\ <<sigs[x], keys[k + 1]>> \in v.tried
      BY <2>5, <2>11 DEF x
    <3> DEFINE g == [j \in 1 .. x |-> IF j = x THEN k + 1 ELSE b[j]]
    <3>2. ASSUME NEW j \in 1 .. x - 1
          PROVE  /\ j \in 1 .. x /\ g[j] = b[j] /\ b[j] \in 1 .. k
                 /\ b[j] < k + 1
      BY <2>6, <2>1
    <3>3. x \in 1 .. x /\ g[x] = k + 1
      BY <2>6
    <3>4. \A j \in 1 .. x : j = x \/ j \in 1 .. x - 1
      BY <2>6
    <3>5. DOMAIN g = 1 .. x /\ DOMAIN b = 1 .. x - 1
      OBVIOUS
    <3>6. g \in [1 .. x -> 1 .. k + 1]
      <4>1. ASSUME NEW j \in 1 .. x
            PROVE  (IF j = x THEN k + 1 ELSE b[j]) \in 1 .. k + 1
        <5>1. CASE j = x
          BY <2>1, <5>1
        <5>2. CASE j # x
          <6>1. j \in 1 .. x - 1
            BY <3>4, <5>2
          <6>2. QED
            BY <2>9, <5>2, <6>1
        <5>3. QED
          BY <5>1, <5>2
      <4>2. QED
        BY <4>1
    <3> HIDE DEF g
    <3>7. Rising(g)
      <4> SUFFICES ASSUME NEW i \in 1 .. x, NEW j \in 1 .. x, i < j
                   PROVE  g[i] < g[j]
        BY <3>5 DEF Rising
      <4>1. i \in 1 .. x - 1
        BY <2>6
      <4>2. CASE j = x
        BY <3>2, <3>3, <4>1, <4>2
      <4>3. CASE j \in 1 .. x - 1
        <5>1. b[i] < b[j]
          BY <2>3, <2>7, <3>5, <4>1, <4>3 DEF Rising
        <5>2. QED
          BY <3>2, <4>1, <4>3, <5>1
      <4>4. QED
        BY <3>4, <4>2, <4>3
    <3>8. ASSUME NEW j \in 1 .. x
          PROVE  /\ CheckSig(sigs[j], keys[g[j]], hash)
                 /\ <<sigs[j], keys[g[j]]>> \in v.tried
      <4>1. CASE j = x
        BY <3>1, <3>3, <4>1
      <4>2. CASE j \in 1 .. x - 1
        <5>1. CheckSig(sigs[j], keys[b[j]], hash) /\ <<sigs[j], keys[b[j]]>> \in u.tried
          BY <2>3, <2>7, <3>5, <4>2 DEF Matching
        <5>2. QED
          BY <2>8, <3>2, <4>2, <5>1
      <4>3. QED
        BY <3>4, <4>1, <4>2
    <3>9. Found(g, k + 1)
      BY <2>2, <3>5, <3>7, <3>8 DEF Matching
    <3>10. w[k + 1].next - 1 = x
      BY <2>2, <2>6, <3>1
    <3> HIDE DEF Found
    <3>11. QED
      BY <3>6, <3>9, <3>10
  <2>12. QED
    BY <2>10, <2>11
<1>3. \A k \in Nat : k \in T
  <2> HIDE DEF T
  <2>1. QED
    BY <1>1, <1>2, Counting
<1>4. P(n)
  BY <1>3
<1>5. w[n].next - 1 = m
  <2> DEFINE k == n - 1
             u == w[k]
             v == w[k + 1]
  <2>1. k \in 0 .. n - 1 /\ k + 1 = n /\ k \in 0 .. n
    OBVIOUS
  <2> HIDE DEF k
  <2>2. u = w[k] /\ v = w[k + 1]
    OBVIOUS
  <2>3. ~u.failed /\ ~v.failed
    BY <1>0, <2>1
  <2> HIDE DEF u, v
  <2>4. /\ v.next \in 1 .. m + 1 /\ u.next \in 1 .. m + 1
        /\ u.next > m => v = u
        /\ ~(u.next > m) => (v.failed <=> m - v.next + 1 > n - (k + 1))
    <3>1. /\ m \in Nat /\ n \in Nat /\ IsWalk(w, sigs, keys, m, n, hash)
          /\ k \in 0 .. n - 1 /\ u = w[k] /\ v = w[k + 1]
      BY <1>0, <2>1, <2>2
    <3>2. WalksTo(w[k], w[k + 1], sigs, keys[k + 1], m, n - (k + 1), hash)
      BY ONLY <3>1, WalkStep
    <3>3. QED
      BY <2>3, <3>1, <3>2 DEF WalksTo
  <2>5. v.next = m + 1
    <3>1. CASE u.next > m
      BY <1>0, <2>4, <3>1
    <3>2. CASE ~(u.next > m)
      <4>1. ~(m - v.next + 1 > 0)
        BY <2>1, <2>3, <2>4, <3>2
      <4>2. QED
        BY <1>0, <2>4, <4>1
    <3>3. QED
      BY <3>1, <3>2
  <2>6. QED
    BY <1>0, <2>1, <2>2, <2>5
<1>6. PICK b \in [1 .. m -> 1 .. n] : Found(b, n)
  BY <1>4, <1>5
<1>7. QED
  BY <1>6

\* There is room for the keys that follow.
LEMMA Low ==
    ASSUME NEW n \in Nat, NEW m \in Nat, NEW b \in [1 .. m -> 1 .. n], Rising(b)
    PROVE  \A j \in 1 .. m : b[j] <= n - (m - j)
<1> DEFINE T == {d \in Nat : d < m => b[m - d] <= n - d}
<1>1. 0 \in T
  <2>1. 0 < m => m - 0 = m /\ m \in 1 .. m
    OBVIOUS
  <2>2. 0 < m => b[m] \in 1 .. n
    BY <2>1
  <2>3. QED
    BY <2>1, <2>2
<1>2. ASSUME NEW d \in Nat, d \in T PROVE d + 1 \in T
  <2> SUFFICES ASSUME d + 1 < m PROVE b[m - (d + 1)] <= n - (d + 1)
    OBVIOUS
  <2> DEFINE x == m - (d + 1)
             y == m - d
  <2>1. x \in 1 .. m /\ y \in 1 .. m /\ x < y /\ d < m
    OBVIOUS
  <2>2. b[y] <= n - d
    BY <1>2, <2>1
  <2> HIDE DEF x, y
  <2>3. b[x] < b[y] /\ b[x] \in 1 .. n /\ b[y] \in 1 .. n
    BY <2>1 DEF Rising
  <2>4. b[x] <= n - (d + 1)
    BY <2>2, <2>3
  <2>5. QED
    BY <2>4 DEF x
<1>3. \A d \in Nat : d \in T
  <2> HIDE DEF T
  <2>1. QED
    BY <1>1, <1>2, Counting
<1>4. ASSUME NEW j \in 1 .. m PROVE b[j] <= n - (m - j)
  <2>1. m - j \in Nat /\ m - j < m /\ m - (m - j) = j
    OBVIOUS
  <2>2. m - j \in T
    BY <1>3, <2>1
  <2>3. QED
    BY <2>1, <2>2
<1>5. QED
  BY <1>4

\* A walk finds the keys that signatures match in order.
LEMMA WalkComplete ==
    ASSUME NEW sigs, NEW keys, NEW n \in Nat, NEW m \in 1 .. n, NEW hash, NEW w,
           IsWalk(w, sigs, keys, m, n, hash), NEW b \in [1 .. m -> 1 .. n],
           Rising(b), Matching(b, sigs, keys, hash)
    PROVE  ~w[n].failed
<1> DEFINE P(k) == /\ ~w[k].failed
                   /\ \A j \in 1 .. m : b[j] <= k => w[k].next > j
           T == {k \in Nat : k <= n => P(k)}
<1>0. m \in Nat
  OBVIOUS
<1>1. 0 \in T
  <2>1. w[0].next = 1 /\ ~w[0].failed
    BY DEF IsWalk, WalkStart
  <2>2. \A j \in 1 .. m : ~(b[j] <= 0)
    OBVIOUS
  <2>3. QED
    BY <2>1, <2>2
<1>2. ASSUME NEW k \in Nat, k \in T PROVE k + 1 \in T
  <2> SUFFICES ASSUME k + 1 <= n PROVE P(k + 1)
    OBVIOUS
  <2> DEFINE u == w[k]
             v == w[k + 1]
             x == u.next
             key == keys[k + 1]
             left == n - (k + 1)
  <2>1. k \in 0 .. n - 1 /\ P(k) /\ left \in Nat
    BY <1>2
  <2>2. WalksTo(u, v, sigs, key, m, left, hash)
    BY <1>0, <2>1, WalkStep
  <2>3. ~u.failed /\ \A j \in 1 .. m : b[j] <= k => x > j
    BY <2>1
  <2>4. P(k + 1) <=> ~v.failed /\ \A j \in 1 .. m : b[j] <= k + 1 => v.next > j
    OBVIOUS
  <2>5. key = keys[k + 1] /\ left = n - (k + 1)
    OBVIOUS
  <2> HIDE DEF u, v, P, key, left
  <2>6. /\ x \in 1 .. m + 1 /\ v.next \in 1 .. m + 1
        /\ x > m => v = u
        /\ ~(x > m) => /\ v.next = IF CheckSig(sigs[x], key, hash)
                                   THEN x + 1 ELSE x
                       /\ v.failed <=> m - v.next + 1 > left
    BY <2>2, <2>3 DEF WalksTo
  <2> HIDE DEF x
  <2>7. CASE x > m
    <3>1. v.next = x
      BY <2>6, <2>7 DEF x
    <3>2. \A j \in 1 .. m : v.next > j
      BY <1>0, <2>6, <2>7, <3>1
    <3>3. QED
      BY <2>3, <2>4, <2>6, <2>7, <3>2
  <2>8. CASE ~(x > m)
    <3>1. x \in 1 .. m /\ b[x] \in 1 .. n /\ b[x] >= k + 1
      <4>1. x \in 1 .. m
        BY <1>0, <2>6, <2>8
      <4>2. ~(b[x] <= k)
        BY <2>3, <4>1
      <4>3. QED
        BY <4>1, <4>2
    <3>2. v.next >= x
      <4> DEFINE ok == CheckSig(sigs[x], key, hash)
      <4> HIDE DEF ok
      <4>1. v.next = IF ok THEN x + 1 ELSE x
        BY <2>6, <2>8 DEF ok
      <4>2. QED
        BY <3>1, <4>1
    <3>3. ASSUME NEW j \in 1 .. m, b[j] <= k + 1 PROVE v.next > j
      <4>1. CASE j < x
        BY <1>0, <2>6, <3>1, <3>2, <4>1
      <4>2. CASE j = x
        <5>1. b[x] = k + 1
          BY <3>1, <3>3, <4>2
        <5>2. CheckSig(sigs[x], key, hash)
          BY <2>5, <3>1, <5>1 DEF Matching
        <5>3. v.next = x + 1
          BY <2>6, <2>8, <5>2
        <5>4. QED
          BY <1>0, <3>1, <4>2, <5>3
      <4>3. CASE x < j
        <5>1. b[x] < b[j]
          BY <3>1, <4>3 DEF Rising
        <5>2. QED
          BY <3>1, <3>3, <5>1
      <4>4. QED
        BY <3>1, <4>1, <4>2, <4>3
    <3>4. ~(m - v.next + 1 > left)
      <4>1. CASE v.next = m + 1
        BY <1>0, <2>1, <4>1
      <4>2. CASE v.next # m + 1
        <5> DEFINE y == v.next
        <5>1. y \in 1 .. m
          BY <1>0, <2>6, <4>2
        <5> HIDE DEF y
        <5>2. ~(b[y] <= k + 1) /\ b[y] \in 1 .. n
          BY <3>3, <5>1 DEF y
        <5>3. b[y] <= n - (m - y)
          BY <1>0, <5>1, Low
        <5>4. ~(m - y + 1 > left)
          BY <1>0, <2>5, <5>1, <5>2, <5>3
        <5>5. QED
          BY <5>4 DEF y
      <4>3. QED
        BY <4>1, <4>2
    <3>5. QED
      BY <2>4, <2>6, <2>8, <3>3, <3>4
  <2>9. QED
    BY <2>7, <2>8
<1>3. \A k \in Nat : k \in T
  <2> HIDE DEF T
  <2>1. QED
    BY <1>1, <1>2, Counting
<1>4. QED
  BY <1>3

\* What _CheckMultiSig walks at a frame.
LEMMA MultiSigAt ==
    ASSUME NEW F, NEW c, NEW n \in Nat, NEW m \in Nat, NEW sigs, NEW keys,
           NEW hash, At(F, c)!KeysCount = n, At(F, c)!SigsCount = m,
           At(F, c)!Sigs = sigs, At(F, c)!Keys = keys,
           At(F, c)!MultiSigHash = hash
    PROVE  \E w : IsWalk(w, sigs, keys, m, n, hash) /\ At(F, c)!MultiSig = w[n]
<1> DEFINE G(f) == f = [k \in 0 .. n |->
                          IF k = 0 THEN [next |-> 1, failed |-> FALSE, tried |-> {}]
                          ELSE At(F, c)!TryKey(f[k - 1], keys[k], n - k)]
           walk == CHOOSE f : G(f)
<1>1. At(F, c)!MultiSig = walk[n]
  BY DEF At!MultiSig
<1>2. ASSUME NEW u, NEW key, NEW left
      PROVE  At(F, c)!TryKey(u, key, left) = WalkOn(u, sigs, key, m, left, hash)
  BY DEF At!TryKey, At!CheckSig, CheckSig, WalkOn
<1>3. ASSUME NEW f PROVE G(f) <=> IsWalk(f, sigs, keys, m, n, hash)
  BY <1>2 DEF IsWalk, WalkStart
<1>4. PICK w : IsWalk(w, sigs, keys, m, n, hash)
  BY WalkExists
<1> HIDE DEF G
<1>5. G(w)
  BY <1>3, <1>4
<1>6. G(walk)
  BY <1>5
<1>7. QED
  BY <1>1, <1>3, <1>6

-----------------------------------------------------------------------------
(* A script that asks for m signatures of n keys, at its last operation.     *)

MultiScript(sc, n, m) ==
    /\ List(sc) /\ OpsAreTuples(sc)
    /\ n \in 1 .. MaxKeys /\ m \in 1 .. n /\ Len(sc) = n + 3
    /\ sc[1] = <<"NUM", m>> /\ sc[n + 2] = <<"NUM", n>>
    /\ sc[n + 3] = <<"CHECKMULTISIG">>
    /\ \A j \in 2 .. n + 1 : sc[j][1] = "PUSH" /\ sc[j][2][1] = "key"
MultiFrame(c, st, n, m) ==
    /\ Usual(c) /\ MultiScript(c.script, n, m) /\ List(st)
    /\ c.pc = n + 3 /\ c.nOpCount = 0 /\ c.stack = Pile(st, c.script, n + 2)

\* The keys from the last one pushed, and the signatures from the last one
\* offered: the order in which they are tried.
KeysOf(sc, n) == [b \in 1 .. n |-> sc[n + 2 - b][2]]
SigsOf(st, m) == [a \in 1 .. m |-> st[Len(st) + 1 - a]]

\* The numbers in such a script are within the limits.
LEMMA MultiNumbers ==
    ASSUME NEW sc, NEW n, NEW m, MultiScript(sc, n, m)
    PROVE  /\ n \in 1 .. 16 /\ m \in 1 .. n
           /\ IsBigNum(Num(n)) /\ IsBigNum(Num(m))
           /\ BigNum(Num(n)) = n /\ BigNum(Num(m)) = m
<1>1. /\ DOMAIN sc = 1 .. n + 3 /\ n \in Nat /\ m \in 1 .. n
      /\ sc[n + 2] = <<"NUM", n>> /\ OpsAreTuples(sc)
  BY ListIs, LimitsAre DEF MultiScript
<1>2. n + 2 \in DOMAIN sc
  BY <1>1
<1>3. <<"NUM", n>> \in ToSet(sc)
  BY <1>1, <1>2 DEF ToSet
<1>4. n \in {-1} \cup 1 .. 16
  BY <1>1, <1>3 DEF OpsAreTuples
<1>5. n \in 1 .. 16
  BY <1>1, <1>4
<1>6. ASSUME NEW k \in 1 .. 16 PROVE IsBigNum(Num(k)) /\ BigNum(Num(k)) = k
  <2>1. NumSize(k) = 1
    BY DEF NumSize, Abs
  <2>2. Size(Num(k)) = NumSize(k)
    BY DEF Size, Num
  <2>3. QED
    BY <2>1, <2>2 DEF IsBigNum, BigNum, Num
<1>7. m \in 1 .. 16
  BY <1>1, <1>5
<1>8. QED
  BY <1>1, <1>5, <1>6, <1>7

\* What the stack holds there.
LEMMA MultiStack ==
    ASSUME NEW sc, NEW st, List(st), NEW n, NEW m, MultiScript(sc, n, m),
           NEW p, p = Pile(st, sc, n + 2)
    PROVE  /\ List(p) /\ Len(p) = Len(st) + n + 2 /\ Len(st) \in Nat
           /\ p[Len(st) + n + 2] = Num(n) /\ p[Len(st) + 1] = Num(m)
           /\ \A j \in 1 .. Len(st) : p[j] = st[j]
           /\ \A b \in 1 .. n : p[Len(st) + n + 2 - b] = sc[n + 2 - b][2]
<1> DEFINE L == Len(st)
<1>1. n \in Nat /\ m \in Nat /\ n >= 1 /\ n + 2 \in Nat /\ L \in Nat
  <2>1. n \in 1 .. 16 /\ m \in 1 .. n
    BY MultiNumbers
  <2>2. L \in Nat
    BY ListIs
  <2>3. QED
    BY <2>1, <2>2
<1>2. /\ List(p) /\ Len(p) = L + (n + 2)
      /\ \A j \in 1 .. L : p[j] = st[j]
      /\ \A j \in 1 .. n + 2 : p[L + j] = Value(sc[j])
  BY <1>1, PileIs
<1> HIDE DEF L
<1>3. L + (n + 2) = L + n + 2 /\ n + 2 \in 1 .. n + 2 /\ 1 \in 1 .. n + 2
  BY <1>1
<1>4. p[L + (n + 2)] = Num(n)
  BY <1>2, <1>3 DEF Value, MultiScript
<1>5. p[L + 1] = Num(m)
  BY <1>2, <1>3 DEF Value, MultiScript
<1>6. ASSUME NEW b \in 1 .. n PROVE p[L + n + 2 - b] = sc[n + 2 - b][2]
  <2> DEFINE j == n + 2 - b
  <2>1. j \in 1 .. n + 2 /\ j \in 2 .. n + 1 /\ L + n + 2 - b = L + j
    BY <1>1
  <2> HIDE DEF j
  <2>2. p[L + j] = Value(sc[j]) /\ sc[j][1] = "PUSH"
    BY <1>2, <2>1 DEF MultiScript
  <2>3. QED
    BY <2>1, <2>2 DEF Value, j
<1>7. QED
  BY <1>1, <1>2, <1>3, <1>4, <1>5, <1>6 DEF L

\* And what _CheckMultiSig reads of it.
LEMMA MultiReads ==
    ASSUME NEW F, NEW c, NEW st, NEW n, NEW m, MultiFrame(c, st, n, m)
    PROVE  /\ At(F, c)!KeysCount = n /\ At(F, c)!SigsCount = m
           /\ At(F, c)!MultiSigSize = n + m + 3
           /\ At(F, c)!MultiSigMalformed <=> Len(st) < m + 1
           /\ Len(st) >= m + 1 =>
                 /\ At(F, c)!Keys = KeysOf(c.script, n)
                 /\ At(F, c)!Sigs = SigsOf(st, m)
                 /\ At(F, c)!Top(n + m + 3) = st[Len(st) - m]
<1> DEFINE p == c.stack
           L == Len(st)
           sc == c.script
<1>1. /\ List(st) /\ MultiScript(sc, n, m) /\ p = Pile(st, sc, n + 2)
      /\ Usual(c) /\ c.nOpCount = 0
  BY DEF MultiFrame
<1>2. /\ n \in 1 .. 16 /\ m \in 1 .. n
      /\ IsBigNum(Num(n)) /\ IsBigNum(Num(m))
      /\ BigNum(Num(n)) = n /\ BigNum(Num(m)) = m
  BY <1>1, MultiNumbers
<1>3. /\ List(p) /\ Len(p) = L + n + 2 /\ L \in Nat
      /\ p[L + n + 2] = Num(n) /\ p[L + 1] = Num(m)
      /\ \A j \in 1 .. L : p[j] = st[j]
      /\ \A b \in 1 .. n : p[L + n + 2 - b] = sc[n + 2 - b][2]
  <2> HIDE DEF p, sc
  <2>1. List(p) /\ Len(p) = L + n + 2 /\ L \in Nat
    BY ONLY <1>1, MultiStack
  <2>2. p[L + n + 2] = Num(n) /\ p[L + 1] = Num(m)
    BY ONLY <1>1, MultiStack
  <2>3. \A j \in 1 .. L : p[j] = st[j]
    <3>1. n + 2 \in Nat
      BY <1>2
    <3>2. QED
      BY <1>1, <3>1, PileIs
  <2>4. \A b \in 1 .. n : p[L + n + 2 - b] = sc[n + 2 - b][2]
    BY ONLY <1>1, MultiStack
  <2>5. QED
    BY <2>1, <2>2, <2>3, <2>4
<1>4. \A k : At(F, c)!Top(k) = p[Len(p) + 1 - k]
  BY <1>1, UsualReads
<1>5. \A k : At(F, c)!Has(k) <=> Len(p) >= k
  BY NamedAt
<1>6. n \in 0 .. MaxKeys /\ MaxOps \in Nat /\ 0 + 1 + n <= MaxOps
  BY <1>1, <1>2, LimitsHoldUsualScripts, LimitsAre DEF MultiScript
<1> HIDE DEF p, L, sc
<1>7. At(F, c)!Top(1) = Num(n) /\ At(F, c)!Top(n + 2) = Num(m)
  <2>1. Len(p) + 1 - 1 = L + n + 2 /\ Len(p) + 1 - (n + 2) = L + 1
    BY <1>2, <1>3
  <2>2. QED
    BY <1>3, <1>4, <2>1
<1>8. At(F, c)!KeysCount = n
  BY <1>2, <1>7, SameElements DEF At!KeysCount
<1>9. At(F, c)!SigsCount = m
  BY <1>2, <1>7, <1>8, SameElements DEF At!SigsCount
<1>10. At(F, c)!MultiSigSize = n + m + 3
  BY <1>8, <1>9 DEF At!MultiSigSize
<1>11. At(F, c)!MultiSigMalformed <=> L < m + 1
  <2>1. /\ At(F, c)!Has(1) /\ At(F, c)!Has(n + 2)
        /\ At(F, c)!Has(n + m + 3) <=> ~(L < m + 1)
    <3>1. Len(p) >= 1 /\ Len(p) >= n + 2
      <4>1. Len(p) = L + n + 2 /\ L \in Nat
        BY <1>3
      <4>2. n \in Nat
        BY <1>2
      <4>3. QED
        BY ONLY <4>1, <4>2
    <3>2. Len(p) >= n + m + 3 <=> ~(L < m + 1)
      <4>1. Len(p) = L + n + 2 /\ L \in Nat /\ n \in Nat /\ m \in Nat
        BY <1>2, <1>3
      <4>2. QED
        BY ONLY <4>1
    <3>3. QED
      BY <1>5, <3>1, <3>2
  <2>2. /\ At(F, c)!IsBigNum(At(F, c)!Top(1))
        /\ At(F, c)!IsBigNum(At(F, c)!Top(n + 2))
    BY <1>2, <1>7, SameElements
  <2>3. m \in 0 .. n
    BY <1>2
  <2>4. QED
    BY <1>1, <1>6, <1>8, <1>9, <1>10, <2>1, <2>2, <2>3 DEF At!MultiSigMalformed
<1>12. ASSUME L >= m + 1
       PROVE  /\ At(F, c)!Keys = KeysOf(sc, n)
              /\ At(F, c)!Sigs = SigsOf(st, m)
              /\ At(F, c)!Top(n + m + 3) = st[L - m]
  <2>1. ASSUME NEW b \in 1 .. n PROVE At(F, c)!Top(1 + b) = sc[n + 2 - b][2]
    <3>1. Len(p) + 1 - (1 + b) = L + n + 2 - b
      BY <1>2, <1>3
    <3>2. QED
      BY <1>3, <1>4, <3>1
  <2>2. ASSUME NEW a \in 1 .. m PROVE At(F, c)!Top(n + 2 + a) = st[L + 1 - a]
    <3>1. Len(p) + 1 - (n + 2 + a) = L + 1 - a /\ L + 1 - a \in 1 .. L
      BY <1>2, <1>3, <1>12
    <3>2. QED
      BY <1>3, <1>4, <3>1
  <2>3. At(F, c)!Top(n + m + 3) = st[L - m]
    <3>1. Len(p) + 1 - (n + m + 3) = L - m /\ L - m \in 1 .. L
      BY <1>2, <1>3, <1>12
    <3>2. QED
      BY <1>3, <1>4, <3>1
  <2>4. At(F, c)!Keys = [b \in 1 .. n |-> At(F, c)!Top(1 + b)]
    BY <1>8 DEF At!Keys
  <2>5. At(F, c)!Sigs = [a \in 1 .. m |-> At(F, c)!Top(n + 2 + a)]
    BY <1>8, <1>9 DEF At!Sigs
  <2>6. At(F, c)!Keys = KeysOf(sc, n)
    BY <2>1, <2>4 DEF KeysOf
  <2>7. At(F, c)!Sigs = SigsOf(st, m)
    BY <2>2, <2>5 DEF SigsOf, L
  <2>8. QED
    BY <2>3, <2>6, <2>7
<1>13. QED
  BY <1>8, <1>9, <1>10, <1>11, <1>12 DEF L, sc

\* The signatures that a script with m of n keys asks for, in the order in
\* which they are tried.
Signatures(sc, st, n, m, sp) ==
    /\ Len(st) = m + 1 /\ st[1] = Zero
    /\ \E b \in [1 .. m -> 1 .. n] :
          /\ Rising(b)
          /\ \A a \in 1 .. m : SignedBy(SigsOf(st, m)[a], KeysOf(sc, n)[b[a]], sp)

\* And in the order of the script.
InOrder(sc, st, n, m, sp) ==
    /\ Len(st) = m + 1 /\ st[1] = Zero
    /\ \E by \in [1 .. m -> 2 .. n + 1] :
          /\ \A i, j \in DOMAIN by : i < j => by[i] < by[j]
          /\ \A i \in 1 .. m : SignedBy(st[i + 1], sc[by[i]][2], sp)

LEMMA SameSignatures ==
    ASSUME NEW sc, NEW st, NEW n \in Nat, NEW m \in Nat, NEW sp
    PROVE  /\ InOrder(sc, st, n, m, sp) => Signatures(sc, st, n, m, sp)
           /\ Signatures(sc, st, n, m, sp) => InOrder(sc, st, n, m, sp)
<1>1. ASSUME InOrder(sc, st, n, m, sp) PROVE Signatures(sc, st, n, m, sp)
  <2>1. PICK by \in [1 .. m -> 2 .. n + 1] :
           /\ \A i, j \in DOMAIN by : i < j => by[i] < by[j]
           /\ \A i \in 1 .. m : SignedBy(st[i + 1], sc[by[i]][2], sp)
    BY <1>1 DEF InOrder
  <2> DEFINE b == [a \in 1 .. m |-> n + 2 - by[m + 1 - a]]
  <2>2. ASSUME NEW a \in 1 .. m
        PROVE  /\ m + 1 - a \in 1 .. m /\ b[a] = n + 2 - by[m + 1 - a]
               /\ by[m + 1 - a] \in 2 .. n + 1 /\ b[a] \in 1 .. n
               /\ n + 2 - b[a] = by[m + 1 - a]
    <3>1. m + 1 - a \in 1 .. m
      OBVIOUS
    <3>2. by[m + 1 - a] \in 2 .. n + 1 /\ b[a] = n + 2 - by[m + 1 - a]
      BY <3>1
    <3> HIDE DEF b
    <3>3. QED
      BY <3>1, <3>2
  <2>3. b \in [1 .. m -> 1 .. n]
    BY <2>2
  <2>4. DOMAIN b = 1 .. m /\ DOMAIN by = 1 .. m
    OBVIOUS
  <2> HIDE DEF b
  <2>5. Rising(b)
    <3> SUFFICES ASSUME NEW i \in 1 .. m, NEW j \in 1 .. m, i < j
                 PROVE  b[i] < b[j]
      BY <2>4 DEF Rising
    <3>1. m + 1 - j < m + 1 - i
      OBVIOUS
    <3>2. by[m + 1 - j] < by[m + 1 - i]
      BY <2>1, <2>2, <2>4, <3>1
    <3>3. QED
      BY <2>2, <3>2
  <2>6. ASSUME NEW a \in 1 .. m, Len(st) = m + 1
        PROVE  SignedBy(SigsOf(st, m)[a], KeysOf(sc, n)[b[a]], sp)
    <3> DEFINE i == m + 1 - a
    <3>1. i \in 1 .. m /\ Len(st) + 1 - a = i + 1
      BY <2>6
    <3>2. SigsOf(st, m)[a] = st[i + 1]
      BY <3>1 DEF SigsOf
    <3>3. KeysOf(sc, n)[b[a]] = sc[by[i]][2]
      BY <2>2 DEF KeysOf
    <3> HIDE DEF i
    <3>4. QED
      BY <2>1, <3>1, <3>2, <3>3
  <2>7. QED
    BY <1>1, <2>3, <2>5, <2>6 DEF Signatures, InOrder
<1>2. ASSUME Signatures(sc, st, n, m, sp) PROVE InOrder(sc, st, n, m, sp)
  <2>1. PICK b \in [1 .. m -> 1 .. n] :
           /\ Rising(b)
           /\ \A a \in 1 .. m : SignedBy(SigsOf(st, m)[a], KeysOf(sc, n)[b[a]], sp)
    BY <1>2 DEF Signatures
  <2> DEFINE by == [i \in 1 .. m |-> n + 2 - b[m + 1 - i]]
  <2>2. ASSUME NEW i \in 1 .. m
        PROVE  /\ m + 1 - i \in 1 .. m /\ by[i] = n + 2 - b[m + 1 - i]
               /\ b[m + 1 - i] \in 1 .. n /\ by[i] \in 2 .. n + 1
    <3>1. m + 1 - i \in 1 .. m
      OBVIOUS
    <3>2. b[m + 1 - i] \in 1 .. n /\ by[i] = n + 2 - b[m + 1 - i]
      BY <3>1
    <3> HIDE DEF by
    <3>3. QED
      BY <3>1, <3>2
  <2>3. by \in [1 .. m -> 2 .. n + 1]
    BY <2>2
  <2>4. DOMAIN b = 1 .. m /\ DOMAIN by = 1 .. m
    OBVIOUS
  <2> HIDE DEF by
  <2>5. ASSUME NEW i \in 1 .. m, NEW j \in 1 .. m, i < j
        PROVE  by[i] < by[j]
    <3>1. m + 1 - j < m + 1 - i
      BY <2>5
    <3>2. b[m + 1 - j] < b[m + 1 - i]
      BY <2>1, <2>2, <2>4, <3>1 DEF Rising
    <3>3. QED
      BY <2>2, <3>2
  <2>6. ASSUME NEW i \in 1 .. m, Len(st) = m + 1
        PROVE  SignedBy(st[i + 1], sc[by[i]][2], sp)
    <3> DEFINE a == m + 1 - i
    <3>1. a \in 1 .. m /\ Len(st) + 1 - a = i + 1
      BY <2>6
    <3>2. SigsOf(st, m)[a] = st[i + 1]
      BY <3>1 DEF SigsOf
    <3>3. KeysOf(sc, n)[b[a]] = sc[by[i]][2]
      BY <2>2 DEF KeysOf
    <3> HIDE DEF a
    <3>4. QED
      BY <2>1, <3>1, <3>2, <3>3
  <2>7. QED
    BY <1>2, <2>3, <2>4, <2>5, <2>6 DEF Signatures, InOrder
<1>3. QED
  BY <1>1, <1>2

\* What the signatures sign where each of them is one.
LEMMA MultiHash ==
    ASSUME NEW F, NEW c, NEW st, NEW n, NEW m, MultiFrame(c, st, n, m),
           Len(st) >= m + 1, \A a \in 1 .. m : SigsOf(st, m)[a][1] = "sig"
    PROVE  At(F, c)!MultiSigHash = <<VersionIn(c.phase), c.script>>
<1> DEFINE sigs == SigsOf(st, m)
           sc == c.script
           all == {sigs[a] : a \in DOMAIN sigs}
<1>1. At(F, c)!Sigs = sigs /\ MultiScript(sc, n, m) /\ Usual(c)
  BY MultiReads DEF MultiFrame
<1>2. At(F, c)!MultiSigHash = At(F, c)!Sighash(all)
  BY <1>1 DEF At!MultiSigHash
<1>3. \A e \in all : e[1] = "sig"
  BY DEF SigsOf
<1>4. n \in Nat /\ Len(sc) = n + 3
  BY <1>1, MultiNumbers DEF MultiScript
<1> HIDE DEF sigs, all, sc
<1>5. Whole(sc, all)
  <2> SUFFICES ASSUME NEW k \in 1 .. n + 3
               PROVE  /\ sc[k] # <<"CODESEPARATOR">>
                      /\ \A s \in all : sc[k] # <<"PUSH", s>>
    BY <1>4 DEF Whole
  <2>1. CASE k \in 2 .. n + 1
    <3>1. sc[k][1] = "PUSH" /\ sc[k][2][1] = "key"
      BY <1>1, <2>1 DEF MultiScript
    <3>2. sc[k] # <<"CODESEPARATOR">>
      BY <3>1
    <3>3. ASSUME NEW s \in all PROVE sc[k] # <<"PUSH", s>>
      BY <1>3, <3>1
    <3>4. QED
      BY <3>2, <3>3
  <2>2. CASE k = 1 \/ k = n + 2
    <3>1. sc[k][1] = "NUM"
      BY <1>1, <2>2 DEF MultiScript
    <3>2. QED
      BY <3>1
  <2>3. CASE k = n + 3
    <3>1. sc[k][1] = "CHECKMULTISIG"
      BY <1>1, <2>3 DEF MultiScript
    <3>2. QED
      BY <3>1
  <2>4. QED
    BY <1>4, <2>1, <2>2, <2>3
<1>6. c.pbegincodehash = 1 /\ List(sc) /\ c.script = sc
  BY <1>1 DEF Usual, Plain, Frame, sc
<1>7. At(F, c)!Sighash(all) = <<VersionIn(c.phase), sc>>
  BY <1>5, <1>6, SighashAt
<1>8. QED
  BY <1>2, <1>7 DEF sc

\* Where the operation raises under the flags used by default.
LEMMA MultiRaises ==
    ASSUME NEW c, NEW st, NEW n, NEW m, MultiFrame(c, st, n, m),
           Len(st) >= m + 1, NEW done, At(StandardFlags, c)!MultiSig = done
    PROVE  At(StandardFlags, c)!OpRaises <=>
             \/ \E t \in done.tried :
                   At(StandardFlags, c)!CheckSigRaises(t[1], t[2])
             \/ done.failed /\ \E a \in 1 .. m : SigsOf(st, m)[a] # Zero
             \/ st[Len(st) - m] # Zero
<1> DEFINE F == StandardFlags
           sigs == SigsOf(st, m)
<1>1. /\ ~At(F, c)!MultiSigMalformed /\ At(F, c)!Sigs = sigs
      /\ At(F, c)!Top(n + m + 3) = st[Len(st) - m]
      /\ At(F, c)!MultiSigSize = n + m + 3
  <2>1. Len(st) \in Nat /\ m \in Nat
    BY ListIs, MultiNumbers DEF MultiFrame
  <2>2. ~(Len(st) < m + 1)
    BY <2>1
  <2>3. QED
    BY <2>2, MultiReads
<1>2. "NULLFAIL" \in F /\ "NULLDUMMY" \in F
  BY DEF StandardFlags
<1>3. At(F, c)!Name = "CHECKMULTISIG" /\ List(c.stack)
  BY UsualReads DEF MultiFrame, MultiScript
<1>4. DOMAIN sigs = 1 .. m /\ At(F, c)!Zero = Zero
  BY SameElements DEF SigsOf
<1>5. At(F, c)!OpRaises <=> At(F, c)!MultiSigRaises
  BY <1>3, RaisesAt DEF UsualNames
<1> HIDE DEF F, sigs
<1>6. At(F, c)!MultiSig = done
  BY DEF F
<1>7. At(F, c)!MultiSigRaises <=>
             \/ \E t \in done.tried : At(F, c)!CheckSigRaises(t[1], t[2])
             \/ done.failed /\ \E a \in 1 .. m : sigs[a] # Zero
             \/ st[Len(st) - m] # Zero
  BY <1>1, <1>2, <1>3, <1>4, <1>6 DEF At!MultiSigRaises
<1>8. QED
  BY <1>5, <1>7 DEF F, sigs

\* The walk succeeds where the signatures are there, and only there.
LEMMA MultiWalks ==
    ASSUME NEW c, NEW st, NEW n, NEW m, MultiFrame(c, st, n, m),
           Len(st) >= m + 1, \A j \in 1 .. Len(st) : IsTuple(st[j]),
           NEW sp, sp.script = c.script, sp.ver = VersionIn(c.phase),
           \A b \in 1 .. n : UsualKey(KeysOf(c.script, n)[b], sp.ver),
           NEW done, At(StandardFlags, c)!MultiSig = done
    PROVE  /\ done.failed \in BOOLEAN
           /\ Signatures(c.script, st, n, m, sp) =>
                 ~done.failed /\ ~At(StandardFlags, c)!OpRaises
           /\ /\ ~done.failed /\ ~At(StandardFlags, c)!OpRaises
              /\ Len(st) = m + 1
              => Signatures(c.script, st, n, m, sp)
<1> DEFINE F == StandardFlags
           sigs == SigsOf(st, m)
           keys == KeysOf(c.script, n)
           hash == At(F, c)!MultiSigHash
           raises(sig, key) == At(F, c)!CheckSigRaises(sig, key)
<1>1. n \in Nat /\ m \in Nat /\ m \in 1 .. n /\ Len(st) \in Nat
  <2>1. MultiScript(c.script, n, m) /\ List(st)
    BY DEF MultiFrame
  <2>2. n \in 1 .. 16 /\ m \in 1 .. n
    BY <2>1, MultiNumbers
  <2>3. QED
    BY <2>1, <2>2, ListIs
<1>2. PICK w : IsWalk(w, sigs, keys, m, n, hash) /\ done = w[n]
  <2>1. At(F, c)!KeysCount = n /\ At(F, c)!SigsCount = m
    BY MultiReads
  <2>2. At(F, c)!Sigs = sigs /\ At(F, c)!Keys = keys
    BY MultiReads
  <2>3. At(F, c)!MultiSigHash = hash
    OBVIOUS
  <2> HIDE DEF sigs, keys, hash
  <2>4. \E w : IsWalk(w, sigs, keys, m, n, hash) /\ At(F, c)!MultiSig = w[n]
    BY <1>1, <2>1, <2>2, <2>3, MultiSigAt
  <2>5. QED
    BY <2>4
<1>3. At(F, c)!OpRaises <=>
             \/ \E t \in done.tried : raises(t[1], t[2])
             \/ done.failed /\ \E a \in 1 .. m : sigs[a] # Zero
             \/ st[Len(st) - m] # Zero
  BY MultiRaises
<1>4. (\A a \in 1 .. m : sigs[a][1] = "sig") => hash = <<sp.ver, sp.script>>
  BY MultiHash
<1>5. \A a \in 1 .. m : IsTuple(sigs[a])
  <2> SUFFICES ASSUME NEW a \in 1 .. m PROVE IsTuple(sigs[a])
    OBVIOUS
  <2>1. Len(st) + 1 - a \in 1 .. Len(st)
    BY <1>1
  <2>2. QED
    BY <2>1 DEF SigsOf
<1>6. n \in 0 .. n
  BY <1>1
<1>7. /\ done.failed \in BOOLEAN
      /\ \A t \in done.tried :
            \E a \in 1 .. m, b \in 1 .. n : t = <<sigs[a], keys[b]>>
  <2> HIDE DEF sigs, keys, hash
  <2>1. Walked(w[n], sigs, keys, m, n)
    BY <1>1, <1>2, <1>6, WalkType
  <2>2. QED
    BY <1>2, <2>1 DEF Walked
<1>8. \A sig, key : raises(sig, key) <=>
             /\ sig # Zero
             /\ ~(/\ sig[1] = "sig" /\ sig[4] = "lowS" /\ UsualKey(key, sp.ver))
  BY StandardRaises
<1>9. \A b \in 1 .. n : UsualKey(keys[b], sp.ver)
  OBVIOUS
<1>10. ASSUME NEW sig, IsTuple(sig), NEW key, hash = <<sp.ver, sp.script>>
       PROVE  /\ SignedBy(sig, key, sp) => CheckSig(sig, key, hash)
              /\ CheckSig(sig, key, hash) /\ ~raises(sig, key)
                 => SignedBy(sig, key, sp)
  <2> HIDE DEF hash
  <2>1. QED
    BY <1>10, StandardSigned
<1> HIDE DEF sigs, keys, hash, raises
<1>11. ASSUME Signatures(c.script, st, n, m, sp)
       PROVE  ~done.failed /\ ~At(F, c)!OpRaises
  <2>1. PICK b \in [1 .. m -> 1 .. n] :
           Rising(b) /\ \A a \in 1 .. m : SignedBy(sigs[a], keys[b[a]], sp)
    BY <1>11 DEF Signatures, sigs, keys
  <2>2. ASSUME NEW a \in 1 .. m
        PROVE  sigs[a][1] = "sig" /\ sigs[a][4] = "lowS"
    <3> DEFINE key == keys[b[a]]
    <3>1. sigs[a] = <<"sig", key[2], <<sp.ver, sp.script>>, "lowS">>
      BY <2>1 DEF SignedBy
    <3> HIDE DEF key
    <3>2. QED
      BY <3>1
  <2>3. hash = <<sp.ver, sp.script>>
    BY <1>4, <2>2
  <2>4. Matching(b, sigs, keys, hash)
    <3> SUFFICES ASSUME NEW a \in 1 .. m PROVE CheckSig(sigs[a], keys[b[a]], hash)
      BY DEF Matching
    <3>1. SignedBy(sigs[a], keys[b[a]], sp) /\ IsTuple(sigs[a])
      BY <1>5, <2>1
    <3>2. QED
      BY <1>10, <2>3, <3>1
  <2>5. ~done.failed
    BY <1>1, <1>2, <2>1, <2>4, WalkComplete
  <2>6. ASSUME NEW t \in done.tried PROVE ~raises(t[1], t[2])
    <3>1. PICK a \in 1 .. m : \E b2 \in 1 .. n : t = <<sigs[a], keys[b2]>>
      BY <1>7
    <3>2. PICK b2 \in 1 .. n : t = <<sigs[a], keys[b2]>>
      BY <3>1
    <3>3. t[1] = sigs[a] /\ t[2] = keys[b2]
      BY <3>2
    <3>4. QED
      BY <1>8, <1>9, <2>2, <3>3
  <2>7. st[Len(st) - m] = Zero
    <3>1. Len(st) - m = 1
      BY <1>1, <1>11 DEF Signatures
    <3>2. QED
      BY <1>11, <3>1 DEF Signatures
  <2>8. QED
    BY <1>3, <2>5, <2>6, <2>7
<1>12. ASSUME ~done.failed, ~At(F, c)!OpRaises, Len(st) = m + 1
       PROVE  Signatures(c.script, st, n, m, sp)
  <2>1. ~w[n].failed
    BY <1>2, <1>12
  <2>2. PICK b \in [1 .. m -> 1 .. n] :
              /\ Rising(b) /\ Matching(b, sigs, keys, hash)
              /\ \A j \in 1 .. m : <<sigs[j], keys[b[j]]>> \in w[n].tried
    BY <1>1, <1>2, <2>1, WalkSound
  <2>3. ASSUME NEW a \in 1 .. m
        PROVE  CheckSig(sigs[a], keys[b[a]], hash) /\ ~raises(sigs[a], keys[b[a]])
    <3> DEFINE t == <<sigs[a], keys[b[a]]>>
    <3>1. t \in done.tried /\ t[1] = sigs[a] /\ t[2] = keys[b[a]]
      BY <1>2, <2>2
    <3> HIDE DEF t
    <3>2. ~raises(t[1], t[2])
      BY <1>3, <1>12, <3>1
    <3>3. CheckSig(sigs[a], keys[b[a]], hash)
      BY <2>2 DEF Matching
    <3>4. QED
      BY <3>1, <3>2, <3>3
  <2>4. hash = <<sp.ver, sp.script>>
    <3>1. \A a \in 1 .. m : sigs[a][1] = "sig"
      BY <2>3 DEF CheckSig
    <3>2. QED
      BY <1>4, <3>1
  <2>5. ASSUME NEW a \in 1 .. m PROVE SignedBy(sigs[a], keys[b[a]], sp)
    <3>1. IsTuple(sigs[a])
      BY <1>5
    <3>2. CheckSig(sigs[a], keys[b[a]], hash) /\ ~raises(sigs[a], keys[b[a]])
      BY <2>3
    <3>3. QED
      BY <1>10, <2>4, <3>1, <3>2
  <2>6. st[1] = Zero
    <3>1. Len(st) - m = 1
      BY <1>1, <1>12
    <3>2. st[Len(st) - m] = Zero
      BY <1>3, <1>12
    <3>3. QED
      BY <3>1, <3>2
  <2>7. QED
    BY <1>12, <2>2, <2>5, <2>6 DEF Signatures, sigs, keys
<1>13. QED
  BY <1>7, <1>11, <1>12

\* What follows the operation.
LEMMA MultiGoes ==
    ASSUME NEW i, NEW c, NEW st, NEW n, NEW m, MultiFrame(c, st, n, m),
           NEW done, At(StandardFlags, c)!MultiSig = done,
           Len(st) >= m + 1
    PROVE  /\ List(SubSeq(st, 1, Len(st) - (m + 1)))
           /\ Outcome(StandardFlags, i, c) =
                IF At(StandardFlags, c)!OpRaises THEN Refused
                ELSE Onward(c, Append(SubSeq(st, 1, Len(st) - (m + 1)),
                                      Bool(~done.failed)), n + 1)
<1> DEFINE F == StandardFlags
           low == SubSeq(st, 1, Len(st) - (m + 1))
           b == Bool(~done.failed)
           under == Below(c, n + m + 3)
           left == under \o <<b>>
           p == c.stack
           sc == c.script
<1>1. /\ n \in Nat /\ m \in Nat /\ n >= 1 /\ List(st) /\ Len(st) \in Nat
      /\ Usual(c) /\ c.nOpCount = 0 /\ MultiScript(sc, n, m)
      /\ p = Pile(st, sc, n + 2)
  <2>1. /\ List(st) /\ Usual(c) /\ c.nOpCount = 0 /\ MultiScript(sc, n, m)
        /\ p = Pile(st, sc, n + 2)
    BY DEF MultiFrame
  <2> HIDE DEF p, sc
  <2>2. n \in 1 .. 16 /\ m \in 1 .. n
    BY <2>1, MultiNumbers
  <2>3. n \in Nat /\ m \in Nat /\ n >= 1
    BY ONLY <2>2
  <2>4. Len(st) \in Nat
    BY <2>1, ListIs
  <2>5. QED
    BY <2>1, <2>3, <2>4
<1>2. NameIn(c) = "CHECKMULTISIG"
  <2>1. NameIn(c) = sc[c.pc][1] /\ c.pc = n + 3
    BY <1>1, UsualReads DEF MultiFrame
  <2>2. QED
    BY <1>1, <2>1 DEF MultiScript
<1>3. /\ List(p) /\ Len(p) = Len(st) + n + 2
      /\ \A j \in 1 .. Len(st) : p[j] = st[j]
  <2> HIDE DEF p, sc
  <2>1. List(p) /\ Len(p) = Len(st) + n + 2
    <3>1. MultiScript(sc, n, m) /\ List(st) /\ p = Pile(st, sc, n + 2)
      BY <1>1
    <3>2. QED
      BY ONLY <3>1, MultiStack
  <2>2. \A j \in 1 .. Len(st) : p[j] = st[j]
    <3>1. n + 2 \in Nat
      BY <1>1
    <3>2. QED
      BY <1>1, <3>1, PileIs
  <2>3. QED
    BY <2>1, <2>2
<1>4. List(low) /\ Len(low) = Len(st) - (m + 1)
      /\ \A j \in 1 .. Len(st) - (m + 1) : low[j] = st[j]
  <2>1. Len(st) - (m + 1) \in 0 .. Len(st)
    BY <1>1
  <2>2. QED
    BY <1>1, <2>1, ListStart
<1>5. under = low
  <2>1. Len(p) - (n + m + 3) = Len(st) - (m + 1)
    BY <1>1, <1>3
  <2>2. under = SubSeq(p, 1, Len(st) - (m + 1))
    BY <1>1, <2>1, UsualReads
  <2> DEFINE k == Len(st) - (m + 1)
  <2>3. k \in 0 .. Len(p) /\ k \in 0 .. Len(st)
    BY <1>1, <1>3
  <2>4. Len(low) = k /\ \A j \in 1 .. k : low[j] = st[j]
    BY <1>4
  <2>5. under = SubSeq(p, 1, k)
    BY <2>2
  <2>6. \A j \in 1 .. k : j \in 1 .. Len(st)
    BY <1>1, <2>3
  <2> HIDE DEF under, low, k, p
  <2>7. List(under) /\ Len(under) = k /\ \A j \in 1 .. k : under[j] = p[j]
    BY <1>3, <2>3, <2>5, ListStart
  <2>8. \A j \in 1 .. Len(under) : under[j] = low[j]
    BY <1>3, <2>4, <2>6, <2>7
  <2>9. QED
    BY <1>4, <2>4, <2>7, <2>8, ListsEqual
<1>6. low \o <<b>> = Append(low, b) /\ List(Append(low, b))
  <2> HIDE DEF low, b
  <2> DEFINE one == <<b>>
             x == low \o one
             y == Append(low, b)
  <2>1. List(one) /\ Len(one) = 1 /\ one[1] = b
    <3>1. one \in Seq({b}) /\ Len(one) = 1 /\ one[1] = b
      OBVIOUS
    <3>2. QED
      BY <3>1 DEF List
  <2>2. List(low) /\ Len(low) \in Nat
    BY <1>4, ListIs
  <2>3. /\ List(y) /\ Len(y) = Len(low) + 1 /\ y[Len(low) + 1] = b
        /\ \A j \in 1 .. Len(low) : y[j] = low[j]
    BY <2>2, ListAppend
  <2> HIDE DEF one, y
  <2>4. List(x) /\ Len(x) = Len(low) + Len(one)
    BY ONLY <2>1, <2>2, ListJoin
  <2>5. \A j \in 1 .. Len(low) : x[j] = low[j]
    BY ONLY <2>1, <2>2, ListJoin
  <2>6. \A j \in 1 .. Len(one) : x[Len(low) + j] = one[j]
    BY ONLY <2>1, <2>2, ListJoin
  <2> HIDE DEF x
  <2>7. ASSUME NEW j \in 1 .. Len(x) PROVE x[j] = y[j]
    <3>1. CASE j <= Len(low)
      <4>1. j \in 1 .. Len(low)
        BY <2>2, <3>1
      <4>2. QED
        BY <2>3, <2>5, <4>1
    <3>2. CASE ~(j <= Len(low))
      <4>1. j = Len(low) + 1 /\ 1 \in 1 .. Len(one)
        BY <2>1, <2>2, <2>4, <3>2
      <4>2. x[Len(low) + 1] = one[1]
        BY <2>6, <4>1
      <4>3. QED
        BY <2>1, <2>3, <4>1, <4>2
    <3>3. QED
      BY <3>1, <3>2
  <2>8. Len(x) = Len(y)
    BY <2>1, <2>2, <2>3, <2>4
  <2>9. x = y
    BY <2>3, <2>4, <2>7, <2>8, ListsEqual
  <2>10. QED
    BY <2>3, <2>9 DEF x, y, one
<1>7. /\ CountIn(c) = 0 + 1
      /\ Outcome(F, i, c) = IF At(F, c)!OpRaises THEN Refused ELSE After(c)
  <2>1. c.nOpCount + 1 <= MaxOps
    BY <1>1, LimitsHoldUsualScripts, LimitsAre
  <2>2. QED
    BY <1>1, <1>2, <2>1, CountedAt DEF UsualNames
<1>8. After(c) = Onward(c, left, n + 1)
  <2>1. At({}, c)!MultiSigSize = n + m + 3 /\ At({}, c)!KeysCount = n
    BY MultiReads
  <2>2. At({}, c)!MultiSig = done
    BY FlagsOnlyRaise
  <2>3. After(c) = Left(c, left, c.altstack, c.vfExec, c.pbegincodehash,
                        CountIn(c) + n)
    BY <1>2, <2>1, <2>2 DEF After
  <2>4. CountIn(c) + n = n + 1
    BY <1>1, <1>7
  <2>5. List(left)
    BY <1>5, <1>6
  <2> HIDE DEF left
  <2>6. QED
    BY <1>1, <2>3, <2>4, <2>5, UsualLeft
<1>9. left = Append(low, b)
  BY <1>5, <1>6
<1> HIDE DEF F, left, low, b
<1>10. Outcome(F, i, c) = IF At(F, c)!OpRaises THEN Refused
                          ELSE Onward(c, Append(low, b), n + 1)
  BY <1>7, <1>8, <1>9
<1>11. QED
  BY <1>4, <1>10 DEF F, low, b

\* A script with some of several keys has that shape.
LEMMA MultiShape ==
    ASSUME NEW sp, List(sp.script), OpsAreTuples(sp.script), IsMultiSigScript(sp),
           NEW n, n = Len(sp.script) - 3, NEW m, m = sp.script[1][2]
    PROVE  /\ MultiScript(sp.script, n, m)
           /\ \A b \in 1 .. n : UsualKey(KeysOf(sp.script, n)[b], sp.ver)
           /\ \A j \in 1 .. n + 2 : /\ sp.script[j][1] \in {"PUSH", "NUM"}
                                    /\ sp.script[j][1] = "PUSH" =>
                                          Size(sp.script[j][2]) <= 65
<1> DEFINE sc == sp.script
<1>1. Len(sc) \in Nat /\ MaxKeys \in Nat
  BY ListIs, LimitsAre
<1>2. /\ n \in 1 .. MaxKeys
      /\ \A j \in 2 .. n + 1 : sc[j][1] = "PUSH" /\ UsualKey(sc[j][2], sp.ver)
      /\ sc[1] \in {<<"NUM", k>> : k \in 1 .. n}
      /\ sc[n + 2] = <<"NUM", n>> /\ sc[n + 3] = <<"CHECKMULTISIG">>
  BY DEF IsMultiSigScript
<1>3. PICK k \in 1 .. n : sc[1] = <<"NUM", k>>
  BY <1>2
<1>4. k = m
  BY <1>3
<1>5. Len(sc) = n + 3
  BY <1>1
<1>6. \A j \in 2 .. n + 1 : sc[j][2][1] = "key" /\ Size(sc[j][2]) <= 65
  <2> SUFFICES ASSUME NEW j \in 2 .. n + 1
               PROVE  sc[j][2][1] = "key" /\ Size(sc[j][2]) <= 65
    OBVIOUS
  <2>1. sc[j][2][1] = "key"
    BY <1>2 DEF UsualKey
  <2>2. QED
    BY <2>1 DEF Size
<1>7. MultiScript(sc, n, m)
  BY <1>2, <1>3, <1>4, <1>5, <1>6 DEF MultiScript
<1>8. ASSUME NEW b \in 1 .. n PROVE UsualKey(KeysOf(sc, n)[b], sp.ver)
  <2>1. n + 2 - b \in 2 .. n + 1 /\ KeysOf(sc, n)[b] = sc[n + 2 - b][2]
    BY <1>2 DEF KeysOf
  <2>2. QED
    BY <1>2, <2>1
<1>9. ASSUME NEW j \in 1 .. n + 2
      PROVE  /\ sc[j][1] \in {"PUSH", "NUM"}
             /\ sc[j][1] = "PUSH" => Size(sc[j][2]) <= 65
  <2>1. j = 1 \/ j \in 2 .. n + 1 \/ j = n + 2
    BY <1>2
  <2>2. CASE j = 1
    BY <1>3, <2>2
  <2>3. CASE j \in 2 .. n + 1
    BY <1>2, <1>6, <2>3
  <2>4. CASE j = n + 2
    BY <1>2, <2>4
  <2>5. QED
    BY <2>1, <2>2, <2>3, <2>4
<1>10. QED
  BY <1>7, <1>8, <1>9

\* A script with some of several keys.
LEMMA MultiEnds ==
    ASSUME NEW i, NEW ph \in ScriptPhases, NEW sc, List(sc), OpsAreTuples(sc),
           NEW st, List(st), NEW copy, NEW sp, sp.script = sc, sp.with = st,
           sp.ver = VersionIn(ph), IsMultiSigScript(sp),
           \A j \in 1 .. Len(st) : IsTuple(st[j]),
           Gets(i, Entered(ph, sc, st, copy)),
           NEW n, n = Len(sc) - 3, NEW m, m = sc[1][2]
    PROVE  /\ InOrder(sc, st, n, m, sp) => Good(i, ph, sc, copy)
           /\ ~InOrder(sc, st, n, m, sp) => Bad(i, ph, sc, copy)
<1> DEFINE p == Pile(st, sc, n + 2)
           c == Plain(ph, sc, n + 3, p, 0, copy)
           F == StandardFlags
<1>1. /\ MultiScript(sc, n, m)
      /\ \A b \in 1 .. n : UsualKey(KeysOf(sc, n)[b], sp.ver)
      /\ \A j \in 1 .. n + 2 : /\ sc[j][1] \in {"PUSH", "NUM"}
                               /\ sc[j][1] = "PUSH" => Size(sc[j][2]) <= 65
  BY MultiShape
<1>2. n \in 1 .. 16 /\ m \in 1 .. n
  BY <1>1, MultiNumbers
<1>3. Len(st) \in Nat /\ Len(sc) = n + 3 /\ n <= MaxKeys
  BY <1>1, ListIs, LimitsAre DEF MultiScript
<1>4. /\ MaxScript >= MaxKeys + 4 /\ MaxStack >= 2 * MaxKeys + 3
      /\ MaxElement >= 100
      /\ {MaxScript, MaxElement, MaxStack, MaxKeys} \subseteq Nat
  BY LimitsHoldUsualScripts, LimitsAre
<1>5. n \in Nat /\ m \in Nat
  BY <1>2
<1>6. Len(sc) <= MaxScript
  BY <1>3, <1>4, <1>5
<1>7. \/ Gets(i, Plain(ph, sc, n + 3, p, 0, copy))
      \/ Gets(i, Refused) /\ ~Room(sc, st, n + 2)
  <2> DEFINE K == n + 2
  <2>1. /\ K \in 0 .. Len(sc) /\ K + 1 = n + 3
        /\ \A j \in 1 .. K : sc[j][1] \in {"PUSH", "NUM"}
    BY <1>1, <1>3, <1>5
  <2> HIDE DEF K
  <2>2. \/ Gets(i, Plain(ph, sc, K + 1, Pile(st, sc, K), 0, copy))
        \/ Gets(i, Refused) /\ ~Room(sc, st, K)
    BY <2>1, PushRun DEF Gets
  <2>3. QED
    BY <2>1, <2>2 DEF K
<1>8. ~Room(sc, st, n + 2) => Len(st) # m + 1
  <2>1. \A j \in 1 .. n + 2 : sc[j][1] = "PUSH" => Size(sc[j][2]) <= MaxElement
    <3> SUFFICES ASSUME NEW j \in 1 .. n + 2, sc[j][1] = "PUSH"
                 PROVE  Size(sc[j][2]) <= MaxElement
      OBVIOUS
    <3>1. Size(sc[j][2]) <= 65
      BY <1>1
    <3>2. sc[j][2][1] = "key"
      <4>1. j \in 2 .. n + 1
        <5>1. sc[1] = <<"NUM", m>> /\ sc[n + 2] = <<"NUM", n>>
          BY <1>1 DEF MultiScript
        <5>2. sc[1][1] = "NUM" /\ sc[n + 2][1] = "NUM"
          BY <5>1
        <5>3. j # 1 /\ j # n + 2
          BY <5>2
        <5>4. QED
          BY <1>5, <5>3
      <4>2. QED
        BY <1>1, <4>1 DEF MultiScript
    <3>3. Size(sc[j][2]) \in Nat
      BY <3>2 DEF Size
    <3>4. QED
      BY <1>4, <3>1, <3>3
  <2>2. Len(st) = m + 1 => Len(st) + (n + 2) <= MaxStack
    <3>1. /\ n \in Nat /\ m \in Nat /\ MaxKeys \in Nat /\ MaxStack \in Nat
          /\ m <= n /\ n <= MaxKeys /\ MaxStack >= 2 * MaxKeys + 3
          /\ Len(st) \in Nat
      BY <1>2, <1>3, <1>4, <1>5
    <3>2. QED
      BY ONLY <3>1
  <2>3. QED
    BY <1>6, <2>1, <2>2 DEF Room
<1>9. CASE Gets(i, Refused) /\ ~Room(sc, st, n + 2)
  BY <1>8, <1>9 DEF InOrder, Bad
<1>10. CASE Gets(i, Plain(ph, sc, n + 3, p, 0, copy))
  <2>1. /\ Usual(c) /\ c.stack = p /\ c.nOpCount = 0 /\ c.script = sc
        /\ c.pc = n + 3 /\ c.phase = ph
        /\ \A s, k : Onward(c, s, k) = PlainNext(ph, sc, n + 3, s, k, copy)
    <3> DEFINE at == n + 3
    <3>1. at \in 1 .. Len(sc) /\ 0 \in Nat
      BY <1>3, <1>5
    <3>2. List(p)
      <4>1. n + 2 \in Nat
        BY <1>5
      <4>2. QED
        BY <4>1, PileIs
    <3>3. c = Plain(ph, sc, at, p, 0, copy) /\ at = n + 3
      OBVIOUS
    <3> HIDE DEF at, p, c
    <3>4. QED
      BY <1>6, <3>1, <3>2, <3>3, PlainUsual
  <2>2. MultiFrame(c, st, n, m)
    BY <1>1, <2>1 DEF MultiFrame
  <2>3. Gets(i, Outcome(F, i, c))
    BY <1>10, ReachesNext DEF Gets
  <2> DEFINE done == At(F, c)!MultiSig
             fails == At(F, c)!OpRaises
             k == Len(st) - (m + 1)
             low == SubSeq(st, 1, k)
  <2> HIDE DEF c
  <2>4. CASE Len(st) < m + 1
    <3>1. At(F, c)!MultiSigMalformed
      <4>1. At(F, c)!MultiSigMalformed <=> Len(st) < m + 1
        BY ONLY <2>2, MultiReads
      <4>2. QED
        BY <2>4, <4>1
    <3>2. NameIn(c) = "CHECKMULTISIG" /\ At(F, c)!Name = "CHECKMULTISIG"
      <4>1. NameIn(c) = sc[n + 3][1] /\ At(F, c)!Name = sc[n + 3][1]
        BY <2>1, UsualReads
      <4>2. QED
        BY <1>1, <4>1 DEF MultiScript
    <3>3. At(F, c)!OpRaises
      <4>1. List(c.stack)
        BY <2>1 DEF Usual
      <4>2. At(F, c)!MultiSigRaises
        BY <3>1 DEF At!MultiSigRaises
      <4>3. QED
        BY <3>2, <4>1, <4>2, RaisesAt DEF UsualNames
    <3>4. Outcome(F, i, c) = Refused
      <4>1. c.nOpCount + 1 <= MaxOps
        BY <2>1, LimitsHoldUsualScripts, LimitsAre
      <4>2. QED
        BY <2>1, <3>2, <3>3, <4>1, CountedAt DEF UsualNames
    <3>5. Len(st) # m + 1
      BY <1>3, <1>5, <2>4
    <3>6. QED
      BY <2>3, <3>4, <3>5 DEF Bad, InOrder
  <2>5. CASE ~(Len(st) < m + 1)
    <3>0. Len(st) >= m + 1 /\ k \in Nat /\ (k = 0 <=> Len(st) = m + 1)
      BY <1>3, <1>5, <2>5
    <3>1. /\ done.failed \in BOOLEAN
          /\ Signatures(sc, st, n, m, sp) => ~done.failed /\ ~fails
          /\ ~done.failed /\ ~fails /\ Len(st) = m + 1
             => Signatures(sc, st, n, m, sp)
      <4>1. /\ \A j \in 1 .. Len(st) : IsTuple(st[j])
            /\ sp.script = c.script /\ sp.ver = VersionIn(c.phase)
            /\ \A b \in 1 .. n : UsualKey(KeysOf(c.script, n)[b], sp.ver)
            /\ At(F, c)!MultiSig = done /\ c.script = sc
        BY <1>1, <2>1
      <4> HIDE DEF done
      <4>2. done.failed \in BOOLEAN
        BY ONLY <2>2, <3>0, <4>1, MultiWalks
      <4>3. Signatures(c.script, st, n, m, sp) => ~done.failed /\ ~fails
        BY ONLY <2>2, <3>0, <4>1, MultiWalks
      <4>4. ~done.failed /\ ~fails /\ Len(st) = m + 1
            => Signatures(c.script, st, n, m, sp)
        BY ONLY <2>2, <3>0, <4>1, MultiWalks
      <4>5. QED
        BY <4>1, <4>2, <4>3, <4>4
    <3>2. List(low) /\ Outcome(F, i, c) =
             IF fails THEN Refused
             ELSE Onward(c, Append(low, Bool(~done.failed)), n + 1)
      <4>1. At(F, c)!MultiSig = done
        OBVIOUS
      <4> HIDE DEF done
      <4>2. List(SubSeq(st, 1, Len(st) - (m + 1)))
        BY ONLY <2>2, <3>0, <4>1, MultiGoes
      <4>3. Outcome(F, i, c) =
             IF fails THEN Refused
             ELSE Onward(c, Append(SubSeq(st, 1, Len(st) - (m + 1)),
                                   Bool(~done.failed)), n + 1)
        BY ONLY <2>2, <3>0, <4>1, MultiGoes
      <4>4. QED
        BY <4>2, <4>3
    <3>3. InOrder(sc, st, n, m, sp) <=> Signatures(sc, st, n, m, sp)
      BY <1>5, SameSignatures
    <3>4. Len(low) = k
      <4>1. k \in 0 .. Len(st)
        BY <1>3, <1>5, <3>0
      <4>2. QED
        BY <4>1, ListStart
    <3> DEFINE e == Bool(~done.failed)
               a == Append(low, e)
    <3>5. List(a) /\ Len(a) = Len(low) + 1 /\ a[Len(low) + 1] = e
      <4>1. List(low)
        BY <3>2
      <4> HIDE DEF low, e
      <4>2. QED
        BY <4>1, ListAppend
    <3>6. (done.failed => e = Zero) /\ (~done.failed => e = Num(1))
      BY <3>1 DEF Bool, Num, Zero
    <3>7. CASE fails
      BY <2>3, <3>1, <3>2, <3>3, <3>7 DEF Bad
    <3>8. CASE ~fails
      <4>1. Gets(i, PlainNext(ph, sc, n + 3, a, n + 1, copy))
        BY <2>1, <2>3, <3>2, <3>8
      <4>2. n + 3 + 1 = Len(sc) + 1
        BY <1>3, <1>5
      <4>3. CASE Signatures(sc, st, n, m, sp)
        <5>1. ~done.failed /\ Len(st) = m + 1
          BY <3>1, <4>3 DEF Signatures
        <5>2. e = Num(1) /\ Len(low) = 0
          BY <3>0, <3>4, <3>6, <5>1
        <5> HIDE DEF e, low
        <5>3. a = <<Num(1)>>
          BY <3>2, <5>2, AppendedOne
        <5>4. ~(Len(<<Num(1)>>) > MaxStack)
          BY <1>4, OneTrue
        <5> HIDE DEF a
        <5>5. Gets(i, Plain(ph, sc, Len(sc) + 1, <<Num(1)>>, n + 1, copy))
          BY <4>1, <4>2, <5>3, <5>4 DEF PlainNext
        <5>6. Good(i, ph, sc, copy)
          BY <5>5 DEF Good
        <5>7. QED
          BY <3>3, <4>3, <5>6
      <4>4. CASE ~Signatures(sc, st, n, m, sp)
        <5>1. ~(Len(a) = 1 /\ CastToBool(a[1]))
          <6>1. CASE done.failed
            <7>1. e = Zero
              BY <3>6, <6>1
            <7>2. Len(a) = 1 => a[1] = Zero
              <8> HIDE DEF a, e, low, done, k
              <8>1. Len(a) = 1 => Len(low) + 1 = 1
                BY <3>5
              <8>2. QED
                BY <3>5, <7>1, <8>1
            <7> HIDE DEF a
            <7>3. QED
              BY <7>2, OneTrue
          <6>2. CASE ~done.failed
            <7>1. Len(st) # m + 1
              BY <3>1, <3>8, <4>4, <6>2
            <7>2. k # 0
              BY <3>0, <7>1
            <7> HIDE DEF a, e, low, k
            <7>3. Len(a) # 1
              BY <3>0, <3>4, <3>5, <7>2
            <7>4. QED
              BY <7>3
          <6>3. QED
            BY <6>1, <6>2
        <5> HIDE DEF a
        <5>2. CASE Len(a) > MaxStack
          BY <3>3, <4>1, <4>4, <5>2 DEF PlainNext, Bad
        <5>3. CASE ~(Len(a) > MaxStack)
          <6>1. Gets(i, Plain(ph, sc, Len(sc) + 1, a, n + 1, copy))
            BY <4>1, <4>2, <5>3 DEF PlainNext
          <6>2. Bad(i, ph, sc, copy)
            BY <3>5, <5>1, <6>1 DEF Bad
          <6>3. QED
            BY <3>3, <4>4, <6>2
        <5>4. QED
          BY <5>2, <5>3
      <4>5. QED
        BY <4>3, <4>4
    <3>9. QED
      BY <3>7, <3>8
  <2>6. QED
    BY <2>4, <2>5
<1>11. QED
  BY <1>7, <1>9, <1>10

UsualScript(sp) == IsKeyScript(sp) \/ IsKeyHashScript(sp) \/ IsMultiSigScript(sp)

\* What satisfies it is those signatures, in order.
LEMMA MultiSatisfied ==
    ASSUME NEW sp, List(sp.script), List(sp.with), OpsAreTuples(sp.script),
           IsMultiSigScript(sp), NEW n, n = Len(sp.script) - 3,
           NEW m, m = sp.script[1][2]
    PROVE  /\ Satisfied(sp) <=> InOrder(sp.script, sp.with, n, m, sp)
           /\ ~IsKeyScript(sp) /\ ~IsKeyHashScript(sp)
<1> DEFINE sc == sp.script
           st == sp.with
<1>1. MultiScript(sc, n, m)
  BY MultiShape
<1>2. n \in Nat /\ m \in Nat /\ n >= 1 /\ Len(st) \in Nat /\ Len(sc) = n + 3
  BY <1>1, MultiNumbers, ListIs DEF MultiScript
<1>3. ~IsKeyScript(sp)
  <2>1. Len(sp.script) = n + 3 /\ n \in Nat /\ n >= 1
    BY <1>2
  <2>2. Len(sp.script) # 2
    BY <2>1
  <2>3. QED
    BY <2>2 DEF IsKeyScript
<1>4. ~IsKeyHashScript(sp)
  <2>1. sc[1][1] = "NUM"
    BY <1>1 DEF MultiScript
  <2>2. sc = KeyHashScript(sc[3][2]) => sc[1] = <<"DUP">>
    BY DEF KeyHashScript
  <2>3. QED
    BY <2>1, <2>2 DEF IsKeyHashScript
<1>5. 1 + m = m + 1 /\ Len(sc) - 2 = n + 1
  BY <1>2
<1>6. Len(st) = m + 1 => Len(st) - 1 = m
  BY <1>2
<1>7. Satisfied(sp) <=>
        /\ Len(st) = m + 1 /\ st[1] = Zero
        /\ \E by \in [1 .. Len(st) - 1 -> 2 .. Len(sc) - 2] :
             /\ \A i, j \in DOMAIN by : i < j => by[i] < by[j]
             /\ \A i \in DOMAIN by : SignedBy(st[i + 1], sc[by[i]][2], sp)
  BY <1>3, <1>4, <1>5 DEF Satisfied
<1>8. \A by : by \in [1 .. m -> 2 .. n + 1] => DOMAIN by = 1 .. m
  OBVIOUS
<1> HIDE DEF sc, st
<1>9. Satisfied(sp) <=> InOrder(sc, st, n, m, sp)
  <2>1. CASE Len(st) = m + 1
    <3>1. Satisfied(sp) <=>
            /\ st[1] = Zero
            /\ \E by \in [1 .. m -> 2 .. n + 1] :
                 /\ \A i, j \in DOMAIN by : i < j => by[i] < by[j]
                 /\ \A i \in DOMAIN by : SignedBy(st[i + 1], sc[by[i]][2], sp)
      BY <1>5, <1>6, <1>7, <2>1
    <3>2. QED
      BY <1>8, <2>1, <3>1 DEF InOrder
  <2>2. CASE Len(st) # m + 1
    BY <1>7, <2>2 DEF InOrder
  <2>3. QED
    BY <2>1, <2>2
<1>10. QED
  BY <1>3, <1>4, <1>9 DEF sc, st

\* Each usual script ends well where it is satisfied, and badly elsewhere.
LEMMA EvalUsual ==
    ASSUME NEW i, NEW ph \in ScriptPhases, NEW sc, List(sc), OpsAreTuples(sc),
           NEW st, List(st), NEW copy, NEW sp, sp.script = sc, sp.with = st,
           sp.ver = VersionIn(ph), UsualScript(sp),
           \A j \in 1 .. Len(st) : IsTuple(st[j]),
           Gets(i, Entered(ph, sc, st, copy))
    PROVE  /\ Satisfied(sp) => Good(i, ph, sc, copy)
           /\ ~Satisfied(sp) => Bad(i, ph, sc, copy)
<1>1. CASE IsMultiSigScript(sp)
  <2> DEFINE n == Len(sc) - 3
             m == sc[1][2]
  <2>1. n = Len(sp.script) - 3 /\ m = sp.script[1][2]
    OBVIOUS
  <2> HIDE DEF n, m
  <2>2. Satisfied(sp) <=> InOrder(sp.script, sp.with, n, m, sp)
    BY <1>1, <2>1, MultiSatisfied
  <2>3. n = Len(sc) - 3 /\ m = sc[1][2]
    BY <2>1
  <2>4. InOrder(sc, st, n, m, sp) => Good(i, ph, sc, copy)
    BY <1>1, <2>3, MultiEnds
  <2>5. ~InOrder(sc, st, n, m, sp) => Bad(i, ph, sc, copy)
    BY <1>1, <2>3, MultiEnds
  <2>6. QED
    BY <2>2, <2>4, <2>5
<1>2. CASE IsKeyScript(sp) /\ ~IsMultiSigScript(sp)
  <2>1. ~IsKeyHashScript(sp)
    BY <1>2 DEF IsKeyScript, IsKeyHashScript
  <2>2. Satisfied(sp) <=> Len(st) = 1 /\ SignedBy(st[1], sc[1][2], sp)
    BY <1>2, <2>1 DEF Satisfied
  <2>3. Len(st) = 1 /\ SignedBy(st[1], sc[1][2], sp) => Good(i, ph, sc, copy)
    BY <1>2, KeyEnds
  <2>4. ~(Len(st) = 1 /\ SignedBy(st[1], sc[1][2], sp)) => Bad(i, ph, sc, copy)
    BY <1>2, KeyEnds
  <2>5. QED
    BY <2>2, <2>3, <2>4
<1>3. CASE IsKeyHashScript(sp) /\ ~IsMultiSigScript(sp)
  <2> DEFINE ok == /\ Len(st) = 2 /\ sc[3][2] = <<"hash", "HASH160", st[2]>>
                   /\ SignedBy(st[1], st[2], sp)
  <2>1. ~IsKeyScript(sp)
    BY <1>3 DEF IsKeyScript, IsKeyHashScript
  <2>2. Satisfied(sp) <=> ok
    BY <1>3, <2>1 DEF Satisfied
  <2>3. ok => Good(i, ph, sc, copy)
    BY <1>3, KeyHashEnds
  <2>4. ~ok => Bad(i, ph, sc, copy)
    BY <1>3, KeyHashEnds
  <2>5. QED
    BY <2>2, <2>3, <2>4
<1>4. QED
  BY <1>1, <1>2, <1>3 DEF UsualScript

-----------------------------------------------------------------------------
(* From the end of a script to the answer.                                   *)

EndOf(F, i, ph, c) ==
    IF ph = "scriptSig" THEN Entered("scriptPubKey", i.pub, c.stack, c.stack)
    ELSE IF ph = "scriptPubKey" THEN PubKeyEnd(F, i, c)
    ELSE IF ph = "redeemScript" THEN RedeemEnd(F, i, c)
    ELSE WitnessEnd(F, i, c)

\* A script outside of conditionals ends there.
LEMMA EndAt ==
    ASSUME NEW F, NEW i, NEW ph \in ScriptPhases, NEW sc, List(sc), NEW st,
           NEW n, NEW copy, NEW c, c = Plain(ph, sc, Len(sc) + 1, st, n, copy)
    PROVE  /\ Outcome(F, i, c) = EndOf(F, i, ph, c)
           /\ c.stack = st /\ c.script = sc /\ c.stackCopy = copy
<1>1. /\ c.phase = ph /\ c.script = sc /\ c.pc = Len(sc) + 1 /\ c.vfExec = <<>>
      /\ c.stack = st /\ c.stackCopy = copy
  BY DEF Plain, Frame
<1>2. ~(Len(sc) + 1 <= Len(sc))
  BY ListIs
<1>3. QED
  BY <1>1, <1>2 DEF Outcome, EndOf, ScriptPhases

\* What the end of a script looks at, and the flags it looks at.
LEMMA TrueAt ==
    ASSUME NEW c, NEW st, List(st), c.stack = st
    PROVE  TrueIn(c) <=> Len(st) >= 1 /\ CastToBool(st[Len(st)])
<1>1. Len(st) \in Nat /\ (Len(st) = 0 <=> st = <<>>)
  BY ListIs
<1>2. Last(st) = st[Len(st)]
  BY DEF Last
<1>3. QED
  BY <1>1, <1>2 DEF TrueIn

LEMMA StandardHas ==
    /\ {"P2SH", "CLEANSTACK", "WITNESS", "DISCOURAGE_UPGRADABLE_WITNESS_PROGRAM"}
          \subseteq StandardFlags
    /\ StandardFlags \cap Unhandled = {}
BY DEF StandardFlags, Unhandled

LEMMA ConcludedStandard ==
    ASSUME NEW i, NEW st, NEW had, had \in BOOLEAN
    PROVE  Concluded(StandardFlags, i, st, had) =
             IF Len(st) = 1 /\ (had \/ i.wit = <<>>) THEN Ended("ok") ELSE Refused
BY StandardHas DEF Concluded

\* The last script of an input: what it leaves is the answer.
IsLast(i, ph, sc) ==
    \/ ph = "witness"
    \/ /\ ph = "redeemScript" /\ ~IsWitnessScriptPubKey(sc) /\ i.wit = <<>>
    \/ /\ ph = "scriptPubKey" /\ ~IsWitnessScriptPubKey(i.pub)
       /\ ~IsP2SH(i.pub) /\ i.wit = <<>>

LEMMA LastAnswers ==
    ASSUME NEW i, NEW ph \in ScriptPhases, NEW sc, List(sc), IsLast(i, ph, sc),
           NEW st, List(st), NEW n, NEW copy
    PROVE  Outcome(StandardFlags, i, Plain(ph, sc, Len(sc) + 1, st, n, copy)) =
             IF Len(st) = 1 /\ CastToBool(st[1]) THEN Ended("ok") ELSE Refused
<1> DEFINE c == Plain(ph, sc, Len(sc) + 1, st, n, copy)
           F == StandardFlags
<1>1. Outcome(F, i, c) = EndOf(F, i, ph, c) /\ c.stack = st /\ c.script = sc
  BY EndAt
<1> HIDE DEF c
<1>2. TrueIn(c) <=> Len(st) >= 1 /\ CastToBool(st[Len(st)])
  BY <1>1, TrueAt
<1>3. Len(st) \in Nat
  BY ListIs
<1>4. /\ Concluded(F, i, st, TRUE) = IF Len(st) = 1 THEN Ended("ok") ELSE Refused
      /\ i.wit = <<>> => Concluded(F, i, st, FALSE) =
                           IF Len(st) = 1 THEN Ended("ok") ELSE Refused
  BY ConcludedStandard
<1>5. "WITNESS" \in F /\ "P2SH" \in F
  BY StandardHas
<1> HIDE DEF F
<1>6. EndOf(F, i, ph, c) = IF Len(st) = 1 /\ TrueIn(c) THEN Ended("ok") ELSE Refused
  <2>1. CASE ph = "witness"
    BY <1>1, <1>4, <2>1 DEF EndOf, WitnessEnd
  <2>2. CASE ph = "redeemScript"
    BY <1>1, <1>4, <2>2 DEF EndOf, RedeemEnd, IsLast
  <2>3. CASE ph = "scriptPubKey"
    BY <1>1, <1>4, <2>3 DEF EndOf, PubKeyEnd, IsLast
  <2>4. QED
    BY <2>1, <2>2, <2>3 DEF IsLast
<1>7. Len(st) = 1 /\ TrueIn(c) <=> Len(st) = 1 /\ CastToBool(st[1])
  BY <1>2, <1>3
<1>8. QED
  BY <1>1, <1>6, <1>7 DEF c, F

\* The answer to an input whose last script is a usual one.
LEMMA UsualAnswers ==
    ASSUME NEW i, NEW ph \in ScriptPhases, NEW sc, List(sc), OpsAreTuples(sc),
           NEW st, List(st), NEW copy, NEW sp, sp.script = sc, sp.with = st,
           sp.ver = VersionIn(ph), UsualScript(sp),
           \A j \in 1 .. Len(st) : IsTuple(st[j]),
           IsLast(i, ph, sc), Gets(i, Entered(ph, sc, st, copy))
    PROVE  /\ Satisfied(sp) => Gets(i, Ended("ok"))
           /\ ~Satisfied(sp) => Gets(i, Refused)
<1>1. ASSUME Satisfied(sp) PROVE Gets(i, Ended("ok"))
  <2>1. Good(i, ph, sc, copy)
    BY <1>1, EvalUsual
  <2>2. PICK n : Gets(i, Plain(ph, sc, Len(sc) + 1, <<Num(1)>>, n, copy))
    BY <2>1 DEF Good
  <2>3. Outcome(StandardFlags, i, Plain(ph, sc, Len(sc) + 1, <<Num(1)>>, n, copy))
        = Ended("ok")
    BY LastAnswers, OneTrue
  <2>4. QED
    BY <2>2, <2>3, ReachesOutcome DEF Gets
<1>2. ASSUME ~Satisfied(sp) PROVE Gets(i, Refused)
  <2>1. Bad(i, ph, sc, copy)
    BY <1>2, EvalUsual
  <2>2. CASE \E n, s : /\ List(s) /\ ~(Len(s) = 1 /\ CastToBool(s[1]))
                       /\ Gets(i, Plain(ph, sc, Len(sc) + 1, s, n, copy))
    <3>1. PICK n : \E s : /\ List(s) /\ ~(Len(s) = 1 /\ CastToBool(s[1]))
                          /\ Gets(i, Plain(ph, sc, Len(sc) + 1, s, n, copy))
      BY <2>2
    <3>2. PICK s : /\ List(s) /\ ~(Len(s) = 1 /\ CastToBool(s[1]))
                   /\ Gets(i, Plain(ph, sc, Len(sc) + 1, s, n, copy))
      BY <3>1
    <3>3. Outcome(StandardFlags, i, Plain(ph, sc, Len(sc) + 1, s, n, copy)) = Refused
      BY <3>2, LastAnswers
    <3>4. QED
      BY <3>2, <3>3, ReachesOutcome DEF Gets
  <2>3. QED
    BY <2>1, <2>2 DEF Bad
<1>3. QED
  BY <1>1, <1>2

-----------------------------------------------------------------------------
(* The inputs, and what satisfies a script.                                  *)

\* An element of a known form, which may be run as a script.
Runs(e) == IsTuple(e) /\ List(ScriptOf(e)) /\ OpsAreTuples(ScriptOf(e))

\* A script of sized operations is a list.
LEMMA SizedList == ASSUME NEW s, SizedScript(s) PROVE List(s)
BY DEF SizedScript, List

\* What is pushed, and what the witness holds, is such an element.
LEMMA RunsElement == ASSUME NEW e, IsTuple(e), Readable(e) PROVE Runs(e)
<1>1. List(ScriptOf(e))
  BY SizedList DEF Readable
<1>2. OpsAreTuples(ScriptOf(e))
  <2>1. CASE e = Zero
    <3>1. ScriptOf(e) = <<>>
      BY <2>1 DEF ScriptOf
    <3>2. QED
      BY <3>1 DEF OpsAreTuples, ToSet
  <2>2. CASE e # Zero /\ e[1] = "script"
    BY <2>2 DEF ScriptOf, IsTuple
  <2>3. CASE e # Zero /\ e[1] # "script"
    <3>1. ScriptOf(e) = <<<<"TRUNCATED">>>>
      BY <2>3 DEF ScriptOf
    <3>2. \A o \in ToSet(<<<<"TRUNCATED">>>>) : o[1] = "TRUNCATED"
      BY DEF ToSet
    <3>3. QED
      BY <3>1, <3>2 DEF OpsAreTuples
  <2>4. QED
    BY <2>1, <2>2, <2>3
<1>3. QED
  BY <1>1, <1>2 DEF Runs

LEMMA RunsNum == ASSUME NEW k PROVE Runs(Num(k))
<1>1. Readable(Num(k))
  BY NumFits
<1>2. IsTuple(Num(k))
  BY DEF IsTuple, Num
<1>3. QED
  BY <1>1, <1>2, RunsElement

\* An input, spelled out.
LEMMA InputIs ==
    ASSUME NEW i \in Inputs
    PROVE  /\ List(i.sig) /\ List(i.pub) /\ List(i.wit)
           /\ OpsAreTuples(i.sig) /\ OpsAreTuples(i.pub)
           /\ \A j \in 1 .. Len(i.wit) : Runs(i.wit[j])
<1>1. /\ SizedScript(i.sig) /\ SizedScript(i.pub)
      /\ i.wit \in Seq(ToSet(i.wit))
      /\ \A e \in ToSet(i.wit) : Readable(e)
      /\ OpsAreTuples(i.sig) /\ OpsAreTuples(i.pub)
      /\ \A e \in ToSet(i.wit) : IsTuple(e)
  BY InputsAreScripts, InputsAreTuples
<1>2. List(i.sig) /\ List(i.pub) /\ List(i.wit)
  BY <1>1, SizedList DEF List
<1>3. ASSUME NEW j \in 1 .. Len(i.wit) PROVE Runs(i.wit[j])
  <2>1. j \in DOMAIN i.wit
    BY <1>2, ListIs
  <2>2. i.wit[j] \in ToSet(i.wit)
    BY <2>1 DEF ToSet
  <2>3. QED
    BY <1>1, <2>2, RunsElement
<1>4. QED
  BY <1>1, <1>2, <1>3

\* What scriptSig pushes.
LEMMA PushedIs ==
    ASSUME NEW i \in Inputs, OnlyData(i.sig), NEW with, with = Pushed(i.sig)
    PROVE  /\ List(with) /\ Len(with) = Len(i.sig) /\ Len(with) \in Nat
           /\ \A j \in 1 .. Len(i.sig) :
                 /\ i.sig[j][1] \in {"PUSH", "NUM"}
                 /\ with[j] = Value(i.sig[j]) /\ Runs(with[j])
           /\ Pile(<<>>, i.sig, Len(i.sig)) = with
<1> DEFINE s == i.sig
<1>1. List(s) /\ Len(s) \in Nat /\ DOMAIN s = 1 .. Len(s) /\ OpsAreTuples(s)
      /\ \A o \in ToSet(s) : o[1] = "PUSH" => Readable(o[2]) /\ IsTuple(o[2])
  BY InputIs, ListIs, InputsAreScripts, InputsAreTuples
<1>2. with = [j \in 1 .. Len(s) |-> Value(s[j])]
  BY <1>1 DEF Pushed, Value
<1>3. \A j \in 1 .. Len(s) : s[j][1] \in {"PUSH", "NUM"}
  BY <1>1 DEF OnlyData
<1> HIDE DEF s
<1>4. DOMAIN with = 1 .. Len(s) /\ with = [j \in 1 .. Len(s) |-> with[j]]
  BY <1>2
<1>5. List(with) /\ Len(with) = Len(s)
  BY <1>1, <1>4, ListMade
<1>6. ASSUME NEW j \in 1 .. Len(s) PROVE with[j] = Value(s[j]) /\ Runs(with[j])
  <2>1. with[j] = Value(s[j])
    BY <1>2
  <2>2. s[j] \in ToSet(s)
    BY <1>1 DEF ToSet
  <2>3. CASE s[j][1] = "PUSH"
    <3>1. Readable(s[j][2]) /\ IsTuple(s[j][2]) /\ with[j] = s[j][2]
      BY <1>1, <2>1, <2>2, <2>3 DEF Value
    <3>2. QED
      BY <2>1, <3>1, RunsElement
  <2>4. CASE s[j][1] # "PUSH"
    <3>1. with[j] = Num(s[j][2])
      BY <2>1, <2>4 DEF Value
    <3>2. QED
      BY <2>1, <3>1, RunsNum
  <2>5. QED
    BY <2>3, <2>4
<1>7. Pile(<<>>, s, Len(s)) = with
  <2> DEFINE p == Pile(<<>>, s, Len(s))
  <2>1. List(<<>>) /\ Len(<<>>) = 0
    <3>1. <<>> \in Seq({})
      OBVIOUS
    <3>2. QED
      BY <3>1 DEF List
  <2>2. /\ List(p) /\ Len(p) = Len(<<>>) + Len(s)
        /\ \A j \in 1 .. Len(s) : p[Len(<<>>) + j] = Value(s[j])
    BY <1>1, <2>1, PileIs
  <2> HIDE DEF p
  <2>3. Len(p) = Len(s) /\ \A j \in 1 .. Len(s) : p[j] = Value(s[j])
    <3>1. \A j \in 1 .. Len(s) : Len(<<>>) + j = j
      BY <2>1
    <3>2. QED
      BY <1>1, <2>1, <2>2, <3>1
  <2>4. p = with
    BY <1>5, <1>6, <2>2, <2>3, ListsEqual
  <2>5. QED
    BY <2>4 DEF p
<1>8. QED
  BY <1>1, <1>3, <1>5, <1>6, <1>7 DEF s

\* An element that holds a script of two operations or more is that script.
LEMMA ScriptElement ==
    ASSUME NEW e, Runs(e), Len(ScriptOf(e)) >= 2
    PROVE  /\ e[1] = "script" /\ e[2] = ScriptOf(e) /\ Size(e) = 100
           /\ ElementOf(ScriptOf(e)) = e /\ e # Zero
<1>1. e # Zero
  <2>1. e = Zero => Len(ScriptOf(e)) = 0
    BY DEF ScriptOf
  <2>2. QED
    BY <2>1
<1>2. e[1] = "script"
  <2>1. SUFFICES ASSUME e[1] # "script" PROVE FALSE
    OBVIOUS
  <2>2. ScriptOf(e) = <<<<"TRUNCATED">>>>
    BY <1>1, <2>1 DEF ScriptOf
  <2> DEFINE one == ScriptOf(e)
  <2>3. Len(one) = 1
    BY ONLY <2>2
  <2>4. QED
    BY <2>3
<1>3. e[2] = ScriptOf(e)
  BY <1>1, <1>2 DEF ScriptOf
<1>4. e[2] # <<>> /\ e = <<"script", e[2]>>
  BY <1>2 DEF Runs, IsTuple
<1>5. Size(e) = 100
  BY <1>2 DEF Size
<1>6. ElementOf(ScriptOf(e)) = e
  BY <1>3, <1>4 DEF ElementOf
<1>7. QED
  BY <1>1, <1>2, <1>3, <1>5, <1>6

\* What satisfies a usual script is within the limits.
LEMMA SatisfiedFits ==
    ASSUME NEW sp, List(sp.script), List(sp.with), OpsAreTuples(sp.script),
           UsualScript(sp), Satisfied(sp)
    PROVE  /\ Len(sp.script) >= 2 /\ Len(sp.with) <= MaxKeys + 1
           /\ Len(sp.with) \in Nat
           /\ \A j \in 1 .. Len(sp.with) : Size(sp.with[j]) \in 0 .. 71
<1> DEFINE st == sp.with
           sc == sp.script
<1>1. Len(st) \in Nat /\ MaxKeys \in Nat /\ MaxKeys >= 1 /\ Len(sc) \in Nat
  BY ListIs, LimitsAre, LimitsHoldUsualScripts
<1>2. ASSUME NEW e, NEW k, SignedBy(e, k, sp) PROVE Size(e) = 71
  <2>1. e[1] = "sig"
    BY <1>2 DEF SignedBy
  <2>2. QED
    BY <2>1 DEF Size
<1>3. CASE IsMultiSigScript(sp)
  <2> DEFINE n == Len(sp.script) - 3
             m == sp.script[1][2]
  <2>1. n = Len(sp.script) - 3 /\ m = sp.script[1][2]
    OBVIOUS
  <2> HIDE DEF n, m
  <2>2. InOrder(sc, st, n, m, sp)
    BY <1>3, <2>1, MultiSatisfied
  <2>3. MultiScript(sc, n, m)
    BY <1>3, <2>1, MultiShape
  <2>4. n \in Nat /\ m \in Nat /\ m <= n /\ n <= MaxKeys /\ Len(sc) = n + 3
    BY <1>1, <2>3, MultiNumbers DEF MultiScript
  <2>5. Len(st) = m + 1 /\ st[1] = Zero
    BY <2>2 DEF InOrder
  <2>6. PICK by \in [1 .. m -> 2 .. n + 1] :
           \A j \in 1 .. m : SignedBy(st[j + 1], sc[by[j]][2], sp)
    BY <2>2 DEF InOrder
  <2>7. ASSUME NEW j \in 1 .. Len(st) PROVE Size(st[j]) \in 0 .. 71
    <3>1. CASE j = 1
      <4>1. Size(st[j]) = 0
        BY <2>5, <3>1 DEF Size, NumSize, Zero
      <4>2. QED
        BY <4>1
    <3>2. CASE j # 1
      <4> DEFINE x == j - 1
      <4>1. x \in 1 .. m /\ x + 1 = j
        BY <2>4, <2>5, <3>2
      <4> HIDE DEF x
      <4>2. Size(st[x + 1]) = 71
        BY <1>2, <2>6, <4>1
      <4>3. Size(st[j]) = 71
        BY <4>1, <4>2
      <4>4. QED
        BY <4>3
    <3>3. QED
      BY <3>1, <3>2
  <2>8. Len(sc) >= 2 /\ Len(st) <= MaxKeys + 1
    <3>1. Len(sc) = n + 3 /\ Len(st) = m + 1
      BY <2>4, <2>5
    <3> HIDE DEF sc, st
    <3>2. QED
      BY <1>1, <2>4, <3>1
  <2>9. QED
    BY <1>1, <2>7, <2>8
<1>4. CASE IsKeyScript(sp) /\ ~IsMultiSigScript(sp)
  <2>1. ~IsKeyHashScript(sp)
    BY <1>4 DEF IsKeyScript, IsKeyHashScript
  <2>2. Len(st) = 1 /\ SignedBy(st[1], sc[1][2], sp)
    BY <1>4, <2>1 DEF Satisfied
  <2>3. Len(sc) = 2
    BY <1>4 DEF IsKeyScript
  <2>4. Size(st[1]) = 71
    BY <1>2, <2>2
  <2>5. QED
    BY <1>1, <2>2, <2>3, <2>4
<1>5. CASE IsKeyHashScript(sp) /\ ~IsMultiSigScript(sp)
  <2>1. ~IsKeyScript(sp)
    BY <1>5 DEF IsKeyScript, IsKeyHashScript
  <2>2. Len(st) = 2 /\ SignedBy(st[1], st[2], sp)
    BY <1>5, <2>1 DEF Satisfied
  <2>3. Len(sc) = 5
    BY <1>5 DEF IsKeyHashScript
  <2>4. Size(st[1]) = 71
    BY <1>2, <2>2
  <2>5. Size(st[2]) \in 0 .. 71
    BY <2>2 DEF SignedBy, UsualKey, Size
  <2>6. \A j \in 1 .. 2 : j = 1 \/ j = 2
    OBVIOUS
  <2>7. QED
    BY <1>1, <2>2, <2>3, <2>4, <2>5, <2>6
<1>6. QED
  BY <1>3, <1>4, <1>5 DEF UsualScript

-----------------------------------------------------------------------------
(* Witness programs.                                                         *)

\* An input is answered as one of these scripts is satisfied.
Judged(i, spends) ==
    /\ (\E sp \in spends : Satisfied(sp)) => Gets(i, Ended("ok"))
    /\ ~(\E sp \in spends : Satisfied(sp)) => Gets(i, Refused)

\* It is so for a single script, and for none.
LEMMA JudgedOne ==
    ASSUME NEW i, NEW sp, Satisfied(sp) => Gets(i, Ended("ok")),
           ~Satisfied(sp) => Gets(i, Refused)
    PROVE  Judged(i, {sp})
BY DEF Judged

LEMMA JudgedNone ==
    ASSUME NEW i, Gets(i, Refused) PROVE Judged(i, {})
BY DEF Judged

\* The script of a witness program, given the items of the witness.
LEMMA EvaluatedAnswers ==
    ASSUME NEW i, NEW sc, List(sc), OpsAreTuples(sc), NEW st, List(st),
           \A j \in 1 .. Len(st) : IsTuple(st[j]), NEW c,
           Gets(i, Evaluated(c, sc, st)), NEW sp,
           sp = [script |-> sc, with |-> st, ver |-> "v0"], UsualScript(sp)
    PROVE  Judged(i, {sp})
<1>1. sp.script = sc /\ sp.with = st /\ sp.ver = "v0"
  BY ONLY sp = [script |-> sc, with |-> st, ver |-> "v0"]
<1>2. CASE \E j \in DOMAIN st : Size(st[j]) > MaxElement
  <2>1. Gets(i, Refused)
    BY <1>2 DEF Evaluated
  <2>2. ~Satisfied(sp)
    <3>1. PICK j \in DOMAIN st : Size(st[j]) > MaxElement
      BY <1>2
    <3>2. j \in 1 .. Len(st)
      BY <3>1, ListIs
    <3>3. SUFFICES ASSUME Satisfied(sp) PROVE FALSE
      OBVIOUS
    <3>4. List(sp.script) /\ List(sp.with) /\ OpsAreTuples(sp.script)
      BY <1>1
    <3>5. \A k \in 1 .. Len(sp.with) : Size(sp.with[k]) \in 0 .. 71
      BY <3>3, <3>4, SatisfiedFits
    <3>6. Size(st[j]) \in 0 .. 71
      BY <1>1, <3>2, <3>5
    <3>7. IsTuple(st[j]) /\ MaxElement \in Nat /\ MaxElement >= 100
      BY <3>2, LimitsAre, LimitsHoldUsualScripts
    <3> DEFINE z == Size(st[j])
    <3>8. z > MaxElement /\ z \in 0 .. 71
      BY <3>1, <3>6
    <3> HIDE DEF z
    <3>9. QED
      BY <3>7, <3>8
  <2>3. QED
    BY <2>1, <2>2 DEF Judged
<1>3. CASE ~(\E j \in DOMAIN st : Size(st[j]) > MaxElement)
  <2> DEFINE ph == "witness"
             copy == c.stackCopy
  <2>1. Gets(i, Entered(ph, sc, st, copy))
    BY <1>3 DEF Evaluated
  <2>2. ph \in ScriptPhases /\ sp.ver = VersionIn(ph) /\ IsLast(i, ph, sc)
    BY <1>1 DEF ScriptPhases, VersionIn, IsLast
  <2> HIDE DEF ph, copy
  <2>3. /\ Satisfied(sp) => Gets(i, Ended("ok"))
        /\ ~Satisfied(sp) => Gets(i, Refused)
    BY <1>1, <2>1, <2>2, UsualAnswers
  <2>4. QED
    BY <2>3, JudgedOne
<1>4. QED
  BY <1>2, <1>3

\* The script that a witness program for a key hash stands for.
LEMMA KeyHashList == ASSUME NEW h
    PROVE List(KeyHashScript(h)) /\ OpsAreTuples(KeyHashScript(h))
<1> DEFINE s == KeyHashScript(h)
           all == { <<"DUP">>, <<"HASH160">>, <<"PUSH", h>>, <<"EQUALVERIFY">>,
                    <<"CHECKSIG">> }
<1>1. s \in Seq(all)
  BY DEF KeyHashScript
<1>2. List(s)
  BY <1>1 DEF List
<1>3. DOMAIN s = 1 .. Len(s) /\ \A j \in 1 .. Len(s) : s[j] \in all
  BY <1>1
<1>4. \A o \in all : /\ o[1] = "PUSH" => o = <<"PUSH", o[2]>>
                     /\ o[1] # "NUM"
  OBVIOUS
<1>5. ToSet(s) \subseteq all
  BY <1>3 DEF ToSet
<1>6. QED
  BY <1>2, <1>4, <1>5 DEF OpsAreTuples

\* The last item of a witness, and those before it.
LEMMA FrontLast ==
    ASSUME NEW st, List(st), st # <<>>
    PROVE  /\ Len(st) \in Nat \ {0} /\ Last(st) = st[Len(st)]
           /\ List(Front(st)) /\ Len(Front(st)) = Len(st) - 1
           /\ \A j \in 1 .. Len(st) - 1 : Front(st)[j] = st[j]
<1>1. Len(st) \in Nat \ {0}
  BY ListIs
<1> DEFINE k == Len(st) - 1
<1>2. k \in 0 .. Len(st)
  BY <1>1
<1>3. Front(st) = SubSeq(st, 1, k) /\ Last(st) = st[Len(st)]
  BY DEF Front, Last
<1> HIDE DEF k
<1>4. List(Front(st)) /\ Len(Front(st)) = k /\ \A j \in 1 .. k : Front(st)[j] = st[j]
  BY <1>2, <1>3, ListStart
<1>5. QED
  BY <1>1, <1>3, <1>4 DEF k

\* The answer to an input that spends a witness program.
LEMMA ProgramEnds ==
    ASSUME NEW i \in Inputs, NEW s, IsWitnessScriptPubKey(s), List(s),
           OpsAreTuples(s), NEW c, Gets(i, Program(StandardFlags, i, c, s)),
           \A sp \in SpendsOfProgram(s, i) : UsualScript(sp)
    PROVE  Judged(i, SpendsOfProgram(s, i))
<1> DEFINE h == s[2][2]
           w == i.wit
<1>1. List(w) /\ \A j \in 1 .. Len(w) : Runs(w[j])
  BY InputIs
<1>2. \A j \in 1 .. Len(w) : IsTuple(w[j])
  BY <1>1 DEF Runs
<1>3. s[1] = <<"PUSH", Zero>> <=> WitnessVersion(s) = 0
  <2>1. s[1] \in ToSet(s)
    <3>1. 1 \in DOMAIN s
      BY ListIs DEF IsWitnessScriptPubKey
    <3>2. QED
      BY <3>1 DEF ToSet
  <2>2. CASE s[1] = <<"PUSH", Zero>>
    <3>1. s[1][1] = "PUSH"
      BY <2>2
    <3>2. QED
      BY <2>2, <3>1 DEF WitnessVersion
  <2>3. CASE s[1] # <<"PUSH", Zero>>
    <3>1. s[1][1] = "NUM" /\ s[1][2] # -1
      BY <2>3 DEF IsWitnessScriptPubKey
    <3>2. s[1][2] \in {-1} \cup 1 .. 16
      BY <2>1, <3>1 DEF OpsAreTuples
    <3>3. s[1][2] # 0
      BY <3>2
    <3>4. QED
      BY <2>3, <3>1, <3>3 DEF WitnessVersion
  <2>4. QED
    BY <2>2, <2>3
<1>4. CASE s[1] # <<"PUSH", Zero>>
  <2>1. Program(StandardFlags, i, c, s) = Refused
    BY <1>3, <1>4, StandardHas DEF Program
  <2>2. SpendsOfProgram(s, i) = {}
    BY <1>4 DEF SpendsOfProgram
  <2>3. QED
    BY <2>1, <2>2, JudgedNone
<1>5. h = <<"hash", "SHA256", Last(w)>> => Size(h) = 32
  BY DEF Size, TwentyByteHashes
<1>6. CASE /\ s[1] = <<"PUSH", Zero>>
           /\ w # <<>> /\ h = <<"hash", "SHA256", Last(w)>>
  <2> DEFINE sc == ScriptOf(Last(w))
             st == Front(w)
             sp == [script |-> sc, with |-> st, ver |-> "v0"]
  <2>1. SpendsOfProgram(s, i) = {sp}
    BY <1>5, <1>6 DEF SpendsOfProgram
  <2>2. Gets(i, Evaluated(c, sc, st))
    BY <1>3, <1>5, <1>6 DEF Program
  <2>3. /\ Len(w) \in Nat \ {0} /\ Last(w) = w[Len(w)]
        /\ List(st) /\ Len(st) = Len(w) - 1
        /\ \A j \in 1 .. Len(w) - 1 : st[j] = w[j]
    BY <1>1, <1>6, FrontLast
  <2>4. Len(w) \in 1 .. Len(w) /\ \A j \in 1 .. Len(w) - 1 : j \in 1 .. Len(w)
    BY <2>3
  <2>5. List(sc) /\ OpsAreTuples(sc)
    BY <1>1, <2>3, <2>4 DEF Runs
  <2>6. \A j \in 1 .. Len(st) : IsTuple(st[j])
    BY <1>2, <2>3, <2>4
  <2>7. UsualScript(sp)
    BY <2>1
  <2>8. sp = [script |-> sc, with |-> st, ver |-> "v0"]
    OBVIOUS
  <2> HIDE DEF sc, st, sp
  <2>9. Judged(i, {sp})
    BY <2>2, <2>3, <2>5, <2>6, <2>7, <2>8, EvaluatedAnswers
  <2>10. QED
    BY <2>1, <2>9
<1>7. CASE /\ s[1] = <<"PUSH", Zero>>
           /\ ~(w # <<>> /\ h = <<"hash", "SHA256", Last(w)>>)
           /\ Size(h) = 20 /\ Len(w) = 2
  <2> DEFINE sc == KeyHashScript(h)
             sp == [script |-> sc, with |-> w, ver |-> "v0"]
  <2>1. SpendsOfProgram(s, i) = {sp}
    BY <1>7 DEF SpendsOfProgram
  <2>2. Gets(i, Evaluated(c, sc, w))
    BY <1>3, <1>7 DEF Program
  <2>3. List(sc) /\ OpsAreTuples(sc)
    BY KeyHashList
  <2>4. UsualScript(sp)
    BY <2>1
  <2>5. sp = [script |-> sc, with |-> w, ver |-> "v0"]
    OBVIOUS
  <2> HIDE DEF sc, sp, w
  <2>6. Judged(i, {sp})
    BY <1>1, <1>2, <2>2, <2>3, <2>4, <2>5, EvaluatedAnswers
  <2>7. QED
    BY <2>1, <2>6
<1>8. CASE /\ s[1] = <<"PUSH", Zero>>
           /\ ~(w # <<>> /\ h = <<"hash", "SHA256", Last(w)>>)
           /\ ~(Size(h) = 20 /\ Len(w) = 2)
  <2>1. SpendsOfProgram(s, i) = {}
    BY <1>8 DEF SpendsOfProgram
  <2>2. Gets(i, Refused)
    BY <1>3, <1>8 DEF Program
  <2>3. QED
    BY <2>1, <2>2, JudgedNone
<1>9. QED
  BY <1>4, <1>6, <1>7, <1>8

-----------------------------------------------------------------------------
(* From scriptSig to the last script.                                        *)

\* What scriptSig pushes is within the limits.
Small(with) ==
    Len(with) <= MaxKeys + 2 /\ \A j \in 1 .. Len(with) : Size(with[j]) \in 0 .. 100

LEMMA SmallRoom ==
    ASSUME NEW i \in Inputs, OnlyData(i.sig), NEW with, with = Pushed(i.sig),
           Small(with)
    PROVE  Room(i.sig, <<>>, Len(i.sig)) /\ Len(with) + 1 <= MaxStack
<1> DEFINE s == i.sig
<1>1. /\ List(with) /\ Len(with) = Len(s) /\ Len(with) \in Nat
      /\ \A j \in 1 .. Len(s) : with[j] = Value(s[j])
  BY PushedIs
<1>2. /\ MaxScript >= MaxKeys + 4 /\ MaxStack >= 2 * MaxKeys + 3
      /\ MaxElement >= 100 /\ MaxKeys >= 1
      /\ {MaxScript, MaxStack, MaxElement, MaxKeys} \subseteq Nat
  BY LimitsAre, LimitsHoldUsualScripts
<1> HIDE DEF s
<1>3. ASSUME NEW j \in 1 .. Len(s), s[j][1] = "PUSH"
      PROVE  Size(s[j][2]) <= MaxElement
  <2>1. with[j] = s[j][2]
    BY <1>1, <1>3 DEF Value
  <2> DEFINE z == Size(s[j][2])
  <2>2. z \in 0 .. 100
    BY <1>1, <2>1 DEF Small
  <2> HIDE DEF z
  <2>3. MaxElement \in Nat /\ MaxElement >= 100
    BY <1>2
  <2>4. z <= MaxElement
    BY ONLY <2>2, <2>3
  <2>5. QED
    BY <2>4 DEF z
<1>4. Len(s) <= MaxScript /\ Len(s) <= MaxStack /\ Len(with) + 1 <= MaxStack
  BY <1>1, <1>2 DEF Small
<1>5. Len(<<>>) + Len(s) = Len(s)
  BY <1>1
<1>6. QED
  BY <1>3, <1>4, <1>5 DEF Room, s

\* From the start of a call to the scriptPubKey.
LEMMA SigRuns ==
    ASSUME NEW i \in Inputs, OnlyData(i.sig), NEW with, with = Pushed(i.sig)
    PROVE  \/ Gets(i, Entered("scriptPubKey", i.pub, with, with))
           \/ Gets(i, Refused) /\ ~Small(with)
<1> DEFINE s == i.sig
           ph == "scriptSig"
           F == StandardFlags
           copy == <<>>
           K == Len(s)
<1>1. /\ List(with) /\ Len(with) = Len(s) /\ Len(with) \in Nat
      /\ \A j \in 1 .. Len(s) : s[j][1] \in {"PUSH", "NUM"}
      /\ Pile(<<>>, s, Len(s)) = with
  BY PushedIs
<1>2. List(s)
  BY InputIs
<1>3. Gets(i, Entered(ph, s, <<>>, copy))
  <2>1. Gets(i, Ended("idle"))
    BY ReachesStart DEF Gets
  <2>2. /\ Ended("idle").phase = "idle" /\ Ended("idle").stackCopy = <<>>
    BY DEF Ended, Entered, Frame
  <2>3. Outcome(F, i, Ended("idle")) = Entered(ph, s, <<>>, copy)
    BY <2>2, StandardHas DEF Outcome
  <2>4. QED
    BY <2>1, <2>3, ReachesOutcome DEF Gets
<1>4. ph \in ScriptPhases
  BY DEF ScriptPhases
<1>5. List(<<>>)
  <2>1. <<>> \in Seq({})
    OBVIOUS
  <2>2. QED
    BY <2>1 DEF List
<1>6. K \in 0 .. Len(s) /\ \A j \in 1 .. K : s[j][1] \in {"PUSH", "NUM"}
  BY <1>1
<1>7. Reaches(F, i, Entered(ph, s, <<>>, copy))
  BY <1>3 DEF Gets
<1>8. Pile(<<>>, s, K) = with
  BY <1>1
<1> HIDE DEF s, ph, F, copy, K
<1>9. \/ Reaches(F, i, Plain(ph, s, K + 1, Pile(<<>>, s, K), 0, copy))
      \/ Reaches(F, i, Refused) /\ ~Room(s, <<>>, K)
  BY <1>2, <1>4, <1>5, <1>6, <1>7, PushRun
<1>10. CASE Reaches(F, i, Refused) /\ ~Room(s, <<>>, K)
  <2>1. ~Small(with)
    BY <1>10, SmallRoom DEF s, K
  <2>2. QED
    BY <1>10, <2>1 DEF Gets, F
<1>11. CASE Reaches(F, i, Plain(ph, s, K + 1, Pile(<<>>, s, K), 0, copy))
  <2> DEFINE c == Plain(ph, s, Len(s) + 1, with, 0, copy)
  <2>1. Reaches(F, i, c)
    BY <1>8, <1>11 DEF K
  <2>2. Outcome(F, i, c) = EndOf(F, i, ph, c) /\ c.stack = with
    BY <1>2, <1>4, EndAt
  <2> HIDE DEF c
  <2>3. EndOf(F, i, ph, c) = Entered("scriptPubKey", i.pub, with, with)
    BY <2>2 DEF EndOf, ph
  <2>4. QED
    BY <2>1, <2>2, <2>3, ReachesOutcome DEF Gets, F
<1>12. QED
  BY <1>9, <1>10, <1>11

\* A witness program runs to its end, and leaves a true item.
LEMMA ProgramRuns ==
    ASSUME NEW i, NEW ph \in ScriptPhases, NEW s, List(s), OpsAreTuples(s),
           IsWitnessScriptPubKey(s), NEW st, List(st), NEW copy,
           Gets(i, Entered(ph, s, st, copy))
    PROVE  \/ \E c : /\ TrueIn(c) /\ c.script = s
                     /\ Gets(i, EndOf(StandardFlags, i, ph, c))
           \/ Gets(i, Refused) /\ st # <<>>
<1> DEFINE F == StandardFlags
           p == Pile(st, s, 2)
           h == s[2][2]
<1>1. /\ Len(s) = 2 /\ s[2][1] = "PUSH" /\ Size(h) \in 2 .. 40
      /\ s[1][1] \in {"PUSH", "NUM"}
      /\ s[1][1] = "PUSH" => Size(s[1][2]) = 0
  <2>1. Len(s) = 2 /\ s[2][1] = "PUSH" /\ Size(h) \in 2 .. 40
    BY DEF IsWitnessScriptPubKey
  <2>2. CASE s[1] = <<"PUSH", Zero>>
    <3>1. s[1][1] = "PUSH" /\ s[1][2] = Zero
      BY <2>2
    <3>2. Size(Zero) = 0
      BY DEF Size, Zero, NumSize
    <3>3. QED
      BY <2>1, <3>1, <3>2
  <2>3. CASE s[1][1] = "NUM"
    BY <2>1, <2>3
  <2>4. QED
    BY <2>2, <2>3 DEF IsWitnessScriptPubKey
<1>2. /\ MaxScript >= 2 /\ MaxElement >= 40 /\ MaxStack >= 2
      /\ {MaxScript, MaxElement, MaxStack} \subseteq Nat
  BY LimitsAre, LimitsHoldUsualScripts
<1>3. Len(st) \in Nat /\ (Len(st) = 0 <=> st = <<>>)
  BY ListIs
<1>4. \A j \in 1 .. 2 : j = 1 \/ j = 2
  OBVIOUS
<1>5. st = <<>> => Room(s, st, 2)
  <2>1. Size(h) <= MaxElement
    <3> DEFINE z == Size(h)
    <3>1. z \in 2 .. 40
      BY <1>1
    <3> HIDE DEF z
    <3>2. z <= MaxElement
      BY <1>2, <3>1
    <3>3. QED
      BY <3>2 DEF z
  <2>2. s[1][1] = "PUSH" => Size(s[1][2]) <= MaxElement
    BY <1>1, <1>2
  <2>3. \A j \in 1 .. 2 : s[j][1] = "PUSH" => Size(s[j][2]) <= MaxElement
    BY <1>4, <2>1, <2>2
  <2>4. Len(s) <= MaxScript /\ (st = <<>> => Len(st) + 2 <= MaxStack)
    BY <1>1, <1>2, <1>3
  <2>5. QED
    BY <2>3, <2>4 DEF Room
<1>6. \/ Gets(i, Plain(ph, s, 2 + 1, p, 0, copy))
      \/ Gets(i, Refused) /\ ~Room(s, st, 2)
  <2>1. 2 \in 0 .. Len(s) /\ \A j \in 1 .. 2 : s[j][1] \in {"PUSH", "NUM"}
    BY <1>1, <1>4
  <2>2. QED
    BY <2>1, PushRun DEF Gets
<1>7. CASE Gets(i, Plain(ph, s, 2 + 1, p, 0, copy))
  <2> DEFINE c == Plain(ph, s, Len(s) + 1, p, 0, copy)
  <2>1. /\ List(p) /\ Len(p) = Len(st) + 2
        /\ \A j \in 1 .. 2 : p[Len(st) + j] = Value(s[j])
    BY PileIs
  <2> HIDE DEF p
  <2>2. Gets(i, c)
    BY <1>1, <1>7
  <2>3. Outcome(F, i, c) = EndOf(F, i, ph, c) /\ c.stack = p /\ c.script = s
    BY <2>1, EndAt
  <2> HIDE DEF c
  <2>4. p[Len(p)] = h
    <3>1. p[Len(st) + 2] = Value(s[2])
      BY <2>1
    <3>2. QED
      BY <1>1, <2>1, <3>1 DEF Value
  <2>5. CastToBool(h)
    <3>1. Size(Zero) = 0 /\ (h[1] = "negzero" => Size(h) = 1)
      BY DEF Size, Zero, NumSize
    <3>2. QED
      BY <1>1, <3>1 DEF CastToBool
  <2>6. TrueIn(c)
    BY <1>3, <2>1, <2>3, <2>4, <2>5, TrueAt
  <2>7. Gets(i, EndOf(F, i, ph, c))
    BY <2>2, <2>3, ReachesOutcome DEF Gets
  <2>8. QED
    BY <2>3, <2>6, <2>7
<1>8. QED
  BY <1>5, <1>6, <1>7

-----------------------------------------------------------------------------
(* An output to the hash of a script.                                        *)

Redeems(i, with) ==
    with # <<>> /\ i.pub[2][2] = <<"hash", "HASH160", Last(with)>>

\* Such a scriptPubKey compares the hashes.
LEMMA HashesCompared ==
    ASSUME NEW i \in Inputs, IsP2SH(i.pub), NEW with, List(with), with # <<>>,
           NEW low, low = Front(with), NEW copy,
           Gets(i, Entered("scriptPubKey", i.pub, with, copy))
    PROVE  \/ \E n : Gets(i, Plain("scriptPubKey", i.pub, Len(i.pub) + 1,
                                   Append(low, Bool(Redeems(i, with))), n, copy))
           \/ Gets(i, Refused) /\ Len(with) + 1 > MaxStack
<1> DEFINE ph == "scriptPubKey"
           sc == i.pub
           h == sc[2][2]
           t == with[Len(with)]
           hash == <<"hash", "HASH160", t>>
           a1 == Append(low, hash)
           a2 == Append(a1, h)
           a3 == Append(low, Bool(h = hash))
<1>1. /\ List(sc) /\ Len(sc) = 3 /\ sc[1] = <<"HASH160">> /\ sc[3] = <<"EQUAL">>
      /\ sc[2][1] = "PUSH" /\ Size(h) = 20
  BY InputIs DEF IsP2SH
<1>2. /\ MaxScript >= 3 /\ MaxOps >= 2 /\ MaxElement >= 20
      /\ {MaxScript, MaxOps, MaxElement, MaxStack} \subseteq Nat
  BY LimitsAre, LimitsHoldUsualScripts
<1>3. /\ Len(with) \in Nat /\ Len(with) >= 1 /\ List(low)
      /\ Len(low) = Len(with) - 1
      /\ Last(with) = t
  BY FrontLast
<1>4. low = SubSeq(with, 1, Len(with) - 1)
  BY DEF Front
<1>5. ph \in ScriptPhases
  BY DEF ScriptPhases
<1>6. Gets(i, Plain(ph, sc, 1, with, 0, copy))
  BY EnteredPlain
<1>7. Bool(Redeems(i, with)) = Bool(h = hash)
  BY <1>3 DEF Redeems
<1>8. List(a1) /\ Len(a1) = Len(with) /\ Len(a1) \in Nat
  BY <1>3, Above
<1>9. /\ List(a2) /\ Len(a2) = Len(with) + 1
      /\ a2[Len(a2)] = h /\ a2[Len(a2) - 1] = hash
      /\ SubSeq(a2, 1, Len(a2) - 2) = low
  <2>1. a2 = Append(Append(low, hash), h) /\ List(low)
    BY <1>3
  <2>2. Len(low) + 2 = Len(with) + 1
    BY <1>3
  <2> HIDE DEF a2, hash, h
  <2>3. List(a2)
    BY ONLY <2>1, TwoAbove
  <2>4. a2[Len(a2)] = h
    BY ONLY <2>1, TwoAbove
  <2>5. a2[Len(a2) - 1] = hash
    BY ONLY <2>1, TwoAbove
  <2>6. Len(a2) = Len(low) + 2
    BY ONLY <2>1, TwoAbove
  <2>7. SubSeq(a2, 1, Len(a2) - 2) = low
    <3> DEFINE n == Len(low)
    <3>1. SubSeq(a2, 1, n) = low
      BY ONLY <2>1, BelowTwo
    <3>2. Len(a2) = n + 2 /\ n \in Nat
      BY <2>1, <2>6, ListIs
    <3> HIDE DEF n
    <3>3. Len(a2) - 2 = n
      BY ONLY <3>2
    <3>4. QED
      BY <3>1, <3>3
  <2>8. QED
    BY <2>2, <2>3, <2>4, <2>5, <2>6, <2>7
<1> DEFINE Stopped == Gets(i, Refused) /\ Len(with) + 1 > MaxStack
<1>10. Gets(i, Plain(ph, sc, 2, a1, 1, copy)) \/ Stopped
  <2>1. 1 \in 1 .. Len(sc) /\ sc[1][1] = "HASH160" /\ 0 \in Nat /\ 0 + 1 <= MaxOps
        /\ Len(sc) <= MaxScript
    BY <1>1, <1>2
  <2>2. a1 = Append(SubSeq(with, 1, Len(with) - 1),
                    <<"hash", "HASH160", with[Len(with)]>>)
    BY <1>4
  <2> HIDE DEF a1, ph, sc
  <2>3. \/ Gets(i, Plain(ph, sc, 1 + 1, a1, 0 + 1, copy))
        \/ Gets(i, Refused) /\ (Len(with) < 1 \/ Len(with) > MaxStack)
    BY <1>1, <1>5, <1>6, <2>1, <2>2, HashGoes
  <2>4. ~(Len(with) < 1) /\ (Len(with) > MaxStack => Len(with) + 1 > MaxStack)
    BY <1>2, <1>3
  <2>5. QED
    BY <2>3, <2>4
<1>11. ASSUME Gets(i, Plain(ph, sc, 2, a1, 1, copy))
       PROVE  Gets(i, Plain(ph, sc, 3, a2, 1, copy)) \/ Stopped
  <2>1. 2 \in 1 .. Len(sc) /\ sc[2][1] = "PUSH" /\ 1 \in 0 .. MaxOps
        /\ Len(sc) <= MaxScript
    BY <1>1, <1>2
  <2>2. Size(sc[2][2]) <= MaxElement
    BY <1>1, <1>2
  <2> HIDE DEF a1, ph, sc
  <2>3. \/ Gets(i, Plain(ph, sc, 2 + 1, Append(a1, sc[2][2]), 1, copy))
        \/ /\ Gets(i, Refused)
           /\ ~(Size(sc[2][2]) <= MaxElement) \/ Len(a1) + 1 > MaxStack
    BY <1>1, <1>5, <1>8, <1>11, <2>1, PushGoes
  <2>4. QED
    BY <1>8, <2>2, <2>3
<1>12. ASSUME Gets(i, Plain(ph, sc, 3, a2, 1, copy))
       PROVE  Gets(i, Plain(ph, sc, 4, a3, 2, copy)) \/ Stopped
  <2>1. 3 \in 1 .. Len(sc) /\ sc[3][1] = "EQUAL" /\ 1 \in Nat /\ 1 + 1 <= MaxOps
        /\ Len(sc) <= MaxScript
    BY <1>1, <1>2
  <2>2. a3 = Append(SubSeq(a2, 1, Len(a2) - 2), Bool(a2[Len(a2)] = a2[Len(a2) - 1]))
    BY <1>9
  <2> HIDE DEF a2, a3, ph, sc
  <2>3. \/ Gets(i, Plain(ph, sc, 3 + 1, a3, 1 + 1, copy))
        \/ Gets(i, Refused) /\ (Len(a2) < 2 \/ Len(a2) - 1 > MaxStack)
    BY <1>1, <1>5, <1>9, <1>12, <2>1, <2>2, EqualGoes
  <2>4. ~(Len(a2) < 2) /\ (Len(a2) - 1 > MaxStack => Len(with) + 1 > MaxStack)
    BY <1>2, <1>3, <1>9
  <2>5. QED
    BY <2>3, <2>4
<1>13. Len(sc) + 1 = 4
  BY <1>1
<1> HIDE DEF a1, a2, a3, ph, sc, h, hash, Stopped
<1>14. Gets(i, Plain(ph, sc, Len(sc) + 1, a3, 2, copy)) \/ Stopped
  BY <1>10, <1>11, <1>12, <1>13
<1>15. a3 = Append(low, Bool(Redeems(i, with)))
  BY <1>7 DEF a3
<1>16. QED
  BY <1>14, <1>15 DEF Stopped, ph, sc

\* So the redeem script is run, or the input refused.
LEMMA RedeemStarts ==
    ASSUME NEW i \in Inputs, IsP2SH(i.pub), OnlyData(i.sig), NEW with,
           with = Pushed(i.sig),
           Gets(i, Entered("scriptPubKey", i.pub, with, with))
    PROVE  \/ /\ Redeems(i, with)
              /\ Gets(i, Entered("redeemScript", ScriptOf(Last(with)),
                                 Front(with), with))
           \/ Gets(i, Refused) /\ (~Redeems(i, with) \/ ~Small(with))
<1> DEFINE F == StandardFlags
           ph == "scriptPubKey"
           sc == i.pub
<1>1. List(with) /\ List(sc)
  BY PushedIs, InputIs
<1>2. ph \in ScriptPhases
  BY DEF ScriptPhases
<1>3. CASE with = <<>>
  <2>1. ~Redeems(i, with)
    BY <1>3 DEF Redeems
  <2> DEFINE c == Plain(ph, sc, 1, with, 0, with)
  <2>2. Gets(i, c)
    BY EnteredPlain
  <2>3. /\ 1 \in 1 .. Len(sc) /\ sc[1][1] = "HASH160" /\ Len(sc) <= MaxScript
        /\ 0 + 1 <= MaxOps /\ 0 \in Nat
    <3>1. Len(sc) = 3 /\ sc[1] = <<"HASH160">>
      BY DEF IsP2SH
    <3>2. QED
      BY <3>1, LimitsAre, LimitsHoldUsualScripts
  <2>4. c = Plain(ph, sc, 1, with, 0, with)
    OBVIOUS
  <2> HIDE DEF c, ph, sc
  <2>5. Usual(c) /\ c.stack = with /\ c.nOpCount = 0 /\ NameIn(c) = sc[1][1]
    BY <1>1, <1>2, <2>3, <2>4, PlainUsual
  <2>6. Len(with) = 0
    BY <1>3
  <2>7. c.nOpCount + 1 <= MaxOps /\ NameIn(c) = "HASH160" /\ Len(with) < 1
    BY <2>3, <2>5, <2>6
  <2>8. Outcome(F, i, c) = Refused
    BY <2>5, <2>7, HashAt
  <2>9. QED
    BY <2>1, <2>2, <2>8, ReachesOutcome DEF Gets
<1>4. CASE with # <<>>
  <2> DEFINE low == Front(with)
             b == Bool(Redeems(i, with))
             a == Append(low, b)
  <2>1. List(low)
    BY <1>1, <1>4, FrontLast
  <2>2. \/ \E n : Gets(i, Plain(ph, sc, Len(sc) + 1, a, n, with))
        \/ Gets(i, Refused) /\ Len(with) + 1 > MaxStack
    BY <1>1, <1>4, HashesCompared
  <2>3. CASE Gets(i, Refused) /\ Len(with) + 1 > MaxStack
    <3>1. MaxStack \in Nat /\ Len(with) \in Nat
      BY <1>1, ListIs, LimitsAre
    <3>2. ~(Len(with) + 1 <= MaxStack)
      BY <2>3, <3>1
    <3>3. QED
      BY <2>3, <3>2, SmallRoom
  <2>4. CASE \E n : Gets(i, Plain(ph, sc, Len(sc) + 1, a, n, with))
    <3>1. PICK n : Gets(i, Plain(ph, sc, Len(sc) + 1, a, n, with))
      BY <2>4
    <3> DEFINE c == Plain(ph, sc, Len(sc) + 1, a, n, with)
    <3>2. List(a) /\ a[Len(a)] = b /\ Len(a) >= 1
      BY <2>1, Above
    <3>3. c = Plain(ph, sc, Len(sc) + 1, a, n, with)
      OBVIOUS
    <3>4. Gets(i, c)
      BY <3>1
    <3> HIDE DEF a, b, c, ph, sc
    <3>5. Outcome(F, i, c) = EndOf(F, i, ph, c) /\ c.stack = a /\ c.stackCopy = with
      BY <1>1, <1>2, <3>3, EndAt
    <3>6. Gets(i, PubKeyEnd(F, i, c))
      BY <3>4, <3>5, ReachesOutcome DEF EndOf, Gets, ph
    <3>7. TrueIn(c) <=> CastToBool(b)
      BY <3>2, <3>5, TrueAt
    <3>8. CASE ~Redeems(i, with)
      <4>1. ~CastToBool(b)
        BY <3>8 DEF b, Bool, Num, CastToBool, Zero
      <4>2. PubKeyEnd(F, i, c) = Refused
        BY <3>7, <4>1 DEF PubKeyEnd
      <4>3. QED
        BY <3>6, <3>8, <4>2
    <3>9. CASE Redeems(i, with)
      <4>1. CastToBool(b)
        <5>1. b = Num(1)
          BY <3>9 DEF b, Bool
        <5>2. QED
          BY <5>1, OneTrue
      <4>2. ~IsWitnessScriptPubKey(i.pub)
        BY DEF IsP2SH, IsWitnessScriptPubKey
      <4>3. Pushes(i.sig)
        BY DEF OnlyData, Pushes
      <4>4. "P2SH" \in F
        BY StandardHas
      <4>5. PubKeyEnd(F, i, c) =
            Entered("redeemScript", ScriptOf(Last(with)), Front(with), with)
        BY <3>5, <3>7, <4>1, <4>2, <4>3, <4>4 DEF PubKeyEnd
      <4>6. QED
        BY <3>6, <3>9, <4>5
    <3>10. QED
      BY <3>8, <3>9
  <2>5. QED
    BY <2>2, <2>3, <2>4
<1>5. QED
  BY <1>3, <1>4

-----------------------------------------------------------------------------
(* The answer to an input that spends a usual output.                        *)

\* The script of a spend that is no witness program.
LEMMA SpendSmall ==
    ASSUME NEW sp, NEW s, NEW st,
           sp = [script |-> s, with |-> st, ver |-> "base"],
           List(s), OpsAreTuples(s), List(st), UsualScript(sp), Satisfied(sp)
    PROVE  /\ Len(s) >= 2 /\ Len(st) <= MaxKeys + 1 /\ Len(st) \in Nat
           /\ \A j \in 1 .. Len(st) : Size(st[j]) \in 0 .. 71
<1>1. sp.script = s /\ sp.with = st
  BY ONLY sp = [script |-> s, with |-> st, ver |-> "base"]
<1>2. List(sp.script) /\ List(sp.with) /\ OpsAreTuples(sp.script)
  BY <1>1
<1>3. /\ Len(sp.script) >= 2 /\ Len(sp.with) <= MaxKeys + 1
      /\ Len(sp.with) \in Nat
      /\ \A j \in 1 .. Len(sp.with) : Size(sp.with[j]) \in 0 .. 71
  BY <1>2, SatisfiedFits
<1>4. QED
  BY <1>1, <1>3

\* Where a script is satisfied, scriptSig pushed what is within the limits.
LEMMA SatisfiedSmall ==
    ASSUME NEW i \in Inputs, OnlyData(i.sig), NEW with, with = Pushed(i.sig),
           NEW sp \in Spends(i), UsualScript(sp), Satisfied(sp)
    PROVE  Small(with)
<1>1. /\ List(with) /\ Len(with) \in Nat /\ Len(with) = Len(i.sig)
      /\ \A j \in 1 .. Len(i.sig) : Runs(with[j])
  BY PushedIs
<1>2. MaxKeys \in Nat /\ \A z : z \in 0 .. 71 => z \in 0 .. 100
  BY LimitsAre
<1>3. CASE ~IsP2SH(i.pub) /\ IsWitnessScriptPubKey(i.pub)
  <2>1. with = <<>>
    BY <1>3 DEF Spends, SpendsOfScript
  <2>2. Len(with) = 0
    BY <2>1
  <2>3. QED
    BY <1>2, <2>2 DEF Small
<1>4. CASE ~IsP2SH(i.pub) /\ ~IsWitnessScriptPubKey(i.pub)
  <2>1. sp = [script |-> i.pub, with |-> with, ver |-> "base"]
    BY <1>4 DEF Spends, SpendsOfScript
  <2>2. /\ Len(with) <= MaxKeys + 1
        /\ \A j \in 1 .. Len(with) : Size(with[j]) \in 0 .. 71
    BY <1>1, <2>1, InputIs, SpendSmall
  <2>3. Len(with) <= MaxKeys + 2
    BY <1>1, <1>2, <2>2
  <2>4. QED
    BY <1>2, <2>2, <2>3 DEF Small
<1>5. CASE IsP2SH(i.pub)
  <2> DEFINE e == Last(with)
             s == ScriptOf(e)
             low == Front(with)
  <2>1. with # <<>> /\ sp \in SpendsOfScript(s, low, i)
    BY <1>5 DEF Spends
  <2>2. /\ Len(with) >= 1 /\ e = with[Len(with)] /\ List(low)
        /\ Len(low) = Len(with) - 1
        /\ \A j \in 1 .. Len(with) - 1 : low[j] = with[j]
    BY <1>1, <2>1, FrontLast
  <2>3. Runs(e) /\ List(s) /\ OpsAreTuples(s)
    BY <1>1, <2>2 DEF Runs
  <2> HIDE DEF e, low
  <2>4. Len(s) >= 2 => Size(e) = 100
    BY <2>3, ScriptElement
  <2>5. CASE IsWitnessScriptPubKey(s)
    <3>1. low = <<>>
      BY <2>1, <2>5 DEF SpendsOfScript
    <3>2. Len(with) = 1
      BY <1>1, <2>2, <3>1
    <3>3. Len(s) >= 2
      BY <2>5 DEF IsWitnessScriptPubKey
    <3>4. \A j \in 1 .. Len(with) : Size(with[j]) = 100
      BY <2>2, <2>4, <3>2, <3>3
    <3>5. \A j \in 1 .. Len(with) : Size(with[j]) \in 0 .. 100
      <4>1. \A z : z = 100 => z \in 0 .. 100
        OBVIOUS
      <4>2. QED
        BY <3>4, <4>1
    <3>6. QED
      BY <1>2, <3>2, <3>5 DEF Small
  <2>6. CASE ~IsWitnessScriptPubKey(s)
    <3>1. sp = [script |-> s, with |-> low, ver |-> "base"]
      BY <2>1, <2>6 DEF SpendsOfScript
    <3> HIDE DEF s
    <3>2. /\ Len(s) >= 2 /\ Len(low) <= MaxKeys + 1
          /\ \A j \in 1 .. Len(low) : Size(low[j]) \in 0 .. 71
      BY <2>2, <2>3, <3>1, SpendSmall
    <3>3. Len(with) <= MaxKeys + 2
      BY <1>1, <1>2, <2>2, <3>2
    <3>4. ASSUME NEW j \in 1 .. Len(with) PROVE Size(with[j]) \in 0 .. 100
      <4>1. CASE j = Len(with)
        <5>1. Size(with[j]) = 100
          BY <2>2, <2>4, <3>2, <4>1
        <5>2. \A z : z = 100 => z \in 0 .. 100
          OBVIOUS
        <5>3. QED
          BY <5>1, <5>2
      <4>2. CASE j # Len(with)
        <5>1. j \in 1 .. Len(low) /\ with[j] = low[j]
          BY <1>1, <2>2, <4>2
        <5>2. Size(with[j]) \in 0 .. 71
          BY <3>2, <5>1
        <5>3. QED
          BY <1>2, <5>2
      <4>3. QED
        BY <4>1, <4>2
    <3>5. QED
      BY <3>3, <3>4 DEF Small
  <2>7. QED
    BY <2>5, <2>6
<1>6. QED
  BY <1>3, <1>4, <1>5

\* An input with a witness for an output that asks for none.
Unasked(i) == i.wit # <<>> /\ ~AsksForWitness(i) /\ Spends(i) = {}

\* What a script that is no witness program answers.
LEMMA ScriptAnswers ==
    ASSUME NEW i, NEW ph \in ScriptPhases, ph # "witness", NEW s, List(s),
           OpsAreTuples(s), NEW st, List(st),
           \A j \in 1 .. Len(st) : IsTuple(st[j]),
           IsLast(i, ph, s), NEW copy, Gets(i, Entered(ph, s, st, copy)),
           NEW sp, sp = [script |-> s, with |-> st, ver |-> "base"],
           UsualScript(sp)
    PROVE  Judged(i, {sp})
<1>1. sp.script = s /\ sp.with = st /\ sp.ver = "base"
  BY ONLY sp = [script |-> s, with |-> st, ver |-> "base"]
<1>2. sp.ver = VersionIn(ph)
  BY <1>1 DEF VersionIn
<1>3. /\ Satisfied(sp) => Gets(i, Ended("ok"))
      /\ ~Satisfied(sp) => Gets(i, Refused)
  BY <1>1, <1>2, UsualAnswers
<1>4. QED
  BY <1>3, JudgedOne

\* A bare output.
LEMMA BareAnswers ==
    ASSUME NEW i \in Inputs, ~IsP2SH(i.pub), OnlyData(i.sig), NEW with,
           with = Pushed(i.sig), \A sp \in Spends(i) : UsualScript(sp),
           Gets(i, Entered("scriptPubKey", i.pub, with, with))
    PROVE  Judged(i, Spends(i)) \/ Unasked(i)
<1> DEFINE F == StandardFlags
           ph == "scriptPubKey"
           s == i.pub
<1>1. /\ List(with) /\ Len(with) = Len(i.sig) /\ List(i.sig)
      /\ \A j \in 1 .. Len(with) : IsTuple(with[j])
      /\ List(s) /\ OpsAreTuples(s)
  BY PushedIs, InputIs DEF Runs
<1>2. with = <<>> <=> i.sig = <<>>
  BY <1>1, ListIs
<1>3. ph \in ScriptPhases /\ ph # "witness"
  BY DEF ScriptPhases
<1>4. Spends(i) = SpendsOfScript(s, with, i)
  BY DEF Spends
<1>5. CASE IsWitnessScriptPubKey(s)
  <2>1. Spends(i) = IF with = <<>> THEN SpendsOfProgram(s, i) ELSE {}
    BY <1>4, <1>5 DEF SpendsOfScript
  <2>2. \/ \E c : /\ TrueIn(c) /\ c.script = s
                  /\ Gets(i, EndOf(F, i, ph, c))
        \/ Gets(i, Refused) /\ with # <<>>
    BY <1>1, <1>3, <1>5, ProgramRuns
  <2>3. CASE Gets(i, Refused) /\ with # <<>>
    BY <2>1, <2>3, JudgedNone
  <2>4. CASE \E c : TrueIn(c) /\ c.script = s /\ Gets(i, EndOf(F, i, ph, c))
    <3>1. PICK c : TrueIn(c) /\ c.script = s /\ Gets(i, EndOf(F, i, ph, c))
      BY <2>4
    <3>2. EndOf(F, i, ph, c) =
          IF i.sig # <<>> THEN Refused ELSE Program(F, i, c, s)
      BY <1>5, <3>1, StandardHas DEF EndOf, PubKeyEnd
    <3>3. CASE i.sig # <<>>
      BY <1>2, <2>1, <3>1, <3>2, <3>3, JudgedNone
    <3>4. CASE i.sig = <<>>
      <4>1. Gets(i, Program(F, i, c, s)) /\ Spends(i) = SpendsOfProgram(s, i)
        BY <1>2, <2>1, <3>1, <3>2, <3>4
      <4>2. \A sp \in SpendsOfProgram(s, i) : UsualScript(sp)
        BY <4>1
      <4> HIDE DEF s
      <4>3. Judged(i, SpendsOfProgram(s, i))
        BY <1>1, <1>5, <4>1, <4>2, ProgramEnds
      <4>4. QED
        BY <4>1, <4>3
    <3>5. QED
      BY <3>3, <3>4
  <2>5. QED
    BY <2>2, <2>3, <2>4
<1>6. CASE ~IsWitnessScriptPubKey(s) /\ i.wit = <<>>
  <2> DEFINE sp == [script |-> s, with |-> with, ver |-> "base"]
  <2>1. Spends(i) = {sp}
    BY <1>4, <1>6 DEF SpendsOfScript
  <2>2. IsLast(i, ph, s) /\ UsualScript(sp)
    BY <1>6, <2>1 DEF IsLast
  <2>3. sp = [script |-> s, with |-> with, ver |-> "base"]
        /\ Gets(i, Entered(ph, s, with, with))
    OBVIOUS
  <2> HIDE DEF sp, s, ph
  <2>4. Judged(i, {sp})
    BY <1>1, <1>3, <2>2, <2>3, ScriptAnswers
  <2>5. QED
    BY <2>1, <2>4
<1>7. CASE ~IsWitnessScriptPubKey(s) /\ i.wit # <<>>
  <2>1. Spends(i) = {}
    BY <1>4, <1>7 DEF SpendsOfScript
  <2>2. ~AsksForWitness(i)
    BY <1>7 DEF AsksForWitness
  <2>3. QED
    BY <1>7, <2>1, <2>2 DEF Unasked
<1>8. QED
  BY <1>5, <1>6, <1>7

\* An output to the hash of a script, when that script is run.
LEMMA RedeemAnswers ==
    ASSUME NEW i \in Inputs, IsP2SH(i.pub), OnlyData(i.sig), NEW with,
           with = Pushed(i.sig), \A sp \in Spends(i) : UsualScript(sp),
           Redeems(i, with), NEW s, s = ScriptOf(Last(with)),
           Gets(i, Entered("redeemScript", s, Front(with), with))
    PROVE  Judged(i, Spends(i)) \/ Unasked(i)
<1> DEFINE F == StandardFlags
           ph == "redeemScript"
           low == Front(with)
           e == Last(with)
<1>1. /\ List(with) /\ Len(with) = Len(i.sig) /\ List(i.sig)
      /\ \A j \in 1 .. Len(i.sig) :
            /\ i.sig[j][1] \in {"PUSH", "NUM"}
            /\ with[j] = Value(i.sig[j]) /\ Runs(with[j])
  BY PushedIs, InputIs
<1>2. /\ Len(with) \in Nat \ {0} /\ e = with[Len(with)] /\ List(low)
      /\ Len(low) = Len(with) - 1
      /\ \A j \in 1 .. Len(with) - 1 : low[j] = with[j]
  BY <1>1, FrontLast DEF Redeems
<1>3. Runs(e) /\ List(s) /\ OpsAreTuples(s)
  BY <1>1, <1>2 DEF Runs
<1>4. \A j \in 1 .. Len(low) : IsTuple(low[j])
  BY <1>1, <1>2 DEF Runs
<1>5. ph \in ScriptPhases /\ ph # "witness"
  BY DEF ScriptPhases
<1>6. Spends(i) = SpendsOfScript(s, low, i)
  BY DEF Spends, Redeems
<1>7. low = <<>> <=> Len(with) = 1
  <2> HIDE DEF low
  <2>1. Len(low) = 0 <=> low = <<>>
    BY <1>2, ListIs
  <2>2. Len(low) = 0 <=> Len(with) = 1
    BY <1>2
  <2>3. QED
    BY <2>1, <2>2
<1>8. CASE IsWitnessScriptPubKey(s)
  <2>1. Spends(i) = IF low = <<>> THEN SpendsOfProgram(s, i) ELSE {}
    BY <1>6, <1>8 DEF SpendsOfScript
  <2>2. Len(s) >= 2
    BY <1>8 DEF IsWitnessScriptPubKey
  <2>3. e[1] = "script" /\ ElementOf(s) = e /\ e # Zero
    BY <1>3, <2>2, ScriptElement
  <2>4. low = <<>> <=> i.sig = <<<<"PUSH", e>>>>
    <3>1. ASSUME Len(with) = 1 PROVE i.sig = <<<<"PUSH", e>>>>
      <4>1. /\ Len(i.sig) = 1 /\ i.sig[1][1] \in {"PUSH", "NUM"}
            /\ Value(i.sig[1]) = e
        BY <1>1, <1>2, <3>1
      <4>2. i.sig[1][1] = "PUSH"
        <5>1. i.sig[1][1] = "NUM" => e[1] = "num"
          BY <4>1 DEF Value, Num
        <5>2. QED
          BY <2>3, <4>1, <5>1
      <4>3. i.sig[1] = <<"PUSH", i.sig[1][2]>>
        <5>1. i.sig[1] \in ToSet(i.sig)
          BY <1>1, <4>1, ListIs DEF ToSet
        <5>2. OpsAreTuples(i.sig)
          BY InputIs
        <5>3. QED
          BY <4>2, <5>1, <5>2 DEF OpsAreTuples
      <4>4. i.sig[1] = <<"PUSH", e>>
        BY <4>1, <4>2, <4>3 DEF Value
      <4> DEFINE one == <<<<"PUSH", e>>>>
      <4>5. List(one) /\ Len(one) = 1 /\ one[1] = <<"PUSH", e>>
        <5>1. one \in Seq({<<"PUSH", e>>}) /\ Len(one) = 1 /\ one[1] = <<"PUSH", e>>
          OBVIOUS
        <5>2. QED
          BY <5>1 DEF List
      <4> HIDE DEF one, e
      <4>6. \A j \in 1 .. Len(i.sig) : i.sig[j] = one[j]
        BY <4>1, <4>4, <4>5
      <4>7. i.sig = one
        BY <1>1, <4>1, <4>5, <4>6, ListsEqual
      <4>8. QED
        BY <4>7 DEF one
    <3>2. ASSUME i.sig = <<<<"PUSH", e>>>> PROVE Len(with) = 1
      BY <1>1, <3>2
    <3>3. QED
      BY <1>7, <3>1, <3>2
  <2>5. \/ \E c : /\ TrueIn(c) /\ c.script = s
                  /\ Gets(i, EndOf(F, i, ph, c))
        \/ Gets(i, Refused) /\ low # <<>>
    <3> DEFINE copy == with
    <3>1. Gets(i, Entered(ph, s, low, copy))
      OBVIOUS
    <3> HIDE DEF copy, low, ph
    <3>2. QED
      BY <1>2, <1>3, <1>5, <1>8, <3>1, ProgramRuns
  <2>6. CASE Gets(i, Refused) /\ low # <<>>
    BY <2>1, <2>6, JudgedNone
  <2>7. CASE \E c : TrueIn(c) /\ c.script = s /\ Gets(i, EndOf(F, i, ph, c))
    <3>1. PICK c : TrueIn(c) /\ c.script = s /\ Gets(i, EndOf(F, i, ph, c))
      BY <2>7
    <3>2. EndOf(F, i, ph, c) =
          IF low = <<>> THEN Program(F, i, c, s) ELSE Refused
      <4>1. EndOf(F, i, ph, c) = RedeemEnd(F, i, c)
        BY DEF EndOf
      <4>2. "WITNESS" \in F
        BY StandardHas
      <4> HIDE DEF low, e, F
      <4>3. RedeemEnd(F, i, c) =
            IF i.sig # <<<<"PUSH", e>>>> THEN Refused ELSE Program(F, i, c, s)
        BY <1>8, <2>3, <3>1, <4>2 DEF RedeemEnd
      <4>4. QED
        BY <2>4, <4>1, <4>3
    <3>3. CASE low # <<>>
      BY <2>1, <3>1, <3>2, <3>3, JudgedNone
    <3>4. CASE low = <<>>
      <4>1. Gets(i, Program(F, i, c, s)) /\ Spends(i) = SpendsOfProgram(s, i)
        BY <2>1, <3>1, <3>2, <3>4
      <4>2. \A sp \in SpendsOfProgram(s, i) : UsualScript(sp)
        BY <4>1
      <4>3. Judged(i, SpendsOfProgram(s, i))
        BY <1>3, <1>8, <4>1, <4>2, ProgramEnds
      <4>4. QED
        BY <4>1, <4>3
    <3>5. QED
      BY <3>3, <3>4
  <2>8. QED
    BY <2>5, <2>6, <2>7
<1>9. CASE ~IsWitnessScriptPubKey(s) /\ i.wit = <<>>
  <2> DEFINE sp == [script |-> s, with |-> low, ver |-> "base"]
             copy == with
  <2>1. Spends(i) = {sp}
    BY <1>6, <1>9 DEF SpendsOfScript
  <2>2. IsLast(i, ph, s) /\ UsualScript(sp)
    BY <1>9, <2>1 DEF IsLast
  <2>3. sp = [script |-> s, with |-> low, ver |-> "base"]
        /\ Gets(i, Entered(ph, s, low, copy))
    OBVIOUS
  <2> HIDE DEF sp, ph, low, copy
  <2>4. Judged(i, {sp})
    BY <1>2, <1>3, <1>4, <1>5, <2>2, <2>3, ScriptAnswers
  <2>5. QED
    BY <2>1, <2>4
<1>10. CASE ~IsWitnessScriptPubKey(s) /\ i.wit # <<>>
  <2>1. Spends(i) = {}
    BY <1>6, <1>10 DEF SpendsOfScript
  <2>2. ~IsWitnessScriptPubKey(i.pub)
    BY DEF IsP2SH, IsWitnessScriptPubKey
  <2>3. Len(i.sig) = 1 => ScriptOf(with[1]) = s
    BY <1>1, <1>2
  <2>4. ~AsksForWitness(i)
    BY <1>10, <2>2, <2>3 DEF AsksForWitness
  <2>5. QED
    BY <1>10, <2>1, <2>4 DEF Unasked
<1>11. QED
  BY <1>8, <1>9, <1>10

\* Every input that spends a usual output is answered, as it satisfies it.
LEMMA UsualCall ==
    ASSUME NEW i \in Inputs, OnlyData(i.sig), \A sp \in Spends(i) : UsualScript(sp)
    PROVE  Judged(i, Spends(i)) \/ Unasked(i)
<1> DEFINE with == Pushed(i.sig)
<1>0. with = Pushed(i.sig)
  OBVIOUS
<1> HIDE DEF with
<1>1. ~Small(with) => \A sp \in Spends(i) : ~Satisfied(sp)
  BY <1>0, SatisfiedSmall
<1>2. \/ Gets(i, Entered("scriptPubKey", i.pub, with, with))
      \/ Gets(i, Refused) /\ ~Small(with)
  BY <1>0, SigRuns
<1>3. CASE Gets(i, Refused) /\ ~Small(with)
  BY <1>1, <1>3 DEF Judged
<1>4. CASE Gets(i, Entered("scriptPubKey", i.pub, with, with)) /\ ~IsP2SH(i.pub)
  BY <1>0, <1>4, BareAnswers
<1>5. CASE Gets(i, Entered("scriptPubKey", i.pub, with, with)) /\ IsP2SH(i.pub)
  <2> DEFINE s == ScriptOf(Last(with))
  <2>1. \/ /\ Redeems(i, with)
           /\ Gets(i, Entered("redeemScript", s, Front(with), with))
        \/ Gets(i, Refused) /\ (~Redeems(i, with) \/ ~Small(with))
    BY <1>0, <1>5, RedeemStarts
  <2>2. ~Redeems(i, with) => Spends(i) = {}
    BY <1>0, <1>5 DEF Spends, Redeems
  <2>3. CASE Gets(i, Refused) /\ (~Redeems(i, with) \/ ~Small(with))
    BY <1>1, <2>2, <2>3 DEF Judged
  <2>4. CASE /\ Redeems(i, with)
             /\ Gets(i, Entered("redeemScript", s, Front(with), with))
    BY <1>0, <1>5, <2>4, RedeemAnswers
  <2>5. QED
    BY <2>1, <2>3, <2>4
<1>6. QED
  BY <1>2, <1>3, <1>4, <1>5

\* Under the default flags, for any inputs and limits that hold their scripts,
\* an output of a usual template is spent exactly by the inputs that carry the
\* signatures it asks for, in the order of its keys.
THEOREM UsualOutputsSigned == Spec => []UsualOutputsAskForTheirSignatures
<1>1. RunInv /\ IInv /\ LInv => UsualOutputsAskForTheirSignatures
  <2> SUFFICES ASSUME RunInv, IInv, LInv, StandardFlags \in FlagsTried,
                      OnlyData(inp.sig), \A sp \in Spends(inp) : UsualScript(sp)
               PROVE  Accepted(StandardFlags) <=>
                      \E sp \in Spends(inp) : Satisfied(sp)
    BY DEF UsualOutputsAskForTheirSignatures, UsualScript
  <2> DEFINE F == StandardFlags
  <2>1. F \subseteq F /\ Sound(F)
    BY StandardHas DEF Sound
  <2>2. \A j \in DOMAIN verdict : /\ verdict[j] \in {"ok", "rejected"}
                                  /\ Reaches(Trials[j], inp, Ended(verdict[j]))
    BY DEF IInv, VerdictInv, RunInv
  <2>3. inp \in Inputs
    BY DEF LInv, CallInv
  <2>4. CASE Judged(inp, Spends(inp))
    <3>1. ASSUME \E sp \in Spends(inp) : Satisfied(sp) PROVE Accepted(F)
      <4>1. Reaches(F, inp, Ended("ok"))
        BY <2>4, <3>1 DEF Judged, Gets
      <4>2. PICK j \in DOMAIN verdict : Trials[j] = F
        BY DEF FlagsTried
      <4> HIDE DEF F
      <4>3. verdict[j] = "ok"
        BY <2>1, <2>2, <4>1, <4>2, FewerAccept
      <4>4. QED
        BY <4>2, <4>3 DEF Accepted
    <3>2. ASSUME ~(\E sp \in Spends(inp) : Satisfied(sp)) PROVE ~Accepted(F)
      <4>1. Reaches(F, inp, Ended("rejected"))
        BY <2>4, <3>2 DEF Judged, Gets, Refused
      <4> HIDE DEF F
      <4>2. SUFFICES ASSUME NEW j \in DOMAIN verdict, Trials[j] = F,
                            verdict[j] = "ok"
                     PROVE  FALSE
        BY DEF Accepted
      <4>3. Reaches(F, inp, Ended("ok"))
        BY <2>2, <4>2
      <4>4. "rejected" = "ok"
        BY <2>1, <4>1, <4>3, FewerAccept
      <4>5. QED
        BY <4>4
    <3>3. QED
      BY <3>1, <3>2
  <2>5. CASE Unasked(inp)
    <3>1. ~Accepted(F)
      <4>1. SUFFICES ASSUME NEW j \in DOMAIN verdict, Trials[j] = F,
                            verdict[j] = "ok"
                     PROVE  FALSE
        BY DEF Accepted
      <4>2. Justified(F) /\ "WITNESS" \in F
        BY <4>1, StandardHas DEF IInv, VerdictInv
      <4>3. QED
        BY <2>5, <4>2 DEF Justified, Unasked
    <3>2. QED
      BY <2>5, <3>1 DEF Unasked
  <2>6. QED
    BY <2>3, <2>4, <2>5, UsualCall
<1>2. QED
  BY <1>1, RunInvariance, Invariance, FrameInvariance, PTL

=============================================================================
