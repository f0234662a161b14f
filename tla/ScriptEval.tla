----------------------------- MODULE ScriptEval -----------------------------
(* VerifyScript and EvalScript (core/scripteval.py): whether the scriptSig   *)
(* and the witness of a transaction input satisfy the scriptPubKey of the    *)
(* output it spends.  A step of the specification is one turn of the loop of *)
(* _EvalScript, or the passage from one script to the next.                  *)
(*                                                                           *)
(* A caller verifies one input under the flag sets of Trials, one after the  *)
(* other; `verdict' remembers what each call answered, so that the answers   *)
(* can be compared.                                                          *)
(*                                                                           *)
(* What one operation reads, computes and refuses is in Opcodes, with the    *)
(* form that stack elements and operations have.                             *)
EXTENDS Integers, Sequences, FiniteSets, SequencesExt

CONSTANTS
    Inputs,      \* the inputs verified: [sig, pub, wit] records
    Trials,      \* the flag sets they are verified under, in order
    MaxScript,   \* operations in a script        (MAX_SCRIPT_SIZE)
    MaxOps,      \* counted operations per script (MAX_SCRIPT_OPCODES)
    MaxStack,    \* items on both stacks          (MAX_STACK_ITEMS)
    MaxElement,  \* bytes in an element           (MAX_SCRIPT_ELEMENT_SIZE)
    MaxNum,      \* largest number of MAX_NUM_SIZE bytes
    MaxKeys      \* keys of an OP_CHECKMULTISIG

ASSUME LimitsAreNaturals ==
    {MaxScript, MaxOps, MaxStack, MaxElement, MaxNum, MaxKeys} \subseteq Nat

(* The scripts of the usual outputs stay within the limits, to as many keys  *)
(* as OP_CHECKMULTISIG takes: their length, operations and items, and the    *)
(* bytes of what they push (a script pushed as data is one of 100 bytes).    *)
ASSUME LimitsHoldUsualScripts ==
    /\ MaxKeys >= 1
    /\ MaxScript >= MaxKeys + 4 /\ MaxOps >= MaxKeys + 3
    /\ MaxStack >= 2 * MaxKeys + 3 /\ MaxElement >= 100

VARIABLES
    inp,      \* the input being verified
    trial,    \* number of the current, or the next, call of VerifyScript
    verdict,  \* answers given so far, a sequence of "ok" and "rejected"
    phase,    \* the script being evaluated, or "idle" between calls
    script, pc, stack, altstack, vfExec, nOpCount,   \* _EvalScript's locals
    pbegincodehash,
    stackCopy \* the stack scriptSig left

frame == <<script, pc, stack, altstack, vfExec, nOpCount, pbegincodehash>>
vars == <<inp, trial, verdict, phase, frame, stackCopy>>

flags == Trials[trial]

INSTANCE Opcodes

(* A script is a list of operations whose pushed data have a size, and an    *)
(* element is data that may be read as such a script.                        *)
SizedScript(s) ==
    /\ s \in Seq(ToSet(s))
    /\ \A o \in ToSet(s) : o[1] = "PUSH" => Size(o[2]) \in Nat
Readable(e) == Size(e) \in Nat /\ SizedScript(ScriptOf(e))

(* An input is two scripts and a list of elements; only what scriptSig       *)
(* pushes and what the witness holds is ever run as a script.  A hash fits   *)
(* in an element.                                                            *)
ASSUME InputsAreScripts ==
    /\ MaxElement >= 32
    /\ Trials \in Seq(ToSet(Trials))
    /\ \A i \in Inputs :
          /\ DOMAIN i = {"sig", "pub", "wit"}
          /\ SizedScript(i.sig) /\ SizedScript(i.pub)
          /\ \A o \in ToSet(i.sig) : o[1] = "PUSH" => Readable(o[2])
          /\ i.wit \in Seq(ToSet(i.wit))
          /\ \A e \in ToSet(i.wit) : Readable(e)

(* Elements and operations are the tuples that Opcodes describes; zero is    *)
(* pushed as the empty string.                                               *)
OpsAreTuples(s) ==
    \A o \in ToSet(s) :
        /\ o[1] = "PUSH" => o = <<"PUSH", o[2]>>
        /\ o[1] = "NUM" => o[2] \in {-1} \cup 1..16
IsTuple(e) ==
    /\ e[1] = "sig" => e = <<"sig", e[2], e[3], e[4]>>
    /\ e[1] = "script" =>
          e[2] # <<>> /\ e = <<"script", e[2]>> /\ OpsAreTuples(e[2])
ASSUME InputsAreTuples ==
    \A i \in Inputs :
        /\ OpsAreTuples(i.sig) /\ OpsAreTuples(i.pub)
        /\ \A o \in ToSet(i.sig) : o[1] = "PUSH" => IsTuple(o[2])
        /\ \A e \in ToSet(i.wit) : IsTuple(e)

-----------------------------------------------------------------------------
(* Answers, and the entry of a script.                                       *)

InitFrame ==
    /\ script = <<>> /\ pc = 1 /\ stack = <<>> /\ altstack = <<>>
    /\ vfExec = <<>> /\ nOpCount = 0 /\ pbegincodehash = 1

Init ==
    /\ inp \in Inputs
    /\ trial = 1
    /\ verdict = <<>>
    /\ phase = "idle"
    /\ stackCopy = <<>>
    /\ InitFrame

(* EvalScript is called with a stack and starts from a fresh frame.          *)
Enter(ph, s, st) ==
    /\ phase' = ph /\ script' = s /\ stack' = st
    /\ pc' = 1 /\ altstack' = <<>> /\ vfExec' = <<>>
    /\ nOpCount' = 0 /\ pbegincodehash' = 1

(* VerifyScript returns, or an exception leaves it.                          *)
Answer(v) ==
    /\ verdict' = Append(verdict, v)
    /\ trial' = trial + 1
    /\ stackCopy' = <<>>
    /\ Enter("idle", <<>>, <<>>)
    /\ UNCHANGED inp
Raise == Answer("rejected")

-----------------------------------------------------------------------------
(* The loop of _EvalScript.                                                  *)

Running == phase # "idle" /\ pc <= Len(script)

NotPermitted == Running /\ ~Permitted /\ Raise

(* The operation is done: the stacks it leaves are measured, and the loop    *)
(* goes on.                                                                  *)
Leave(st, alt, exec, begin, count) ==
    IF Len(st) + Len(alt) > MaxStack THEN Raise
    ELSE /\ stack' = st /\ altstack' = alt /\ vfExec' = exec
         /\ pbegincodehash' = begin /\ nOpCount' = count
         /\ pc' = pc + 1
         /\ UNCHANGED <<inp, trial, verdict, phase, script, stackCopy>>
LeaveStack(st) == Leave(st, altstack, vfExec, pbegincodehash, CountedOps)

OpFails == Running /\ Permitted /\ fExec /\ ~OpCompletes /\ Raise

Execute(names) ==
    Running /\ Permitted /\ fExec /\ Name \in names /\ OpCompletes

(* Only the conditionals are looked at where nothing is executed.            *)
Skip ==
    /\ Running /\ Permitted /\ ~fExec
    /\ Name \notin Conditionals
    /\ LeaveStack(stack)

Push ==
    /\ Execute({"PUSH", "NUM"})
    /\ LeaveStack(Append(stack, IF Name = "PUSH" THEN Op[2] ELSE Num(Op[2])))

Rearrange ==
    /\ Execute(DOMAIN Shuffle)
    /\ LET left == Shuffle[Name][2]
       IN LeaveStack(Pop(Items) \o [i \in DOMAIN left |-> Top(left[i])])

IfDup ==
    /\ Execute({"IFDUP"})
    /\ LeaveStack(IF CastToBool(Top(1)) THEN Append(stack, Top(1)) ELSE stack)

PickOrRoll ==
    /\ Execute({"PICK", "ROLL"})
    /\ LET below == Pop(1)
           at == Len(below) - BigNum(Top(1))
       IN LeaveStack(Append(IF Name = "ROLL" THEN RemoveAt(below, at) ELSE below,
                            below[at]))

Measure ==
    /\ Execute({"DEPTH", "SIZE"})
    /\ LeaveStack(Append(stack, Num(IF Name = "DEPTH" THEN Len(stack)
                                    ELSE Size(Top(1)))))

Arithmetic ==
    \/ /\ Execute(Unary)
       /\ LeaveStack(Append(Pop(1), UnaryOp(BigNum(Top(1)))))
    \/ /\ Execute(Binary \ {"NUMEQUALVERIFY"})
       /\ LeaveStack(Append(Pop(2), BinOp(BigNum(Top(2)), BigNum(Top(1)))))
    \/ /\ Execute({"WITHIN"})
       /\ LeaveStack(Append(Pop(3), Bool(BigNum(Top(3)) \in
                         BigNum(Top(2))..(BigNum(Top(1)) - 1))))

Hash ==
    /\ Execute(Hashes)
    /\ LeaveStack(Append(Pop(1), <<"hash", Name, Top(1)>>))

Equal ==
    /\ Execute({"EQUAL"})
    /\ LeaveStack(Append(Pop(2), Bool(Top(1) = Top(2))))

(* A VERIFY operation that does not raise.                                   *)
Verified ==
    /\ Execute({"VERIFY", "EQUALVERIFY", "NUMEQUALVERIFY", "CHECKSIGVERIFY"})
    /\ LeaveStack(Pop(Items))

CheckSigOp ==
    /\ Execute({"CHECKSIG"})
    /\ LeaveStack(Append(Pop(2), Bool(CheckSigOk)))

CheckMultiSig ==
    /\ Execute({"CHECKMULTISIG", "CHECKMULTISIGVERIFY"})
    /\ Leave(Pop(MultiSigSize) \o IF Name = "CHECKMULTISIG"
                                  THEN <<Bool(~MultiSig.failed)>> ELSE <<>>,
             altstack, vfExec, pbegincodehash, CountedOps + KeysCount)

AltStack ==
    \/ /\ Execute({"TOALTSTACK"})
       /\ Leave(Pop(1), Append(altstack, Top(1)), vfExec, pbegincodehash,
                CountedOps)
    \/ /\ Execute({"FROMALTSTACK"})
       /\ Leave(Append(stack, Last(altstack)), Front(altstack), vfExec,
                pbegincodehash, CountedOps)

(* A changed CodeSeparator: the next operation is taken for the separator.   *)
CodeSeparatorFar ==
    /\ Execute({"CODESEPARATOR"})
    /\ Leave(stack, altstack, vfExec, pc + 2, CountedOps)

CodeSeparator ==
    /\ Execute({"CODESEPARATOR"})
    /\ Leave(stack, altstack, vfExec, pc + 1, CountedOps)

Nop == Execute({"NOP", "NOPn"}) /\ LeaveStack(stack)

If ==
    \/ /\ Execute({"IF", "NOTIF"})
       /\ Leave(Pop(1), altstack,
                Append(vfExec, CastToBool(Top(1)) = (Name = "IF")),
                pbegincodehash, CountedOps)
    \/ /\ Running /\ Permitted /\ ~fExec /\ Name \in {"IF", "NOTIF"}
       /\ Leave(stack, altstack, Append(vfExec, FALSE), pbegincodehash,
                CountedOps)

ElseOrEndIf ==
    /\ Running /\ Permitted /\ vfExec # <<>> /\ Name \in {"ELSE", "ENDIF"}
    /\ Leave(stack, altstack,
             Front(vfExec) \o IF Name = "ELSE" THEN <<~Last(vfExec)>> ELSE <<>>,
             pbegincodehash, CountedOps)

EvalStep ==
    \/ NotPermitted \/ OpFails \/ Skip \/ Push \/ Rearrange \/ IfDup
    \/ PickOrRoll \/ Measure \/ Arithmetic \/ Hash \/ Equal \/ Verified
    \/ CheckSigOp \/ CheckMultiSig \/ AltStack \/ CodeSeparator \/ Nop
    \/ If \/ ElseOrEndIf

-----------------------------------------------------------------------------
(* VerifyScript: one evaluation after another.                               *)

Unhandled == {"SIGPUSHONLY", "MINIMALDATA", "CHECKLOCKTIMEVERIFY",
              "CHECKSEQUENCEVERIFY", "CONST_SCRIPTCODE", "TAPROOT"}
StandardFlags == {"P2SH", "DERSIG", "STRICTENC", "LOW_S", "NULLDUMMY",
                  "NULLFAIL", "MINIMALIF", "CLEANSTACK", "WITNESS",
                  "DISCOURAGE_UPGRADABLE_NOPS", "WITNESS_PUBKEYTYPE",
                  "DISCOURAGE_UPGRADABLE_WITNESS_PROGRAM"}

StartScriptSig ==
    /\ phase = "idle" /\ trial <= Len(Trials)
    /\ IF flags \cap Unhandled # {} THEN Raise
       ELSE /\ Enter("scriptSig", inp.sig, <<>>)
            /\ UNCHANGED <<inp, trial, verdict, stackCopy>>

AtEnd(ph) == phase = ph /\ pc > Len(script) /\ vfExec = <<>>
Unterminated == phase # "idle" /\ pc > Len(script) /\ vfExec # <<>> /\ Raise

StartScriptPubKey ==
    /\ AtEnd("scriptSig")
    /\ stackCopy' = IF "P2SH" \in flags THEN stack ELSE <<>>
    /\ Enter("scriptPubKey", inp.pub, stack)
    /\ UNCHANGED <<inp, trial, verdict>>

ReturnsTrue == stack # <<>> /\ CastToBool(Last(stack))

(* A changed Conclude: a witness nobody asked for is let through.            *)
ConcludeAnyWitness(st, hadWitness) ==
    IF \/ "CLEANSTACK" \in flags /\ ("P2SH" \notin flags \/ Len(st) # 1)
       \/ "WITNESS" \in flags /\ "P2SH" \notin flags
    THEN Raise ELSE Answer("ok")

(* The last checks of VerifyScript, on the stack left and on whether a       *)
(* witness program was evaluated.                                            *)
Conclude(st, hadWitness) ==
    IF \/ "CLEANSTACK" \in flags /\ ("P2SH" \notin flags \/ Len(st) # 1)
       \/ /\ "WITNESS" \in flags
          /\ "P2SH" \notin flags \/ (~hadWitness /\ inp.wit # <<>>)
    THEN Raise ELSE Answer("ok")

(* A changed EvaluateWitness: the items of the witness are not measured.     *)
EvaluateAnyWitness(s, st) ==
    Enter("witness", s, st) /\ UNCHANGED <<inp, trial, verdict, stackCopy>>

(* VerifyWitnessProgram up to its call of EvalScript.                        *)
EvaluateWitness(s, st) ==
    IF \E i \in DOMAIN st : Size(st[i]) > MaxElement THEN Raise
    ELSE Enter("witness", s, st) /\ UNCHANGED <<inp, trial, verdict, stackCopy>>

WitnessProgram(s) ==
    LET program == s[2][2]
    IN IF WitnessVersion(s) # 0
       THEN IF "DISCOURAGE_UPGRADABLE_WITNESS_PROGRAM" \in flags THEN Raise
            ELSE Conclude(<<Last(stack)>>, TRUE)
       ELSE IF Size(program) = 32 /\ inp.wit # <<>>
               /\ program = <<"hash", "SHA256", Last(inp.wit)>>
       THEN EvaluateWitness(ScriptOf(Last(inp.wit)), Front(inp.wit))
       ELSE IF Size(program) = 20 /\ Len(inp.wit) = 2
       THEN EvaluateWitness(KeyHashScript(program), inp.wit)
       ELSE Raise

SpendsWitness(s) == "WITNESS" \in flags /\ IsWitnessScriptPubKey(s)
SpendsP2SH == "P2SH" \in flags /\ IsP2SH(inp.pub)

(* A changed EndScriptPubKey: the redeem script is run whatever the hash     *)
(* comparison of the scriptPubKey returned.                                  *)
EndScriptPubKeyUnchecked ==
    /\ AtEnd("scriptPubKey")
    /\ \/ ~ReturnsTrue /\ ~SpendsP2SH /\ Raise
       \/ /\ ReturnsTrue /\ SpendsWitness(inp.pub)
          /\ IF inp.sig # <<>> THEN Raise ELSE WitnessProgram(inp.pub)
       \/ /\ SpendsP2SH
          /\ IF ~Pushes(inp.sig) THEN Raise
             ELSE /\ Enter("redeemScript", ScriptOf(Last(stackCopy)),
                           Front(stackCopy))
                  /\ UNCHANGED <<inp, trial, verdict, stackCopy>>
       \/ /\ ReturnsTrue /\ ~SpendsWitness(inp.pub) /\ ~SpendsP2SH
          /\ Conclude(stack, FALSE)

EndScriptPubKey ==
    /\ AtEnd("scriptPubKey")
    /\ \/ ~ReturnsTrue /\ Raise
       \/ /\ ReturnsTrue /\ SpendsWitness(inp.pub)
          /\ IF inp.sig # <<>> THEN Raise ELSE WitnessProgram(inp.pub)
       \/ /\ ReturnsTrue /\ SpendsP2SH
          /\ IF ~Pushes(inp.sig) THEN Raise
             ELSE /\ Enter("redeemScript", ScriptOf(Last(stackCopy)),
                           Front(stackCopy))
                  /\ UNCHANGED <<inp, trial, verdict, stackCopy>>
       \/ /\ ReturnsTrue /\ ~SpendsWitness(inp.pub) /\ ~SpendsP2SH
          /\ Conclude(stack, FALSE)

EndRedeemScript ==
    /\ AtEnd("redeemScript")
    /\ \/ ~ReturnsTrue /\ Raise
       \/ /\ ReturnsTrue /\ SpendsWitness(script)
          /\ IF inp.sig # <<<<"PUSH", ElementOf(script)>>>> THEN Raise
             ELSE WitnessProgram(script)
       \/ ReturnsTrue /\ ~SpendsWitness(script) /\ Conclude(stack, FALSE)

(* A witness program must leave one true item; the stack that VerifyScript   *)
(* then examines is the first item of its own.                               *)
EndWitness ==
    /\ AtEnd("witness")
    /\ IF Len(stack) # 1 \/ ~ReturnsTrue THEN Raise
       ELSE Conclude(stack, TRUE)

(* The caller has no more flags to try.                                      *)
Finished == trial > Len(Trials) /\ UNCHANGED vars

Next ==
    \/ StartScriptSig \/ EvalStep \/ Unterminated \/ StartScriptPubKey
    \/ EndScriptPubKey \/ EndRedeemScript \/ EndWitness \/ Finished

Spec == Init /\ [][Next]_vars

-----------------------------------------------------------------------------
(* What the outputs of the usual templates ask of the input that spends      *)
(* them: the reference the interpreter is compared with.                     *)

Pushed(s) == [i \in DOMAIN s |-> IF s[i][1] = "PUSH" THEN s[i][2] ELSE Num(s[i][2])]
OnlyData(s) == \A i \in DOMAIN s : s[i][1] \in {"PUSH", "NUM"}

(* The script an input has to satisfy, with the elements it offers: none     *)
(* when the input does not fit the output.                                   *)
SpendsOfProgram(p, i) ==
    LET h == p[2][2] IN
    IF p[1] # <<"PUSH", Zero>> THEN {}
    ELSE IF Size(h) = 20 /\ Len(i.wit) = 2
    THEN {[script |-> KeyHashScript(h), with |-> i.wit, ver |-> "v0"]}
    ELSE IF i.wit # <<>> /\ h = <<"hash", "SHA256", Last(i.wit)>>
    THEN {[script |-> ScriptOf(Last(i.wit)), with |-> Front(i.wit), ver |-> "v0"]}
    ELSE {}
SpendsOfScript(s, with, i) ==
    IF IsWitnessScriptPubKey(s)
    THEN IF with = <<>> THEN SpendsOfProgram(s, i) ELSE {}
    ELSE IF i.wit = <<>> THEN {[script |-> s, with |-> with, ver |-> "base"]}
    ELSE {}
Spends(i) ==
    LET with == Pushed(i.sig) IN
    IF ~IsP2SH(i.pub) THEN SpendsOfScript(i.pub, with, i)
    ELSE IF with # <<>> /\ i.pub[2][2] = <<"hash", "HASH160", Last(with)>>
    THEN SpendsOfScript(ScriptOf(Last(with)), Front(with), i)
    ELSE {}

UsualKey(k, ver) ==
    k[1] = "key" /\ k[3] \in IF ver = "v0" THEN {"compressed"}
                                           ELSE {"compressed", "uncompressed"}
SignedBy(e, k, sp) ==
    UsualKey(k, sp.ver) /\ e = <<"sig", k[2], <<sp.ver, sp.script>>, "lowS">>

IsKeyScript(sp) ==
    /\ Len(sp.script) = 2
    /\ sp.script[1][1] = "PUSH" /\ UsualKey(sp.script[1][2], sp.ver)
    /\ sp.script[2] = <<"CHECKSIG">>
IsKeyHashScript(sp) ==
    /\ Len(sp.script) = 5 /\ sp.script[3][1] = "PUSH"
    /\ sp.script = KeyHashScript(sp.script[3][2])
IsMultiSigScript(sp) ==
    LET n == Len(sp.script) - 3 IN
    /\ n \in 1..MaxKeys
    /\ \A i \in 2..n + 1 : /\ sp.script[i][1] = "PUSH"
                           /\ UsualKey(sp.script[i][2], sp.ver)
    /\ sp.script[1] \in {<<"NUM", m>> : m \in 1..n}
    /\ sp.script[n + 2] = <<"NUM", n>>
    /\ sp.script[n + 3] = <<"CHECKMULTISIG">>

Satisfied(sp) ==
    LET offered == Len(sp.with) IN
    \/ /\ IsKeyScript(sp) /\ offered = 1
       /\ SignedBy(sp.with[1], sp.script[1][2], sp)
    \/ /\ IsKeyHashScript(sp) /\ offered = 2
       /\ sp.script[3][2] = <<"hash", "HASH160", sp.with[2]>>
       /\ SignedBy(sp.with[1], sp.with[2], sp)
    \/ /\ IsMultiSigScript(sp) /\ offered = 1 + sp.script[1][2]
       /\ sp.with[1] = Zero
       /\ \E by \in [1..offered - 1 -> 2..Len(sp.script) - 2] :
             /\ \A i, j \in DOMAIN by : i < j => by[i] < by[j]
             /\ \A i \in DOMAIN by :
                   SignedBy(sp.with[i + 1], sp.script[by[i]][2], sp)

-----------------------------------------------------------------------------
(* Properties.                                                               *)

FlagsTried == {Trials[i] : i \in DOMAIN verdict}
Accepted(F) == \E i \in DOMAIN verdict : Trials[i] = F /\ verdict[i] = "ok"

(* The interpreter's state is made of stack elements, positions and counts.  *)
TypeOK ==
    /\ DOMAIN inp = {"sig", "pub", "wit"}
    /\ trial \in 1..Len(Trials) + 1
    /\ verdict \in [1..trial - 1 -> {"ok", "rejected"}]
    /\ phase \in {"idle", "scriptSig", "scriptPubKey", "redeemScript", "witness"}
    /\ pc \in 1..Len(script) + 1
    /\ pbegincodehash \in 1..pc
    /\ \A i \in DOMAIN stack : Size(stack[i]) \in Nat
    /\ \A i \in DOMAIN vfExec : vfExec[i] \in BOOLEAN
    /\ nOpCount \in Nat

(* Every flag is a soft fork: an input accepted under a set of flags is      *)
(* accepted under every subset of it.  (WITNESS without P2SH is left out, a  *)
(* call that is refused as such; so is CLEANSTACK without WITNESS: a witness *)
(* program leaves two items, which WITNESS forgives.)                        *)
AddingFlagsOnlyRestricts ==
    phase = "idle" =>
    \A F, G \in FlagsTried :
        /\ F \subseteq G
        /\ "WITNESS" \in F => "P2SH" \in F
        /\ "CLEANSTACK" \in F => "WITNESS" \in F
        /\ Accepted(G)
        => Accepted(F)

(* Under the flags VerifyScript uses by default, an output of a usual        *)
(* template (to a key, to a key hash, to m of n keys; bare, P2SH, witness    *)
(* or witness inside P2SH) is spent exactly by the inputs that carry the     *)
(* signatures it asks for, in the order of its keys, and nothing else.       *)
UsualOutputsAskForTheirSignatures ==
    /\ phase = "idle" /\ StandardFlags \in FlagsTried
    /\ OnlyData(inp.sig)
    /\ \A sp \in Spends(inp) :
          IsKeyScript(sp) \/ IsKeyHashScript(sp) \/ IsMultiSigScript(sp)
    => (Accepted(StandardFlags) <=> \E sp \in Spends(inp) : Satisfied(sp))

(* A witness is accepted only where an output asks for it, and then the      *)
(* scriptSig is empty or the one push of the redeem script: nobody can add   *)
(* to an input without the verdict noticing it.                              *)
WitnessOnlyWhereExpected ==
    phase = "idle" =>
    \A F \in FlagsTried :
        /\ "WITNESS" \in F /\ Accepted(F) /\ inp.wit # <<>>
        => \/ IsWitnessScriptPubKey(inp.pub) /\ inp.sig = <<>>
           \/ /\ IsP2SH(inp.pub)
              /\ Len(inp.sig) = 1
              /\ \E s \in {ScriptOf(Pushed(inp.sig)[1])} :
                    /\ IsWitnessScriptPubKey(s)
                    /\ inp.sig = <<<<"PUSH", ElementOf(s)>>>>

(* The limits that bound the cost of a script hold after every operation:    *)
(* items on the stacks, bytes in each of them, and operations, where those   *)
(* in branches not taken count too.  (A witness may offer more items than    *)
(* the stacks can hold; the first operation finds out.)                      *)
WithinLimits ==
    /\ pc > 1 => Len(stack) + Len(altstack) <= MaxStack
    /\ \A e \in ToSet(stack) \cup ToSet(altstack) : Size(e) <= MaxElement
    /\ nOpCount <= MaxOps
    /\ nOpCount >= Cardinality({i \in 1..pc - 1 : ~Pushes(<<script[i]>>)})

(* Under NULLFAIL a check that fails and leaves the script running was given *)
(* empty signatures only: whoever relays the input cannot replace them.      *)
FailedChecksHoldNoSignature ==
    [][ /\ Running /\ phase' = phase
        /\ "NULLFAIL" \in flags
        /\ Name \in {"CHECKSIG", "CHECKMULTISIG"} /\ fExec
        /\ stack' # <<>> /\ Last(stack') = Zero
        => LET tried == IF Name = "CHECKSIG" THEN <<Top(2)>> ELSE Sigs
           IN \A i \in DOMAIN tried : tried[i] = Zero ]_vars

=============================================================================
