------------------------------- MODULE Opcodes -------------------------------
(* One turn of the loop of _EvalScript (core/scripteval.py) as a function of *)
(* the frame it finds: whether the operation may run, what it reads from the *)
(* stack, where it raises under the flags, and what the signature checks     *)
(* answer.  ScriptEval takes these definitions for its variables, and its    *)
(* proofs take them for every frame and every set of flags.                  *)
(*                                                                           *)
(* Stack elements and operations are tuples whose first component says what  *)
(* the bytes are.  An element is <<"num", n>> (minimally encoded; zero is    *)
(* the empty string), <<"negzero", 0>> (the byte 0x80), <<"key", k, form>>,  *)
(* <<"sig", k, sighash, encoding>>, <<"hash", op, element>>,                 *)
(* <<"script", operations>> or <<"data", size>>.  An operation is            *)
(* <<"PUSH", element>>, <<"NUM", n>> (OP_1NEGATE, OP_1 .. OP_16) or <<name>>.*)
EXTENDS Integers, Sequences

CONSTANTS
    MaxScript, MaxOps, MaxStack, MaxElement, MaxNum, MaxKeys, \* see ScriptEval
    flags,    \* the flags of the call
    phase,    \* the script being evaluated
    script, pc, stack, altstack, vfExec, nOpCount,   \* _EvalScript's locals
    pbegincodehash

-----------------------------------------------------------------------------
(* Stack elements.                                                           *)

Zero == <<"num", 0>>
Num(n) == <<"num", n>>
Bool(b) == Num(IF b THEN 1 ELSE 0)

Abs(n) == IF n < 0 THEN -n ELSE n
NumSize(n) == IF n = 0 THEN 0 ELSE IF Abs(n) <= 127 THEN 1
              ELSE IF Abs(n) <= MaxNum THEN 4 ELSE 5

TwentyByteHashes == {"HASH160", "RIPEMD160", "SHA1"}
Hashes == TwentyByteHashes \cup {"HASH256", "SHA256"}

(* Bytes in an element.  A script pushed as data is one of 100 bytes.        *)
Size(e) ==
    CASE e[1] = "num"     -> NumSize(e[2])
      [] e[1] = "negzero" -> 1
      [] e[1] = "key"     -> IF e[3] = "compressed" THEN 33 ELSE 65
      [] e[1] = "sig"     -> 71
      [] e[1] = "hash"    -> IF e[2] \in TwentyByteHashes THEN 20 ELSE 32
      [] e[1] = "script"  -> 100
      [] e[1] = "data"    -> e[2]

(* _CastToBool: negative zero is false.                                      *)
CastToBool(e) == e[1] # "negzero" /\ e # Zero

(* _CastToBigNum: whether it raises, and what it returns.                    *)
IsBigNum(e) == e[1] \in {"num", "negzero"} /\ Size(e) <= 4
BigNum(e) == e[2]

(* The script that the bytes of an element make; elements that are not       *)
(* scripts end inside a push.                                                *)
ScriptOf(e) ==
    IF e = Zero THEN <<>>
    ELSE IF e[1] = "script" THEN e[2] ELSE <<<<"TRUNCATED">>>>
ElementOf(s) == IF s = <<>> THEN Zero ELSE <<"script", s>>

-----------------------------------------------------------------------------
(* Classes of operations and of scripts.                                     *)

Op == script[pc]
Name == Op[1]

Disabled == {"VERIF", "CAT", "MUL"}
Conditionals == {"IF", "NOTIF", "ELSE", "ENDIF"}
Pushes(s) == \A i \in DOMAIN s : s[i][1] \in {"PUSH", "NUM", "RESERVED"}

IsP2SH(s) ==
    /\ Len(s) = 3
    /\ s[1] = <<"HASH160">> /\ s[3] = <<"EQUAL">>
    /\ s[2][1] = "PUSH" /\ Size(s[2][2]) = 20

IsWitnessScriptPubKey(s) ==
    /\ Len(s) = 2
    /\ \/ s[1] = <<"PUSH", Zero>>
       \/ s[1][1] = "NUM" /\ s[1][2] # -1
    /\ s[2][1] = "PUSH" /\ Size(s[2][2]) \in 2..40
WitnessVersion(s) == IF s[1][1] = "NUM" THEN s[1][2] ELSE 0

KeyHashScript(h) ==
    << <<"DUP">>, <<"HASH160">>, <<"PUSH", h>>, <<"EQUALVERIFY">>,
       <<"CHECKSIG">> >>

(* What a stack operation finds and leaves: how many items it reads, and     *)
(* those it puts back, numbered from the top of the stack down.              *)
Shuffle ==
    [ DROP  |-> <<1, <<>> >>,                 2DROP |-> <<2, <<>> >>,
      DUP   |-> <<1, <<1, 1>> >>,             2DUP  |-> <<2, <<2, 1, 2, 1>> >>,
      3DUP  |-> <<3, <<3, 2, 1, 3, 2, 1>> >>, NIP   |-> <<2, <<1>> >>,
      OVER  |-> <<2, <<2, 1, 2>> >>,          ROT   |-> <<3, <<2, 1, 3>> >>,
      2OVER |-> <<4, <<4, 3, 2, 1, 4, 3>> >>, SWAP  |-> <<2, <<1, 2>> >>,
      2ROT  |-> <<6, <<4, 3, 2, 1, 6, 5>> >>, TUCK  |-> <<2, <<1, 2, 1>> >>,
      2SWAP |-> <<4, <<2, 1, 4, 3>> >> ]

-----------------------------------------------------------------------------
(* Signature checks.                                                         *)

sigversion == IF phase = "witness" THEN "v0" ELSE "base"

(* FindAndDelete: the script less the signatures being checked and the       *)
(* separators.                                                               *)
Unsigned(code, sigs) ==
    LET deleted == {<<"PUSH", s>> : s \in sigs} \cup {<<"CODESEPARATOR">>}
        kept[n \in 0..Len(code)] ==
            IF n = 0 THEN <<>>
            ELSE IF code[n] \in deleted THEN kept[n - 1]
            ELSE Append(kept[n - 1], code[n])
    IN kept[Len(code)]

(* What a signature made for the running script signs: the script after the  *)
(* last executed OP_CODESEPARATOR, all of it in a witness program.           *)
Sighash(sigs) ==
    LET code == SubSeq(script, pbegincodehash, Len(script))
    IN <<sigversion, IF sigversion = "v0" THEN code ELSE Unsigned(code, sigs)>>

StrictEncodingFlags == {"DERSIG", "LOW_S", "STRICTENC"}
StrictDER == {"lowS", "highS", "oddHashtype"}

(* Where _CheckSig raises rather than answers.                               *)
CheckSigRaises(sig, key) ==
    /\ sig # Zero
    /\ \/ /\ flags \cap StrictEncodingFlags # {}
          /\ ~(sig[1] = "sig" /\ sig[4] \in StrictDER)
       \/ /\ "STRICTENC" \in flags
          /\ \/ sig[4] = "oddHashtype"
             \/ ~(key[1] = "key" /\ key[3] \in {"compressed", "uncompressed"})
       \/ /\ "WITNESS_PUBKEYTYPE" \in flags /\ sigversion = "v0"
          /\ ~(key[1] = "key" /\ key[3] = "compressed")
       \/ "LOW_S" \in flags /\ sig[4] = "highS"
CheckSig(sig, key, hash) ==
    sig[1] = "sig" /\ key[1] = "key" /\ sig[2] = key[2] /\ sig[3] = hash

(* stack[-i], and the stack without its last n items.                        *)
Top(i) == stack[Len(stack) + 1 - i]
Pop(n) == SubSeq(stack, 1, Len(stack) - n)
Has(n) == Len(stack) >= n

(* _CheckMultiSig's reading of the stack: keys_count, sigs_count, and the    *)
(* keys and signatures in the order they are tried.                          *)
KeysCount == BigNum(Top(1))
SigsCount == BigNum(Top(KeysCount + 2))
Keys == [i \in 1..KeysCount |-> Top(1 + i)]
Sigs == [i \in 1..SigsCount |-> Top(KeysCount + 2 + i)]
MultiSigSize == KeysCount + SigsCount + 3
MultiSigHash == Sighash({Sigs[i] : i \in DOMAIN Sigs})

MultiSigMalformed ==
    \/ ~Has(1) \/ ~IsBigNum(Top(1)) \/ KeysCount \notin 0..MaxKeys
    \/ nOpCount + 1 + KeysCount > MaxOps
    \/ ~Has(KeysCount + 2) \/ ~IsBigNum(Top(KeysCount + 2))
    \/ SigsCount \notin 0..KeysCount
    \/ ~Has(MultiSigSize)

(* A changed TryKey: the keys left are counted before this one is taken.     *)
TryKeyCountedLate(m, key, left) ==
    LET sig == Sigs[m.next]
        next == IF CheckSig(sig, key, MultiSigHash)
                THEN m.next + 1 ELSE m.next
    IN IF m.next > SigsCount \/ m.failed THEN m
       ELSE [next |-> next, failed |-> SigsCount - next + 1 > left + 1,
             tried |-> m.tried \cup {<<sig, key>>}]

(* One turn of the loop that walks the keys: the next signature either       *)
(* matches or has one key less to match.  The program leaves the loop at a   *)
(* check that raises; the walk keeps what it tried, and MultiSigRaises asks  *)
(* whether one of those raises.                                              *)
TryKey(m, key, left) ==
    LET sig == Sigs[m.next]
        next == IF CheckSig(sig, key, MultiSigHash)
                THEN m.next + 1 ELSE m.next
    IN IF m.next > SigsCount \/ m.failed THEN m
       ELSE [next |-> next, failed |-> SigsCount - next + 1 > left,
             tried |-> m.tried \cup {<<sig, key>>}]

MultiSig ==
    LET walk[i \in 0..KeysCount] ==
            IF i = 0 THEN [next |-> 1, failed |-> FALSE, tried |-> {}]
            ELSE TryKey(walk[i - 1], Keys[i], KeysCount - i)
    IN walk[KeysCount]

(* A changed MultiSigRaises: the clean-up starts one item below the first    *)
(* signature.                                                                *)
MultiSigRaisesLate ==
    \/ MultiSigMalformed
    \/ \E t \in MultiSig.tried : CheckSigRaises(t[1], t[2])
    \/ /\ MultiSig.failed
       /\ \/ Name = "CHECKMULTISIGVERIFY"
          \/ "NULLFAIL" \in flags /\ \E i \in 2..SigsCount : Sigs[i] # Zero
    \/ "NULLDUMMY" \in flags /\ Top(MultiSigSize) # Zero

MultiSigRaises ==
    \/ MultiSigMalformed
    \/ \E t \in MultiSig.tried : CheckSigRaises(t[1], t[2])
    \/ /\ MultiSig.failed
       /\ \/ Name = "CHECKMULTISIGVERIFY"
          \/ "NULLFAIL" \in flags /\ \E i \in DOMAIN Sigs : Sigs[i] # Zero
    \/ "NULLDUMMY" \in flags /\ Top(MultiSigSize) # Zero

-----------------------------------------------------------------------------
(* Numbers.                                                                  *)

Unary == {"1ADD", "1SUB", "NEGATE", "ABS", "NOT", "0NOTEQUAL"}
Binary == {"ADD", "SUB", "BOOLAND", "BOOLOR", "NUMEQUAL", "NUMEQUALVERIFY",
           "NUMNOTEQUAL", "LESSTHAN", "GREATERTHAN", "LESSTHANOREQUAL",
           "GREATERTHANOREQUAL", "MIN", "MAX"}

UnaryOp(a) ==
    CASE Name = "1ADD"      -> Num(a + 1)
      [] Name = "1SUB"      -> Num(a - 1)
      [] Name = "NEGATE"    -> Num(-a)
      [] Name = "ABS"       -> Num(Abs(a))
      [] Name = "NOT"       -> Bool(a = 0)
      [] Name = "0NOTEQUAL" -> Bool(a # 0)

BinOp(a, b) ==
    CASE Name = "ADD"         -> Num(a + b)
      [] Name = "SUB"         -> Num(a - b)
      [] Name = "BOOLAND"     -> Bool(a # 0 /\ b # 0)
      [] Name = "BOOLOR"      -> Bool(a # 0 \/ b # 0)
      [] Name = "NUMEQUAL"    -> Bool(a = b)
      [] Name = "NUMNOTEQUAL" -> Bool(a # b)
      [] Name = "LESSTHAN"    -> Bool(a < b)
      [] Name = "GREATERTHAN" -> Bool(a > b)
      [] Name = "LESSTHANOREQUAL"    -> Bool(a <= b)
      [] Name = "GREATERTHANOREQUAL" -> Bool(a >= b)
      [] Name = "MIN" -> Num(IF a < b THEN a ELSE b)
      [] Name = "MAX" -> Num(IF a > b THEN a ELSE b)

-----------------------------------------------------------------------------
(* The turn itself.                                                          *)

(* nOpCount with the current operation; checked, as the size of a push is,   *)
(* whether or not the operation is executed.                                 *)
CountedOps == nOpCount + IF Pushes(<<Op>>) THEN 0 ELSE 1
Permitted ==
    /\ Len(script) <= MaxScript
    /\ Name \notin Disabled \cup {"TRUNCATED"}
    /\ CountedOps <= MaxOps
    /\ Name = "PUSH" => Size(Op[2]) <= MaxElement
fExec == \A i \in DOMAIN vfExec : vfExec[i]

(* Items an operation must find on the stack, and how many of them, from the *)
(* top, must be numbers.                                                     *)
Items ==
    CASE Name \in DOMAIN Shuffle -> Shuffle[Name][1]
      [] Name \in Unary \cup Hashes -> 1
      [] Name \in {"IFDUP", "SIZE", "TOALTSTACK", "VERIFY", "IF", "NOTIF"} -> 1
      [] Name \in Binary \cup {"EQUAL", "EQUALVERIFY", "PICK", "ROLL",
                               "CHECKSIG", "CHECKSIGVERIFY"} -> 2
      [] Name = "WITHIN" -> 3
      [] OTHER -> 0
Operands ==
    CASE Name \in Unary \cup {"PICK", "ROLL"} -> 1
      [] Name \in Binary -> 2
      [] Name = "WITHIN" -> 3
      [] OTHER -> 0

CheckSigOk == CheckSig(Top(2), Top(1), Sighash({Top(2)}))

(* Where an executed operation raises.                                       *)
OpRaises ==
    \/ ~Has(Items)
    \/ \E i \in 1..Operands : ~IsBigNum(Top(i))
    \/ Name \in {"RETURN", "RESERVED", "UNKNOWN"}
    \/ Name = "NOPn" /\ "DISCOURAGE_UPGRADABLE_NOPS" \in flags
    \/ Name = "FROMALTSTACK" /\ altstack = <<>>
    \/ Name = "VERIFY" /\ ~CastToBool(Top(1))
    \/ Name = "EQUALVERIFY" /\ Top(1) # Top(2)
    \/ Name = "NUMEQUALVERIFY" /\ BigNum(Top(1)) # BigNum(Top(2))
    \/ Name \in {"PICK", "ROLL"} /\ BigNum(Top(1)) \notin 0..(Len(stack) - 2)
    \/ Name \in {"ELSE", "ENDIF"} /\ vfExec = <<>>
    \/ /\ Name \in {"IF", "NOTIF"}
       /\ sigversion = "v0" /\ "MINIMALIF" \in flags
       /\ Top(1) \notin {Zero, Num(1)}
    \/ /\ Name \in {"CHECKSIG", "CHECKSIGVERIFY"}
       /\ \/ CheckSigRaises(Top(2), Top(1))
          \/ ~CheckSigOk /\ \/ Name = "CHECKSIGVERIFY"
                            \/ "NULLFAIL" \in flags /\ Top(2) # Zero
    \/ Name \in {"CHECKMULTISIG", "CHECKMULTISIGVERIFY"} /\ MultiSigRaises

OpCompletes == ~OpRaises

=============================================================================
