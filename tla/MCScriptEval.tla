---------------------------- MODULE MCScriptEval ----------------------------
(* Inputs that spend the usual outputs, rightly and wrongly, and scripts     *)
(* that try every operation and every nesting of conditionals.               *)
EXTENDS ScriptEval

key1 == <<"key", "k1", "compressed">>
key2 == <<"key", "k2", "compressed">>
long1 == <<"key", "k1", "uncompressed">>
hybrid1 == <<"key", "k1", "hybrid">>
TooLong == <<"data", MaxElement + 1>>

P(e) == <<"PUSH", e>>
O(name) == <<name>>
PushAll(els) == [i \in DOMAIN els |-> P(els[i])]
Hash160(e) == <<"hash", "HASH160", e>>
Sha256(e) == <<"hash", "SHA256", e>>
PayToKey(k) == <<P(k), O("CHECKSIG")>>
PayToKeyHash(k) == KeyHashScript(Hash160(k))
PayToScript(s) == <<O("HASH160"), P(Hash160(ElementOf(s))), O("EQUAL")>>
Program(h) == <<P(Zero), P(h)>>
MultiOf(m, ks) == <<<<"NUM", m>>>> \o PushAll(ks) \o
                  <<<<"NUM", Len(ks)>>, O("CHECKMULTISIG")>>

(* A script and the elements offered to it, as the output itself, behind a   *)
(* script hash, as a witness script, and as a witness script behind a hash.  *)
Spendings(s, els) ==
    LET e == ElementOf(s)
        redeem == PushAll(Append(els, e))
        nested == Program(Sha256(e))
    IN {[sig |-> PushAll(els), pub |-> s, wit |-> <<>>],
        [sig |-> redeem, pub |-> PayToScript(s), wit |-> <<>>],
        [sig |-> <<>>, pub |-> nested, wit |-> Append(els, e)],
        [sig |-> <<P(ElementOf(nested))>>, pub |-> PayToScript(nested),
         wit |-> Append(els, e)]}
KeyHashSpendings(k, els) ==
    LET program == Program(Hash160(k)) IN
    {[sig |-> <<>>, pub |-> program, wit |-> els],
     [sig |-> <<P(ElementOf(program))>>, pub |-> PayToScript(program), wit |-> els]}

(* A signature of k for script s; the base version signs no separators.      *)
S(k, ver, s, enc) ==
    LET signed(o) == ver = "v0" \/ o # O("CODESEPARATOR")
    IN <<"sig", k, <<ver, SelectSeq(s, signed)>>, enc>>

(* Elements an input offers to a script that checks one signature made for   *)
(* code: signatures of the right and the wrong key and version, encodings    *)
(* the flags tell apart, keys, and values that are no signature.             *)
Offers(code, ks) ==
    {S(k, ver, code, "lowS") : k \in {"k1", "k2"}, ver \in {"base", "v0"}}
    \cup {S("k1", ver, code, enc) : ver \in {"base", "v0"},
                                    enc \in {"highS", "oddHashtype", "lax"}}
    \cup {Zero, Num(1)} \cup ks

OneKey ==
    UNION {UNION {Spendings(PayToKey(k), els) : els \in BoundedSeq(
                      Offers(PayToKey(k), {}), 1)
                      \cup {<<Num(1), S("k1", "base", PayToKey(k), "lowS")>>}}
           : k \in {key1, long1, hybrid1}}
KeyHash ==
    UNION {UNION {Spendings(PayToKeyHash(k), els) \cup KeyHashSpendings(k, els)
                  : els \in {<<a, b>> : a \in Offers(PayToKeyHash(k), {key1}),
                                        b \in {key1, long1, Zero}}}
           : k \in {key1, long1}}

(* Two of three keys, and one of two: the dummy and the signatures.          *)
Multi ==
    UNION {LET s == MultiOf(m, ks) IN
           UNION {Spendings(s, els) : els \in
               {<<d>> \o sigs : d \in {Zero, Num(1), <<"negzero", 0>>},
                sigs \in [1..m -> {S("k1", "base", s, "lowS"), Zero,
                                   S("k1", "v0", s, "lowS"),
                                   S("k2", "v0", s, "lowS"),
                                   S("k2", "base", s, "lowS"),
                                   S("k2", "base", s, "highS")}]}}
           : m \in 1..2, ks \in {<<key1, key2>>, <<key2, long1, key1>>}}

(* Checks among separators, in branches, with their answer negated, and with *)
(* the signature checked inside the script that it signs.                    *)
Separated ==
    LET sep == O("CODESEPARATOR")
        check == PayToKey(key1)
        negated == Append(check, O("NOT"))
        many == MultiOf(1, <<key1, key2>>)
        taken(n) == <<IF n = 0 THEN P(Zero) ELSE <<"NUM", n>>,
                      O("IF"), sep, O("ENDIF")>> \o check
        twice == <<P(key1), O("CHECKSIGVERIFY"), sep>> \o check
        sig(code, ver, enc) == S("k1", ver, code, enc)
        inside(code) == <<P(sig(code, "base", "lowS")), O("DROP")>> \o code
    IN UNION {
        UNION {Spendings(<<sep>> \o check, <<sig(check, ver, "lowS")>>) :
                  ver \in {"base", "v0"}},
        UNION {Spendings(taken(n), <<sig(c, ver, "lowS")>>) : n \in 0..1,
               ver \in {"base", "v0"},
               c \in {check, taken(1), <<O("ENDIF")>> \o check}},
        UNION {Spendings(twice, <<sig(check, ver, "lowS"), sig(c, ver, "lowS")>>) :
               ver \in {"base", "v0"},
               c \in {check, twice}},
        UNION {Spendings(negated, <<e>>) :
               e \in Offers(negated, {}) \cup {S("k2", "base", negated, "lax")}},
        UNION {Spendings(Append(many, O("NOT")), <<Zero, e>>) :
               e \in Offers(Append(many, O("NOT")), {})},
        UNION {Spendings(many \o <<O("VERIFY"), <<"NUM", 1>>>>, <<Zero, e>>) :
               e \in Offers(many, {})},
        {[sig |-> <<P(sig(<<O("DROP")>> \o check, "base", "lowS"))>>,
          pub |-> inside(<<O("DROP")>> \o check), wit |-> <<>>]},
        UNION {Spendings(Append(Front(many), O("CHECKMULTISIGVERIFY")), els) :
               els \in {<<Num(1), Zero, e>> : e \in
                        {Zero, S("k2", "base", Append(Front(many),
                                 O("CHECKMULTISIGVERIFY")), "lowS")}}}}

(* Outputs whose redeem script or program is answered in the wrong place.    *)
Misplaced ==
    LET s == <<<<"NUM", 1>>>>
        nested == Program(Sha256(ElementOf(s)))
        later == <<<<"NUM", 1>>, P(Sha256(ElementOf(s)))>>
        wits == {<<>>, <<ElementOf(s)>>, <<Num(1), ElementOf(s)>>,
                 <<TooLong, ElementOf(s)>>, <<Zero, Zero>>, <<Zero>>}
        sigs == {<<>>, <<P(ElementOf(s))>>, <<P(Zero)>>, <<O("NOP")>>,
                 <<P(ElementOf(nested))>>, <<<<"NUM", 1>>, P(ElementOf(nested))>>,
                 <<O("NOP"), P(ElementOf(nested))>>, <<P(ElementOf(later))>>,
                 <<P(ElementOf(s)), O("NOP")>>, <<O("RESERVED")>>,
                 <<<<"NUM", 1>>, P(ElementOf(s))>>}
        pubs == {s, nested, later, PayToScript(s), PayToScript(nested),
                 PayToScript(later), PayToScript(<<>>), Program(key1),
                 Program(Sha256(Zero)), <<<<"NUM", -1>>, P(Sha256(Zero))>>}
    IN [sig : sigs, pub : pubs, wit : wits]

(* Every operation, on the stacks that tell its cases apart.                 *)
Operations ==
    LET values == {Zero, Num(1), Num(2), <<"negzero", 0>>, Num(MaxNum)}
        three == [1..3 -> values] \cup {<<a>> : a \in values}
                 \cup {<<a, b>> : a, b \in {Num(-1), Num(2), Num(MaxNum + 1)}}
        plain == (DOMAIN Shuffle \cup Unary \cup Binary \cup Hashes \cup Disabled)
                 \cup {"IFDUP", "PICK", "ROLL", "DEPTH", "SIZE", "WITHIN",
                       "EQUAL", "EQUALVERIFY", "VERIFY", "NOP", "NOPn", "RETURN",
                       "RESERVED", "UNKNOWN", "TOALTSTACK", "FROMALTSTACK"}
        few == {<<Zero, Num(2), Num(1)>>, <<Num(2), Num(2)>>, <<Num(1)>>, <<>>,
                <<Num(1), <<"negzero", 0>>>>, <<Num(-1), Num(MaxNum + 1)>>,
                <<Num(1), Num(2), Num(3), Num(4), Num(5), Num(6)>>}
        aside == <<<<"NUM", 2>>, <<"NUM", 1>>, O("TOALTSTACK")>>
    IN {[sig |-> PushAll(els), pub |-> <<O(o)>>, wit |-> <<>>] :
           els \in few, o \in plain}
       \cup {[sig |-> aside, pub |-> <<O("FROMALTSTACK")>>, wit |-> <<>>],
             [sig |-> <<>>, pub |-> Append(aside, O("FROMALTSTACK")), wit |-> <<>>]}
       \cup {[sig |-> PushAll(els), pub |-> <<O(o)>>, wit |-> <<>>] :
           els \in three, o \in {"WITHIN", "PICK", "ROLL", "ADD", "SUB"}}

(* Conditionals in any order, and scripts about the limits.                  *)
Flow ==
    LET ops == {P(Zero), <<"NUM", 1>>, O("IF"), O("ELSE"), O("ENDIF")}
        bodies == BoundedSeq(ops, 4)
                  \cup {<<a, O("IF"), b, O("ELSE"), c, O("ENDIF")>> :
                        a, b, c \in {P(Zero), <<"NUM", 1>>, <<"NUM", 2>>,
                            O("MUL"), O("RETURN"), O("TRUNCATED"), P(TooLong)}}
    IN {[sig |-> <<<<"NUM", 1>>>>, pub |-> b, wit |-> <<>>] : b \in bodies}
       \cup {[sig |-> <<>>, pub |-> Program(Sha256(ElementOf(b))),
              wit |-> <<e, ElementOf(b)>>] :
             e \in {Zero, Num(1), Num(2), Num(MaxNum)},
             b \in {<<O(o), <<"NUM", 1>>, O("ELSE"), P(Zero), O("ENDIF")>> :
                    o \in {"IF", "NOTIF"}}}
Limits ==
    LET many(o, n) == [i \in 1..n |-> o]
        dead(n) == <<P(Zero), O("IF")>> \o many(O("NOP"), n) \o
                   <<O("ENDIF"), <<"NUM", 1>>>>
    IN {[sig |-> <<>>, pub |-> b, wit |-> <<>>] : b \in
           {dead(n) : n \in {MaxOps - 2, MaxOps - 1}} \cup
           {many(<<"NUM", 1>>, n) : n \in {MaxStack, MaxStack + 1, MaxScript + 1}}}
       \cup {[sig |-> many(<<"NUM", 1>>, MaxStack - 1),
              pub |-> <<O("TOALTSTACK"), <<"NUM", 1>>>> \o
                      many(<<"NUM", 1>>, n), wit |-> <<>>] : n \in 0..1}
       \cup {[sig |-> <<>>, pub |-> Program(Sha256(ElementOf(b))),
              wit |-> Append(many(Num(1), MaxStack + 1), ElementOf(b))] :
             b \in {<<O("DROP"), O("DROP")>>, <<O("2DROP")>>}}

MCInputs == OneKey \cup KeyHash \cup Multi \cup Separated \cup Misplaced
            \cup Operations \cup Flow \cup Limits

Base == {"P2SH", "WITNESS"}
MCTrials ==
    << {}, {"P2SH"}, {"DERSIG"}, Base, Base \cup {"LOW_S"},
       Base \cup {"NULLDUMMY", "MINIMALIF"},
       Base \cup {"NULLFAIL", "STRICTENC"}, Base \cup {"CLEANSTACK"},
       StandardFlags, StandardFlags \cup {"TAPROOT"} >>

=============================================================================
