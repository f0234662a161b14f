------------------------------- MODULE Outputs -------------------------------
(***************************************************************************)
(* What coins are sent to: taproot outputs made of a key and a tree of     *)
(* scripts (core/script.py, core/key.py), the other standard outputs, and  *)
(* their addresses under the four chains (wallet.py, base58.py, bech32.py).*)
(* A hash is the term it is made of.  The concatenation of two hashes in   *)
(* order of value says no more than which two they are.                    *)
(***************************************************************************)
EXTENDS Naturals, SequencesExt

CONSTANTS Keys,       \* internal keys that are points of the curve
          OffCurve,   \* x-only keys that are not
          Odd,        \* the keys whose tweaked key has an odd Y
          Versions,   \* leaf versions
          MaxScripts, \* bound: scripts in a list of leaves
          MaxTrees,   \* bound: trees that hold one another
          None

ASSUME OutputsAssumption ==
  /\ Keys \intersect OffCurve = {} /\ Odd \subseteq Keys
  /\ Versions \subseteq {v \in 0 .. 254 : v % 2 = 0}
  /\ MaxScripts \in Nat \ {0} /\ MaxTrees \in Nat \ {0}
  /\ None \notin Keys \union OffCurve

VARIABLES trees,     \* the script trees made, the one in hand the last
          internal,  \* its internal_pubkey
          output,    \* its output_pubkey and parity, {[key, odd]} or {}
          address,   \* the last address made: [chain, kind, data], or None
          text       \* what it is written as, or was read from

vars == <<trees, internal, output, address, text>>

-----------------------------------------------------------------------------
(***************************************************************************)
(* A tree is [version, leaves, root, paths].  A leaf is a script, [name],  *)
(* or a tree made before, [tree], by its number; both are told apart by    *)
(* their class.                                                            *)
(***************************************************************************)
IsScript(leaf) == "name" \in DOMAIN leaf

LeafHash(script, version) == <<"TapLeaf", version, script>>
BranchHash(left, right)   == <<"TapBranch", {left, right}>>

HashOf(leaf, version) ==
  IF IsScript(leaf) THEN LeafHash(leaf, version) ELSE trees[leaf.tree].root

(* Mutant of Below: the hash that comes last on the way to the root is put *)
(* first.                                                                  *)
BelowFirst(paths, hash) == [i \in DOMAIN paths |-> <<hash>> \o paths[i]]

(* The paths of one side of a branch, whose other side has that hash.      *)
Below(paths, hash) == [i \in DOMAIN paths |-> Append(paths[i], hash)]

(* What _traverse computes of leaves that have these hashes: the root, and *)
(* the path of each leaf.  part[n][a] is that of n leaves from the a-th.   *)
(* The first part of a path in the code (the root of a nested tree, that   *)
(* is dropped where the path is used) is left out.                         *)
Traverse(hashes) ==
  LET N == Len(hashes)
      part[n \in 1 .. N] == [a \in 1 .. N - n + 1 |->
        IF n = 1 THEN [hash |-> hashes[a], paths |-> << <<>> >>]
        ELSE LET split == n \div 2
                 left  == part[split][a]
                 right == part[n - split][a + split]
             IN [hash  |-> BranchHash(left.hash, right.hash),
                 paths |-> Below(left.paths, right.hash)
                             \o Below(right.paths, left.hash)]]
  IN part[N][1]

(* Of a list of sets, the first that is not empty.                         *)
First(sets) ==
  UNION {sets[i] : i \in {j \in DOMAIN sets :
                            \A h \in DOMAIN sets : sets[h] # {} => j <= h}}

(* The script of that name in the k-th tree, its path to the root and its  *)
(* version: of the first leaf that is it or holds it.                      *)
ScriptWithPath(k, name) ==
  LET find[n \in 1 .. k] ==
        LET t == trees[n]
        IN First([i \in DOMAIN t.leaves |->
             IF IsScript(t.leaves[i])
             THEN IF t.leaves[i].name = name
                  THEN {[script |-> t.leaves[i], path |-> t.paths[i],
                         version |-> t.version]} ELSE {}
             ELSE {[s EXCEPT !.path = @ \o t.paths[i]] :
                     s \in find[t.leaves[i].tree]}])
  IN find[k]

(***************************************************************************)
(* Keys.  An empty merkle root, <<>>, tweaks with the key alone.           *)
(***************************************************************************)
ComputeTapTweakHash(pub, root) ==
  IF root = <<>> THEN <<"TapTweak", pub>> ELSE <<"TapTweak", pub, root>>

(* The point pub + tweak * G, and whether its Y is odd. *)
TweakAdd(pub, tweak) == [key |-> <<pub, tweak>>, odd |-> pub \in Odd]

(* Nothing when the key is not valid: the call raises. *)
TapTweakPubkey(pub, root) ==
  IF pub \in Keys THEN {TweakAdd(pub, ComputeTapTweakHash(pub, root))} ELSE {}

(* What a signature made with the private key of pub can be verified with, *)
(* given a merkle root; no tweak is applied when none is given.            *)
SignSchnorr(pub, given) ==
  IF given = {} THEN {pub}
  ELSE {TweakAdd(pub, ComputeTapTweakHash(pub, root)).key : root \in given}

(* bytes([leaf_version + parity]) + internal_pubkey + merkle_path; nothing *)
(* when there is no key or no output (ValueError, AssertionError), and     *)
(* when no script has that name.                                           *)
ScriptWithControlBlock(name) ==
  IF internal = None THEN {}
  ELSE {[script |-> s.script,
         block  |-> [first |-> s.version + (IF out.odd THEN 1 ELSE 0),
                     key |-> internal, path |-> s.path]] :
          out \in output, s \in ScriptWithPath(Len(trees), name)}

-----------------------------------------------------------------------------
(***************************************************************************)
(* Addresses.  data is what the output commits to.                         *)
(***************************************************************************)
Chains == {"main", "test", "regtest", "signet"}
Base58Kinds == {"p2pkh", "p2sh"}
Bech32Kinds == {"p2wpkh", "p2wsh", "p2tr"}
Kinds == Base58Kinds \union Bech32Kinds

DataLength(kind) == IF kind \in {"p2wsh", "p2tr"} THEN 32 ELSE 20
WitnessVersion(kind) == IF kind = "p2tr" THEN 1 ELSE 0

Base58Prefix(chain, kind) ==
  CASE chain = "main" /\ kind = "p2pkh" -> 0
    [] chain = "main" /\ kind = "p2sh"  -> 5
    [] chain # "main" /\ kind = "p2pkh" -> 111
    [] chain # "main" /\ kind = "p2sh"  -> 196

Bech32Hrp(chain) ==
  CASE chain = "main"    -> "bc"
    [] chain = "regtest" -> "bcrt"
    [] OTHER             -> "tb"

(* str(address) *)
Text(a) ==
  IF a.kind \in Base58Kinds
  THEN [base58 |-> Base58Prefix(a.chain, a.kind), length |-> DataLength(a.kind),
        data |-> a.data]
  ELSE [hrp |-> Bech32Hrp(a.chain), witver |-> WitnessVersion(a.kind),
        checksum |-> IF WitnessVersion(a.kind) = 0 THEN "bech32" ELSE "bech32m",
        length |-> DataLength(a.kind), data |-> a.data]

IsBase58(s) == "base58" \in DOMAIN s

(* segwit_addr.decode *)
Decodes(hrp, s) ==
  /\ s.hrp = hrp /\ s.witver <= 16 /\ s.length \in 2 .. 40
  /\ s.witver = 0 => s.length \in {20, 32}
  /\ s.checksum = IF s.witver = 0 THEN "bech32" ELSE "bech32m"

(* Mutant of MatchesProgram: the first class of the right length is taken. *)
MatchesLength(kind, s) == s.length = DataLength(kind)

MatchesProgram(kind, s) ==
  s.length = DataLength(kind) /\ s.witver = WitnessVersion(kind)

(* The class of kinds that a text is an address of under a chain.  The     *)
(* lengths of base58 data are compared after the class is found by its     *)
(* prefix: a TypeError, not the error of an address.                       *)
Matches(chain, kind, s) ==
  IF IsBase58(s)
  THEN /\ kind \in Base58Kinds /\ s.base58 = Base58Prefix(chain, kind)
       /\ s.length = DataLength(kind)
  ELSE /\ kind \in Bech32Kinds /\ Decodes(Bech32Hrp(chain), s)
       /\ MatchesProgram(kind, s)

(* CCoinAddress(s), or a concrete class of it, while the chain's classes   *)
(* are in effect: the address it gives, if any.                            *)
ReadAddress(chain, classes, s) ==
  {[chain |-> chain, kind |-> k, data |-> s.data] :
     k \in {x \in classes : Matches(chain, x, s)}}

(* The scriptPubKey, as the pushes and operations that predicates look at. *)
ToScriptPubKey(a) ==
  CASE a.kind = "p2pkh" -> <<"DUP", "HASH160", 20, a.data, "EQUALVERIFY", "CHECKSIG">>
    [] a.kind = "p2sh"  -> <<"HASH160", 20, a.data, "EQUAL">>
    [] OTHER -> <<WitnessVersion(a.kind), DataLength(a.kind), a.data>>

IsP2PKH(spk) ==
  /\ Len(spk) = 6 /\ spk[1] = "DUP" /\ spk[2] = "HASH160" /\ spk[3] = 20
  /\ spk[5] = "EQUALVERIFY" /\ spk[6] = "CHECKSIG"
IsP2SH(spk) ==
  Len(spk) = 4 /\ spk[1] = "HASH160" /\ spk[2] = 20 /\ spk[4] = "EQUAL"
IsWitness(spk, version, length) ==
  Len(spk) = 3 /\ spk[1] = version /\ spk[2] = length

IsOfKind(kind, spk) ==
  CASE kind = "p2pkh" -> IsP2PKH(spk)
    [] kind = "p2sh"  -> IsP2SH(spk)
    [] OTHER -> IsWitness(spk, WitnessVersion(kind), DataLength(kind))

FromScriptPubKey(chain, spk) ==
  {[chain |-> chain, kind |-> k,
    data |-> IF k = "p2pkh" THEN spk[4] ELSE spk[3]] :
     k \in {x \in Kinds : IsOfKind(x, spk)}}

-----------------------------------------------------------------------------
Init ==
  /\ trees = <<>> /\ internal = None /\ output = {}
  /\ address = None /\ text = None

Scripts(k, n) == [i \in 1 .. n |-> [name |-> <<k, i>>]]

(* TaprootScriptTree(leaves, leaf_version=version), beside those before. *)
Plant(before, leaves, version) ==
  LET made == Traverse([i \in DOMAIN leaves |-> HashOf(leaves[i], version)])
  IN /\ Len(leaves) > 0
     /\ Len(leaves) = 1 => IsScript(leaves[1])
     /\ trees' = Append(before, [version |-> version, leaves |-> leaves,
                                 root |-> made.hash, paths |-> made.paths])
     /\ internal' = None /\ output' = {} /\ address' = None /\ text' = None

(* A tree of n new scripts; one that holds a tree there is as well.        *)
PlantScripts(n, version) == Plant(<<>>, Scripts(1, n), version)
Enclose(n, at, k, version) ==
  /\ Len(trees) < MaxTrees
  /\ Plant(trees, InsertAt(Scripts(Len(trees) + 1, n), at, [tree |-> k]), version)

(* The key is set and the output forgotten before the new one is computed: *)
(* it stays forgotten when that raises.                                    *)
SetInternalPubkey(k) ==
  /\ trees # <<>>
  /\ internal' = k
  /\ output' = IF k = None THEN {} ELSE TapTweakPubkey(k, Last(trees).root)
  /\ address' = None /\ text' = None
  /\ UNCHANGED trees

(* The address there was is forgotten when the tree or its key changes,    *)
(* and one made of anything else is made while there is no tree.           *)
Make(a, t) ==
  /\ address' = a /\ text' = t
  /\ UNCHANGED <<trees, internal, output>>

MakeNew(chain, kind, data) ==
  LET a == [chain |-> chain, kind |-> kind, data |-> data] IN Make(a, Text(a))

(* P2TRCoinAddress.from_script_tree *)
FromScriptTree(chain) ==
  /\ trees # <<>> /\ internal # None
  /\ \E out \in output : MakeNew(chain, "p2tr", out.key)

(* from_pubkey.  A taproot output of a key alone commits to no script.     *)
FromPubkey(chain, kind, k, compressed, accept_uncompressed) ==
  /\ trees = <<>> /\ k \in Keys
  /\ compressed \/ (kind = "p2pkh" /\ accept_uncompressed)
  /\ \/ kind \in {"p2pkh", "p2wpkh"}
        /\ MakeNew(chain, kind, <<"Hash160", <<k, compressed>>>>)
     \/ kind = "p2tr"
        /\ \E t \in TapTweakPubkey(k, <<>>) : MakeNew(chain, kind, t.key)

(* from_redeemScript: nobody could spend the output of a script too long   *)
(* to be pushed, and no node would relay a witness script that is.         *)
FromRedeemScript(chain, kind, size) ==
  /\ trees = <<>>
  /\ \/ kind = "p2sh"  /\ size <= 520  /\ MakeNew(chain, kind, <<"Hash160", size>>)
     \/ kind = "p2wsh" /\ size <= 3600 /\ MakeNew(chain, kind, <<"SHA256", size>>)

(* Texts no address is written as: data of another length, an unknown      *)
(* version, the checksum of the other versions.                            *)
Foreign ==
  [base58 : {0, 5, 111, 196}, length : {19, 20}, data : {<<"Hash160", 0>>}] \union
  [hrp : {"bc", "tb"}, witver : {0, 1, 2}, checksum : {"bech32", "bech32m"},
   length : {20, 32}, data : {<<"SHA256", 0>>}]

(* A text is read, as any address or as one of a class, with the classes   *)
(* of a chain in effect.                                                   *)
ReadText(chain, classes, t) ==
  \E a \in ReadAddress(chain, classes, t) : Make(a, t)

Next ==
  \/ \E n \in 1 .. MaxScripts, v \in Versions : PlantScripts(n, v)
  \/ \E n \in 1 .. MaxScripts, k \in DOMAIN trees, v \in Versions :
       \E at \in 1 .. n + 1 : Enclose(n, at, k, v)
  \/ \E k \in Keys \union OffCurve \union {None} : SetInternalPubkey(k)
  \/ \E c \in Chains :
       \/ FromScriptTree(c)
       \/ \E kind \in Kinds, k \in Keys \union OffCurve, compressed, accept \in BOOLEAN :
            FromPubkey(c, kind, k, compressed, accept)
       \/ \E kind \in Kinds, size \in {520, 521, 3600, 3601} : FromRedeemScript(c, kind, size)
       \/ \E classes \in {Kinds} \union {{kind} : kind \in Kinds} :
            \/ text # None /\ ReadText(c, classes, text)
            \/ trees = <<>> /\ \E t \in Foreign : ReadText(c, classes, t)

Spec == Init /\ [][Next]_vars

-----------------------------------------------------------------------------
(* What hashing along a path comes to. *)
Climb(hash, path) ==
  LET up[n \in 0 .. Len(path)] ==
        IF n = 0 THEN hash ELSE BranchHash(up[n - 1], path[n])
  IN up[Len(path)]

(* BIP341: what a node computes of the script and the control block is the *)
(* key of the output.                                                      *)
Commits(s, out) ==
  LET odd  == s.block.first % 2
      root == Climb(LeafHash(s.script, s.block.first - odd), s.block.path)
  IN TapTweakPubkey(s.block.key, root) = {[key |-> out, odd |-> odd = 1]}

Names(k) ==
  LET names[n \in 1 .. k] ==
        UNION {IF IsScript(leaf) THEN {leaf.name} ELSE names[leaf.tree] :
                 leaf \in ToSet(trees[n].leaves)}
  IN names[k]

(* While a tree has an output, every script of it can be spent with its    *)
(* control block, whatever tree within the tree holds it, and the key path *)
(* with a signature tweaked by the merkle root; while it has none, no      *)
(* control block is given.                                                 *)
OutputsCanBeSpent ==
  trees # <<>> =>
    \A name \in Names(Len(trees)) :
      /\ output # {} <=> ScriptWithControlBlock(name) # {}
      /\ \A out \in output :
           /\ \A s \in ScriptWithControlBlock(name) :
                s.script.name = name /\ Commits(s, out.key)
           /\ SignSchnorr(internal, {Last(trees).root}) = {out.key}

(* An address reads as the text it was read from, under whichever chain    *)
(* and as whichever class it was read; it is read back from its text under *)
(* its chain; under another it means the same scriptPubKey or is refused;  *)
(* and the scriptPubKey leads back to the address.                         *)
AddressMeansItsScript ==
  address # None =>
    LET spk == ToScriptPubKey(address)
    IN /\ Text(address) = text
       /\ ReadAddress(address.chain, Kinds, text) = {address}
       /\ \A c \in Chains :
            /\ \A a \in ReadAddress(c, Kinds, text) : ToScriptPubKey(a) = spk
            /\ FromScriptPubKey(c, spk) = {[address EXCEPT !.chain = c]}

=============================================================================
