# TLA+ models of python-bitcointx

python-bitcointx is a library: it has no process of its own, keeps nothing on
disk and sends messages only as an RPC client. What can go wrong in it that a
unit test hardly reaches is in its long-lived *objects* and its *ambient state*:
an object that may be used once and is shared by threads; class dispatchers, chain
parameters and a mutable flag that live in context variables; transactions whose
parts may be shared between objects that believe to own them; a PSBT that several
parties copy, sign, merge and extend; a key store that many keys are added to in
any order; a connection that outlives the calls that failed on it; and, though it
lives only as long as a call, the script interpreter, whose verdict depends on the
interplay of a dozen flags, four scripts and three counters. This directory models
those parts, checks the models with TLC on small instances, and proves the most
important invariants with TLAPS for every instance.

All paths below are relative to `src/bitcointx/`.

## 1. The system

| component | source | state it keeps | operations | modelled in |
|---|---|---|---|---|
| MuSig2 secret nonces | `core/musig.py` | `SecNonce`: secret buffer, bound public key, used flag, lock; the caller's `rand` bytearray | `nonce_gen`, `sign_partial` / `SecNonce._sign`, `__del__` | `MuSigNonce` |
| MuSig2 key aggregation, sessions | `core/musig.py` | none (`KeyAggCache` and `Session` never change) | `key_agg`, `apply_xonly_tweak`, `nonce_agg`, `get_session`, `partial_sig_verify`, `partial_sig_agg` | - |
| class dispatch, chain parameters | `util.py`, `__init__.py` | per context: the active dispatcher of each identity, the selected `ChainParams` | `activate_class_dispatcher`, the wrapper of every method of a dispatched class, `select_chain_params`, `with ChainParams(...)` | `ClassDispatch` |
| mutable context | `core/__init__.py` | per context: whether new objects are made mutable | the wrapper of the methods of mutable classes | `CoreTx` |
| core transaction types | `core/__init__.py`, `core/serialize.py` | objects that hold each other; cached hashes | constructors, `from_instance`, conversion and copying, editing, serialization | `CoreTx` (no blocks, no `CheckTransaction`) |
| PSBT: signing, combining | `core/psbt.py`, `core/script.py` | per input: utxo, scripts, partial signatures, final scripts, unknown fields | `sign`, `is_final`, `merge`, `combine`, `clone`, `serialize`, `deserialize`, `extract_transaction` | `PSBTSigning` |
| PSBT: assembly | `core/psbt.py`, `core/serialize.py` | the shared `unsigned_tx` object, its cached hash; the inputs and outputs | constructor, `clone`, `merge`, `add_input`, `add_output`, `GetHash` | `PSBTAssembly` |
| script interpreter | `core/scripteval.py` | the stacks, condition stack and counters of one evaluation | `EvalScript`, `VerifyScript`, `VerifyWitnessProgram` | `ScriptEval`, `Opcodes` |
| scripts, signature hashes | `core/script.py` | `TaprootScriptTree`: its key and output | building, parsing, sighash, Taproot trees | `Outputs` (trees), `ScriptEval` (parsing) |
| keys, BIP32, `KeyStore` | `core/key.py` | `KeyStore`: keys by id, extended keys by fingerprint and path, their templates | derivation, paths and templates, `add_key`, `remove_key`, `get_privkey`, `get_pubkey` | `BIP32`, `KeyStore` |
| addresses | `wallet.py`, `base58.py`, `bech32.py`, `segwit_addr.py` | none | conversion from and to keys, scripts and text | `Outputs` |
| RPC client | `rpc.py` | one HTTP connection, an id counter, where the node is | configuration, `connect`, `close`, `_call`, `_batch` | `RPCConfig`, `RPCClient` |
| libsecp256k1, libbitcoinconsensus | `core/secp256k1.py`, `core/bitcoinconsensus.py` | library handles | foreign calls | - |
| signed messages, hashes | `signmessage.py`, `core/sha256.py`, ... | none | pure functions | - |

**How they interact.** Every call of a method of a dispatched class (`CScript`,
`CTransaction`, `PartiallySignedTransaction`, the wallet classes) goes through
the wrapper of class dispatch, which activates the dispatcher of the class for
as long as the method runs; a method of a mutable class also turns the mutable
context on, and every constructor that it calls then gives a mutable object.
Chain parameters decide which dispatchers are active outside of any method, and
with them what an address text means and which section of a configuration file an
`RPCCaller` reads. A PSBT refers to a transaction object which it may share with
other PSBTs; `PartiallySignedTransaction.sign` asks a `KeyStore` for keys and a
script helper of `core/script.py` for witness stacks; `VerifyScript` runs
`EvalScript` on up to four scripts, one on the stack the other left, and asks
`core/script.py` for signature hashes; `serialize` and `extract_transaction` call
`sign` with an empty `KeyStore`. `sign_partial` of MuSig2 takes a `SecNonce`, a
`CKey` and a `Session`, and hands the secret to libsecp256k1 under the lock of the
nonce.

**What is hard in it.**

- *Threads*: a `SecNonce` or an `RPCCaller` is shared between threads, and the GIL
  is released in every native call and while a socket is waited for. New threads
  begin with default context variables, asyncio tasks with a copy of their creator's.
- *Signals*: a handler can raise in the main thread between any two bytecodes,
  also before a `try` and inside a `finally`.
- *Timeouts and hangups*: a call that times out leaves its connection as it is; the
  late answer, and the next call, meet there.
- *Partial failure*: `merge`, `sign`, `add_input`, `select_chain_params`,
  `nonce_gen`, `SecNonce._sign` and `set_internal_pubkey` can each fail after they
  have changed state.
- *Order*: participants sign, combine, finalize and transmit PSBTs in any order;
  keys and templates come to a `KeyStore` in any order; nested methods and `with`
  blocks of different chains must be undone exactly.
- *Sharing*: `clone()` and `merge()` of a PSBT keep a reference to the transaction
  that `add_input` changes; constructors take parts that are mutable, or not, and
  must decide whether to copy them.
- *Cases*: an input is valid under one set of verification flags and invalid under
  another; scripts hand stacks to each other; limits are reached along several
  paths; texts of templates and addresses have several readings.

PROJECT.json lists each of these hazards at the line where it bites, with the
properties that would notice it going wrong.

**What makes each component correct.** A secret nonce signs at most once, with
its own key, and is gone from memory afterwards; its lock is always released. A
method runs with the dispatcher of its own class, and when it is over everything
is as before; dispatchers that fit together go on to do so. What is asked of an immutable class is immutable to its last part
and never changes; copies share nothing that can be edited; what is written is
read. Whatever is put into a PSBT, a final input carries valid signatures in
script order, no signature is lost, and whoever receives a PSBT can do with it
what its sender could. A PSBT that does not have the inputs and outputs of its transaction
is recognized by their number. A `KeyStore` finds every key that a key in it leads to, and gives
out none that the templates do not allow. A call of the RPC client returns the
answer to its own request, from the network it was configured for, and always
ends. Whatever address is made of a tree, its owner can spend each script of it;
an address text means one script. The interpreter accepts an input exactly when it
carries the signatures the output asks for, never more so because a flag was
added, and stays within its limits.

## 2. Modules

| module | what it is |
|---|---|
| `SingleUse` | abstract: a token that is created once and used at most once |
| `MuSigNonce` | `nonce_gen`, `SecNonce`, `sign_partial` and the threads in them; the inductive invariant `IInv`; the refinement mapping to `SingleUse` |
| `ClassDispatch` | dispatchers, chain parameters and contexts |
| `CoreTx` | transactions and their parts in both classes, under the mutable context |
| `PSBTSigning` | copies of a PSBT that are signed, merged, transmitted, finalized |
| `PSBTAssembly` | PSBTs and the transaction objects they share |
| `Opcodes` | one turn of the interpreter's loop: what an operation reads, answers and refuses, for given flags and frame |
| `ScriptEval` | takes `Opcodes` for its variables: `VerifyScript`, `VerifyWitnessProgram`, `EvalScript`; what the usual outputs ask for |
| `BIP32` | derivation paths and path templates, from text to what they match |
| `KeyStore` | extends `BIP32`: extended keys, their derivation information, the store |
| `RPCConfig` | configuration file, cookie and arguments: where the node is |
| `RPCClient` | extends `RPCConfig`: the connection, the threads in `_call`, the node |
| `Outputs` | Taproot trees, output keys and control blocks; addresses of four chains |
| `*_proofs` | theorems and their proofs (section 4) |
| `MC*` | model values and parameters for TLC |

A module `M_proofs` extends `M`; `PSBT_proofs` extends `PSBTSigning` and `PSBTAssembly`,
which is why the latter names its specification `AssemblySpec` and so on. Operators whose
comment begins with "Mutant of" are faulty variants of the definition after them (a
dropped guard, a swapped order): for every property of a run there is one that violates
it, listed under "mutants".

### MuSigNonce

A `SecNonce` object is a slot of `Nonces`: `secbuf` is its `__buffer`, `bound` its
`__pubkey` (None: no object in the slot), `used` its `__used`, `lock` the holder
of its `__lock`. A secret is abstracted to what the derivation is a function of:
the random value and the key. `buf` holds the callers' bytearrays. `pc[t]` is the
point thread `t` has reached in `nonce_gen` (`g_check`, `g_native`,
`g_serialize`, `g_wipe`) or in `_sign` (`lock`, `check`, `mark`, `bind`, `native`,
`clear`, `serialize`, `wipe`, `release`); the steps are cut where another thread
may run. `SignFail` and `GenFail` stand for every check or native call that may
raise in the `try` block they are in: the exception always leads to the `finally`
block (`Wipe`, `WipeSeed`). `InterruptSign` and `InterruptGen` are signal
handlers that raise: they may strike between `self.__used = True` and the `try`,
and in the `finally` block itself, which is why `WipedAfterAttempt` excepts slots
in `unwiped`. `Collect` is `__del__`. `NativeLoad` and `NativeClear` model what
`secp256k1_musig_partial_sign` does with the buffer; that function is not in the
repository and they are marked external or mapped to the call.

`drawn`, `minted`, `issued` and `unwiped` are history variables: they exist only
for the properties. A fresh random value is one that was not drawn before: that
`os.urandom` does not repeat is an assumption, as it is of the code.

### ClassDispatch

`disp[c]` is the table of active dispatchers of context `c`, `params[c]` its chain
parameters, `stack[c]` the calls and `with` blocks that it is in. `CallMethod` and
`LeaveMethod` are the wrapper installed by `ClassMappingDispatcher.__init__`:
`LeaveMethod` is its `finally` block, so that returning and raising are one
action. `Activate` is `activate_class_dispatcher` including its early return for a
dispatcher that is active already. `Select` is `select_chain_params` including the
two ways in which it can fail half way. `StartThread` has default variables;
`CreateTask` copies. `known` holds contexts whose dispatchers go back to a
selection that succeeded: a context in which nobody selected a chain has nothing
for `ParamsInEffect` to speak of. The fields `before` of frames and the variable
`broken` are history. `InheritanceAssumption` is what `__init_subclass__` enforces: a
coin's dispatchers depend on the same identities as those they derive from.

The properties speak of tables that *fit together* (`FitTogether`): every identity has an
active dispatcher, and one that was chosen among several has what it depends on active
with it. It need not be so inside a method of a coin that is not selected, nor in a new
thread, which has no active dispatchers; section 5 says what the code does then.

### CoreTx

A Python object is an identity in `heap`, a record of what it holds (`prevout`,
`vin`, `vout`, `wit`, `vtxinwit`, or one datum for an outpoint, an output and the
witness of an input) with its class (`mutable`): who shares a part with whom is the
question, so that identities cannot be abstracted. `tx[k]` and `input` are the
program's variables; what they do not reach is collected (`Live`). `enabled` is the
flag of the mutable context, `class[k]` remembers which class was called.

Constructors and `from_instance` are operators from a heap to a heap and an identity
(`NewInput`, `InputFrom`, `NewWitness`, `NewTx`, `TxFrom`), each with the code's
decision whether to keep a part or to copy it. `MakeInput`, `MakeTx`, `Rebuild` and
`Copy` call them from outside; `Rebuild` may give them iterables that can be used only
once. `Reread` writes and reads: `Write` and `Read` are over fields, in which a count
of zero inputs is the marker of a transaction with witnesses. `AppendInput`,
`SetOutpoint`, `ReplaceOutpoint`, `SetOutput` and `SetWitness` are what a program does
to the attributes of mutable objects. `Refuse` is any call that raises: `Restored` is
the flag after it.

### PSBTSigning

All copies are of one unsigned transaction; `kind[i]` is the kind of output input
`i` spends and never changes. An input is a record: what `utxo` and `witness_utxo`
hold (four cases), whether redeem script, witness script and derivation paths are
there, the sighash type, the partial signatures (a sequence, as the dict is
ordered), the signatures in the final scripts, and how often an unknown field
occurs. A signature is its key, its sighash type and whether it verifies.

`SignInput` is `PSBT_Input.sign` with its three outcomes (information, None,
ValueError) and its branches by kind; `SignMultisig` contains
`ComplexScriptSignatureHelper.sign`; `SignResult` works through the inputs and
stops at the one that raises. `Wire` is what `serialize` writes, `Read` and
`Readable` what `deserialize` makes of it, including the sanity check, which signs
with an empty key store. `MergeInput` does what `merge` does in the order in which
it does it, so that a conflict of sighash types leaves a half-merged input.

### PSBTAssembly

`tx[p]` is the reference `unsigned_tx`, `vin`, `vout` and `cached` belong to the
transaction objects. `Verdict` says what the library will find out about an input
or output that is added: that it is fine, that `CheckTransaction` refuses the
transaction (`_check_sanity`, inside the `try`), or that `set_utxo` refuses its
utxo (before the `try`, so that the txin stays). PSBTs may share a transaction, and
nothing keeps a caller from adding to one that does: which PSBTs are consistent is a
question to the model, not an assumption of it.

### ScriptEval

A caller verifies one input (`inp`: scriptSig, scriptPubKey, witness) under the flag
sets of `Trials`, one call of `VerifyScript` after the other; `verdict` collects the
answers, so that properties can compare them. `phase` is the script that is being
evaluated (`scriptSig`, `scriptPubKey`, `redeemScript`, `witness`), or `idle` between
calls. `stack`, `altstack`, `vfExec`, `nOpCount` and `pbegincodehash` are the locals
of `_EvalScript`, `stackCopy` that of `VerifyScript`. A step is one turn of the loop
of `_EvalScript` (`EvalStep`, one action for each group of operations) or the passage
from one script to the next (`StartScriptPubKey`, `EndScriptPubKey`,
`EndRedeemScript`, `EndWitness`). An exception, whatever its class, is `Raise`: the
answer is `rejected`. `OpRaises` collects the reasons for which an executed operation
raises, `Permitted` those that count in branches not taken, too. Both are in `Opcodes`, a
module without variables whose parameters are the flags and the locals of `_EvalScript`:
`ScriptEval` takes it for its own (`INSTANCE Opcodes`), and the proofs take it for any
frame under any flags.

Bytes are abstracted to what the interpreter tells apart: elements and operations are
tuples that say what the bytes are. A number knows its size; a signature its key, what
it was made for and how it is encoded; a hash its argument, so that hashes never
collide; a script pushed as data can be run. Signatures are of SIGHASH_ALL; what they
sign is the script after the last executed separator, for the base version without
separators and without the signatures being checked (`Sighash`). Elements that are not
scripts end inside a push when they are run as scripts (`TRUNCATED`). What an input may
consist of is said by two assumptions, `InputsAreScripts` (elements have sizes) and
`InputsAreTuples` (operations and elements have the forms of `Opcodes`: OP_0 pushes the
empty string, the other small numbers are `NUM`). `LimitsHoldUsualScripts` says that the
limits are large enough for the scripts of usual outputs, to as many keys as
OP_CHECKMULTISIG takes; the limits of the code and those of the run both are.

The second part, from `Spends` to `Satisfied`, is a definition of what outputs to a
key, to a key hash and to m of n keys ask for, bare, in P2SH, in a witness program or
both. It knows no stack and is what the interpreter is compared with.

### BIP32 and KeyStore

A path or template text is a sequence of elements with their markers, whose contents
are what the parser tells apart: a number, `*`, a list of numbers and ranges, or
something else. `ParsePath` and `ParseTemplate` are the parsers with all their
refusals, `MatchPath` is `match_path`. `TextPermits` says of a *text* what it permits,
without the parsed bounds: it is the reference.

`xkey` is the extended key in the caller's hands, named by its master and the path
from it; its `info` (derivation information) need not be true, since a caller may set
it. `TakeSeed`, `ReadBack`, `Derive`, `DerivePath`, `TakePub` and
`AssignDerivationInfo` change it. `xkeys` holds what `_xprivkeys` and `_xpubkeys` do,
in the order in which they are searched: keys of one slot (fingerprint and path) side
by side, as `Place` puts them. `AddExtendedKey` includes the case of a key that is
held, whose templates are extended. `GetPrivkey` and `GetPubkey` are operators, since
they change nothing: the first leading key decides (`FirstLeading`), with its templates
(`Permitted`), then the external lookup. `granted` is history: the texts each key was
added with.

### RPCConfig and RPCClient

A configuration is a sequence of lines, and a value says where it came from, so that
a property can ask whether it came from the right section. `Conf`, `Lookup`, `Port`,
`Cookie` and `Password` follow `_try_read_conf_file` and `RPCCaller.__init__`. The
default port and the subdirectory of the cookie file carry the network of the current
chain parameters, which `chain=` need not name. A host with something after its colon that
is no port makes a URL that the constructor refuses (`Constructible`).

`conn` is the `HTTPConnection` with the state of its request and the response that has
not been read to its end, `sockets` the sockets opened so far with the requests and
answers under way. A thread is `idle`, has `sent` its request, or has `got` the
headers. `http.client` and the node are external: they are modelled by what `rpc.py`
makes of them - a connection that refuses a request before the last one was answered
(`RefuseRequest`) or a second response (`RefuseResponse`), an answer that is never
compared with its request (`GetResponse` takes the next one on the socket), a timeout
that leaves the connection as it is (`Timeout`), a node that answers in order
(`Execute`) or hangs up (`Hangup`), and sending that fails before or after the node has
the request (`Request`). `executed`, `outcome` and `failed` are history.
`CloseInFlight` says whether callers close the connection while a call is under way.

### Outputs

`trees` holds the `TaprootScriptTree` objects made, the one in the caller's hands last. A
tree is its leaf version, leaves, `merkle_root` and the paths beside its leaves; a leaf is
a script or a tree made before, by its number, as the code's is a reference. `Traverse` is
`_traverse`, with the paths in its order; `ScriptWithPath` looks a name up as the code
does. Both are recursive functions, over the number of leaves and over the numbers of
trees. Hashes are the terms they are made of; the two hashes under a branch are a set,
because the code sorts them. A result that may be absent (the output, a found script) is a
set of at most one. `SetInternalPubkey` sets the key first and the output after it, and
may raise in between. `Commits` is the reference: what a node computes of a script and
a control block (BIP341).

An address is its chain, kind and what it commits to; a text is what the encodings
preserve (prefix, or human readable part, version and checksum; length; data).
`ReadText` reads a text under a chain as any class or as one.

## 3. Runs

| run | shows |
|---|---|
| `musig_nonce` | the safety properties, the refinement of `SingleUse`, and `LockReleased` |
| `dispatch` | the main context and a new thread or task, two coins with different wallet and core classes, testnet's wallet class, and parameters that cannot be activated |
| `core_tx` | transactions made, converted, rebuilt, edited and re-read, in both classes |
| `psbt_signing` | signing, combining, transmission and finalization, for segwit-wrapped and for other inputs |
| `psbt_assembly` | construction and extension, with shared transactions and refused additions |
| `script_eval` | 4,743 inputs, each verified under ten sets of flags |
| `key_store` | two masters with colliding fingerprints, templates, callbacks |
| `rpc_client` | two threads on one connection, timeouts, hangups, configurations |
| `outputs` | trees of depth three; addresses of every class on every chain |
| `psbt_final` | *violation*: merging makes a final input with non-final fields |
| `psbt_shared` | *violation*: adding to a PSBT makes its clone inconsistent |
| `psbt_rollback` | *violation*: a refused utxo leaves a txin without an input |

A violation run checks one statement that a doc string, a comment, an assertion
or a test of the repository makes, and TLC finds a behaviour of the code that
contradicts it. PROJECT.json quotes the statements under "findings".

**The properties.**

- `musig_nonce`. `NoSecretReuse`: two returned signatures made with one secret are
  the same. `SignedByBoundParticipant`: key and session of every signature.
  `WipedAfterAttempt`: no secret outlives the attempt to use it.
  `SeedNotLeftBehind`: no bytearray still holds the randomness of a live nonce.
  `ImplementsSingleUse`: the token view. `LockReleased`: liveness of the lock.
- `dispatch`. `OwnDispatcher`: in a method the dispatcher of its class is active, also
  after methods of other coins that it called; of a core dispatcher, which another coin
  replaces, it says so if the table fits together when the body of the method begins.
  `ParamsInEffect`: outside of methods the dispatchers fit the chain reported.
  `Restored`: leaving a method, at any depth, or a block restores exactly what was, if it
  fitted together. `StaysTogether`: once the dispatchers of a context fit together outside
  of methods, they do so whenever it is outside of methods.
- `core_tx`. `MadeByItsClass`: an object is of the class asked for, an immutable one
  down to its last part, also after a method of a mutable class has raised.
  `ImmutablesStay`: what an immutable object says never changes, however the objects
  it was made of are edited, so that a hash computed once stays right.
  `CopiesAreApart`: a new transaction shares no mutable part with an older object.
  `WrittenIsRead`: bytes are read back as what was written; the txid ignores witnesses.
- `psbt_signing`. `FinalIsValid`: enough valid signatures of the right keys in script
  order. `SigsKept`: no method loses one. `ReadyCanBeFinalized`: `is_ready` means what
  it says. `TransferKeepsReady`: serializing loses nothing that is needed.
- `psbt_assembly`. `LengthsTell`: a PSBT with as many inputs and outputs as its
  transaction has exactly those of its transaction. The code compares the lengths only,
  while shared transactions grow under other PSBTs and refused inputs leave their txins.
  `PartsMatch`, in the two violation runs: the lengths always agree.
- `script_eval`. `UsualOutputsAskForTheirSignatures`: under the flags used by default,
  the interpreter accepts an input of a usual output if and only if it is what the
  reference definition asks for. `AddingFlagsOnlyRestricts`: every flag is a soft
  fork, over all pairs of the ten sets of flags. `WitnessOnlyWhereExpected`: a witness
  is accepted only with the output and the scriptSig that go with it. `WithinLimits`: operations (against a count of the script
  walked so far), stack items, bytes of elements. `FailedChecksHoldNoSignature`: what
  NULLFAIL promises.
- `key_store`. `OnlyPermittedKeys`: a key found through an extended key was derived
  from one added and not removed, by a path that a text given for it permits as
  written. `HeldKeysAreFound`: no order of additions and removals hides a held key.
  `DerivedKeysAreFound`: the information that keys carry through derivation, neutering
  and serialization leads back to them.
- `rpc_client`. `OwnAnswer`: although ids are never compared, a call gets the answer
  to its own request, and the node executes no request twice. `RefusedOnlyAfterFailure`:
  a connection refuses a call only while another is under way or after a failure.
  `ServiceOfOneNetwork`: nothing of another network's section is used, user and
  password come from one section, and only defaults are the current parameters'.
  `EveryCallEnds`: liveness.
- `outputs`. `OutputsCanBeSpent`: every script of a tree, wherever it is nested, has a
  control block from which a node computes the output key, and the key path signature
  fits. `AddressMeansItsScript`: the text of an address means the same script under
  every chain that accepts it, is read back as the address, and so is its script.

`AddingFlagsOnlyRestricts` leaves out two kinds of sets of flags. With WITNESS but
without P2SH the code refuses every input, and says that it does because adding P2SH
would not be a soft fork (`core/scripteval.py:1252`). With CLEANSTACK but without
WITNESS a witness program leaves two items and is rejected, while WITNESS makes it
acceptable: the code requires P2SH of CLEANSTACK, and nothing more.

`with ChainParams(p)` is not without effect when it raises: if a dispatcher of `p` is a
base dispatcher, `p` stays selected (`dispatch` has such parameters, and shows that
enclosing blocks put things right).

**Bounds, and why they are enough.**

- `musig_nonce`: two threads (every race here is between two), two nonces, two
  random values (so that a second draw can follow a first, and both nonces can be
  live), two keys, a session of both and a session of one (wrong key, and right
  key in the wrong session), one bytearray (to be passed twice).
- `dispatch`: two contexts, and two frames in both together, or three in one (`MaxTogether`
  bounds contexts and frames together): a method of one coin in a method of the other in a
  block, which is where the tables stop fitting together, and every shorter combination
  beside a thread or task. `Activate` depends only on the current table, so deeper nesting
  repeats what three levels show.
- `core_tx`: two handles and an input held apart, transactions of at most one input
  (`MaxInputs`; zero inputs are the special case of the format), one output, two data.
  VIEW compares states by the trees that handles hold and by whether they share a
  mutable part: identities are renamed away, and which handle holds which tree.
- `psbt_signing`: two copies, a 2-of-2 and a single-key input, key stores with
  either or both keys, one foreign signature (`MaxForeign`) out of a wrong type, a
  bad one and a stranger's; an unknown field at most twice (`MaxBlobs`). Two kinds
  of every input in one run: p2sh-p2wsh with p2sh-p2wpkh, p2sh with p2wpkh.
  Native p2wsh and p2pkh take the same branches as these without the redeem
  script, or without the witness.
- `psbt_assembly`: three PSBTs (an original, a clone, and a third to be merged),
  two transaction objects, two inputs and outputs each (`MaxLen`), two inputs that are
  accepted and two that are refused, inside and outside of the `try`.
- `script_eval`: limits are scaled so that they are reached within a few operations:
  14 operations in a script (10,000 bytes), 8 counted operations (201), 9 stack items
  (1,000), numbers to 1,000 (2^31-1), 3 keys (20); elements keep their 520 bytes. Every
  limit is met and exceeded by one, along every path that leads to it (operations,
  dead branches, keys of CHECKMULTISIG, pushes, the alt stack, witness items). Inputs:
  every usual output behind every wrapper, with right, wrong, misplaced and badly
  encoded signatures; separators and negated checks; redeem scripts and witnesses in
  the wrong place; every operation on stacks that tell its cases apart; every sequence
  of up to four constants and conditionals, and IF/ELSE with failing branches. Flag
  sets: none, each flag that matters to others on its own or with P2SH and WITNESS,
  the standard ones, and one that the code refuses. The interpreter is deterministic, so
  the run is a comparison over inputs; the interleaving is none.
- `key_store`: two masters with one fingerprint (four bytes collide), paths of up to
  two elements (`MaxPathLen`, `MaxDepth`), an offset of 3 for hardened indexes (2^31),
  so that a range, its neighbour and both sides of the offset exist; two keys or
  callbacks in the store (`MaxKeys`: the order of two is what the search depends on),
  two templates for a key (`MaxTemplates`); template texts with stars, ranges, a
  backward range, mixed markers and a number too big. Masters are symmetric. That a
  search comes to a key of depth 255 and cannot derive on is impossible rather than left
  out: the path asked for begins with the path of the key, whose length is the key's depth
  (`assign_derivation_info` checks it), and has at most 255 elements.
- `rpc_client`: two threads, four calls (`MaxCalls`: a failed one, a refused one, one
  after a reconnection, and one beside it), two sockets (`MaxSockets`: what is left on
  the old one, and the new one). `CloseInFlight` is FALSE: see section 5.
- `outputs`: lists of up to three leaves (`MaxScripts`: an even and an odd split) in
  three trees that hold one another (`MaxTrees`), two leaf versions, a key of either parity of its output and one
  off the curve; redeem and witness scripts at their limits and one byte above.

**Deadlock** is not checked where callers may simply stop (`CHECK_DEADLOCK FALSE`):
in `musig_nonce` when all random values have been drawn and all nonces are spent,
in `dispatch` at the frame bound, in `psbt_assembly` at the length bound, in
`rpc_client` when the bounds on calls and sockets are reached. In the others it is
checked; in `script_eval` a caller that has tried all flags stutters (`Finished`), so
that a script on which no action is enabled would be found. That no thread waits for
a lock for ever is `LockReleased`; that none waits for the node is `EveryCallEnds`.

**Fairness.** `FairSpec` of `MuSigNonce` assumes that a thread in the middle of a
call is eventually scheduled (`WF_vars(Step(t))`), which the interpreter does.
Nothing is assumed of callers (they may never call), of signals, of collection,
or of the order in which waiting threads get the lock: `LockReleased` says that
the lock is released, not that a particular thread gets it. `Spec` of `RPCClient`
assumes the same of a thread in `_call` (`WF_vars(Progress(t))`): `connect` gives every
connection a timeout (`DEFAULT_HTTP_TIMEOUT`), so that a read ends even if the node
never answers. Nothing is assumed of the node. The timeout is for each `recv`: an answer
is one step here, and a node that sends it byte by byte, each within the timeout, can hold
a call for longer than the model says.

## 4. Proofs

What TLC shows for the instances of section 3, these theorems state for any number
of threads, keys, objects and values. The assumptions are the named ASSUMEs on the
constants of each module; TLC evaluates them in every run.

**`MuSigNonce_proofs`**: `TypeOK`, `NoSecretReuse`, `SignedByBoundParticipant`,
`WipedAfterAttempt` and `SeedNotLeftBehind` are invariants. None of them is inductive.
`NoSecretReuse` speaks of signatures already returned; whether the next one repeats a
secret depends on what the call in progress holds and on what else holds the same
secret. `IInv` therefore says of the *randomness* of a secret that it is in one place
at a time (`OnePlaceInv`): a bytearray, the seed of a call, the local of a call, a
`SecNonce`, or a returned signature, with two exceptions where a single call is moving
it (the seed and the new secnonce in `nonce_gen`; buffer and signature between the two
halves of the native signing call). That needs `DrawnInv` (a fresh value is nowhere
yet), `ExclusionInv` (the lock is held by the one thread that is inside; generating
calls do not share slots or bytearrays), `CallInv` (the object of a call stays where it
is) and `BindingInv` (key and session at each point). `WipeInv` says which attempt is
responsible for a secret that is marked used. Each conjunct has a lemma (`TypeStep`,
`CallStep`, ..., `OnePlaceStep`) with a step for every action.

The same module proves `Spec => ImplementsSingleUse`: every step of the code is a step of
the token or a stutter. Two more conjuncts are needed: the secret of a minted token comes
from randomness that is drawn and held nowhere else any more, and every secret in a
`SecNonce` is a minted one (`MintedInv`), so that no token is created twice; and a
`SecNonce` is marked used from before its secret is touched, and not earlier (`UsedInv`),
so that an attempt begins once.

**`ClassDispatch_proofs`**: `TypeOK`; `ParamsInEffect` under `ChainsApart`;
`OwnDispatcher`, `StaysTogether` and `Restored` under `CoinsShare`. An identity is
`Settled` if nothing depends on one of several dispatchers of it. `ChainsApart` says so of
the wallet and PSBT identities of chains. `CoinsShare` adds that coins differ in their
wallet dispatchers and in at most one identity that these depend on, as bitcointx with the
coin of `tests/test_core.py` does (the run's instance satisfies it; TLC evaluates it in
`MCClassDispatch`). Rival dispatchers of a dependency are the case that matters, and both
premises allow them.

`IInv` speaks of each row of a dispatcher table by itself: `Nested` follows the values the
row takes down the stack of calls, each the dispatcher of a call that activated it or what
was there before; `Outside` says what remains of the row when all calls are undone, which
is the selected chain's. `TInv` speaks of whole tables: of each call and `with` block in
progress it says how the table from before it, and that with which the body of a method
began, are tracked by the present one (`Track`, if they fitted together): rows that no
call since has moved are as they were, and the first call that moved the row of its own
class will put back what was there. Where it puts back a dispatcher, `activate` brings
what that depends on back with it, unless the dispatcher is active already; that the rest
is in place even then needs the premise.

**`CoreTx_proofs`**: `MadeByItsClass`, `ImmutablesStay`, `CopiesAreApart` and
`WrittenIsRead`, and the types. `IInv` says that the heap holds well-formed objects with
parts of the right kinds, that the parts of an immutable object are immutable (`Firm`:
this is what a constructor's decision to keep or to copy a part must get right), that the
mutable context is off between calls, and that handles hold transactions of the class
asked for. Every constructor and `from_instance` is shown to do one thing to a heap
(`Makes`): it adds objects, changes none, the one it gives has the class in force, and no
mutable object that it adds has a part that was there before (`Grows`). Lists of parts
are made one after the other, so each lemma about one (`LeafFromMakes`) has a twin about
a list. An edit changes one mutable object (`EditOne`), which no immutable one reaches
within the two levels there are (`ReachFirm`), and collection keeps what is reached
(`Collect`). For `WrittenIsRead`, `Layout` and `Marked` say where the fields of a
transaction are in the bytes, without and with the marker; the bytes written are laid out
so (`BodyIsLaid`, `WitnessedIsLaid`), and `Read` finds in such bytes one transaction and
no other (`ReadsBack`).

**`PSBT_proofs`**, of `PSBTSigning`: `TypeOK`, `FinalIsValid`, `SigsKept`, `ReadyCanBeFinalized` and
`TransferKeepsReady`, for any number of copies, inputs and keys. The inductive invariant
is `TypeOK /\ FinalIsValid`, where the types include that a copy has one partial
signature of a key. `InScriptOrder` is the lemma about the script helper: going through
the keys of the script and picking their signatures until there are enough gives the
valid ones in script order; `MergedSigs` is about what a merge makes of two sequences.
The other three follow signatures through one method: `sign` and `merge` only add to
what a copy has, or finalize it; an input of which `is_ready` says yes has, in every
branch of `sign`, what that branch looks at (`InputReady`); what `serialize` leaves out
is not looked at (`TransferredInput`). Assumed are that no key occurs twice in a script,
which `parse_standard_multisig_redeem_script` refuses (`core/script.py:1654`), and, since
nobody verifies a final field that is handed in, that such fields are valid
(`PreparedAssumption`).

Of `PSBTAssembly`: `AssemblyTypeOK` and `LengthsTell`, for any use of the PSBTs, any
sharing and any refusals. The invariant is `PartsBegin`: the inputs of a PSBT are the first
ones of its transaction's, and so are its outputs. A transaction only grows at its end, and
a PSBT's own inputs grow only while the two lists are equal, because `add_input` and
`add_output` begin with `_check_consistency`.

**`ScriptEval_proofs`**, for any inputs, limits and flags. `WitnessOnlyWhereExpected`: the
answer is given many steps after the checks, so `IInv` ties the phase to the shape of the
input (`PhaseInv`: who is in the witness phase came through an output, or a redeem script,
that asks for a witness) and each `ok` so far to it (`VerdictInv`).

`WithinLimits` and `TypeOK` rest on `LInv`: what stacks hold fits in an element
(`StacksInv`), the counter is within the limit and not below what is counted of the script
walked so far (`CountInv`), and, as any element that the scriptSig leaves may be run as a
script, that its pushes have sizes (`ReadInv`, `CopyInv`). For each group of operations a
lemma says that it raises or leaves stacks of items that were there or are its own
(`Stepped`). `RedeemInv` also proves an assertion of the code: that the copied stack is
not empty when the redeem script is taken from it (`core/scripteval.py:1211`,
`AssertionHolds`). `FailedChecksHoldNoSignature` is about the checks of one step and needs
the types only.

`AddingFlagsOnlyRestricts` compares calls that are over, and is proved of whole calls.
`At(F, c)` is `Opcodes` at the frame `c` under the flags `F`; from it `Outcome(F, i, c)`
says what becomes of a frame of input `i`: the next frame, a refusal or an acceptance.
Each action of the specification is shown to do to its variables what `Outcome` does to
the frame they make up (`NextFollows`, one lemma for each action), so that every frame and
every verdict of the specification is reached by a run of `Outcome` from the start of a
call (`RunInv`). This is a statement about every operation of the interpreter: its effect
depends on nothing but the input, the flags and the frame. What the flags do is then a
statement about one outcome: under more flags it is the same, unless it is a refusal, or
unless fewer flags have accepted already (`OutcomeAgrees`). Where an operation raises it
raises under more flags (`MoreFlagsRaiseMore`), what it leaves does not depend on them
(`FlagsOnlyRaise`), and where a script ends, only the flags P2SH and WITNESS let a call
go on that is over without them. Along two runs of one input the same holds by induction
(`RunsAgree`), and a run that is over can be looked at as long as the other lasts
(`LongerRun`).

`UsualOutputsAskForTheirSignatures` says in which runs of `Outcome` under the default
flags an input ends accepted, and in which refused. What each operation of a usual script
makes of a frame outside of conditionals is one lemma (`PushRun`, `DupGoes`, `HashGoes`,
...); from these follow both ends of each script, with a true item on top when the elements
satisfy it and otherwise with a false one or an exception (`KeyEnds`, `KeyHashEnds`,
`MultiEnds`, together `EvalUsual`). Two facts carry the argument. A usual script contains
none of the signatures that are checked with it, so a signature signs it whole
(`UnsignedWhole`, `CheckSigAt`). And the walk of `_CheckMultiSig`, which drops a key for
good when it does not fit the signature at hand, succeeds just when the signatures can be
assigned to keys in increasing order (`WalkSound`, `WalkComplete`): the reference says only
that such an assignment exists. Around the script, the scriptSig leaves what it pushes;
`ProgramEnds` is the passage through a witness program, `RedeemStarts` that through P2SH,
and `UsualCall` covers every wrapper. What satisfies a script stays within the limits on
the way (`SatisfiedFits`, `SmallRoom`). The specification's verdict is then that of the run
by `RunInv` and `FewerAccept`; an input with a witness that nothing asks for is refused by
`VerdictInv`.

Assumed is that an input consists of scripts and lists whose elements have
sizes, and that a hash fits in an element (`InputsAreScripts`); and, for
`UsualOutputsAskForTheirSignatures` only, `InputsAreTuples` and `LimitsHoldUsualScripts`.
A script that is pushed as data counts as 100 bytes there, so the theorem does not see
that a P2SH redeem script of more than 15 compressed or 7 uncompressed keys exceeds the
520 bytes of an element: what is sent to such a script the code lets nobody spend.

**`KeyStore_proofs`**: `TypeOK`, `HeldKeysAreFound`, `DerivedKeysAreFound` and
`OnlyPermittedKeys`, for any masters, fingerprints, paths, templates and callbacks.
`IInv` has four parts. `StoreInv`: what was granted is in the sequence the search runs
through, in exactly one place, and entries are records with templates that parse.
Inserting a key among the keys of its slot, extending one, and removing one keep this; a
last position in a set of positions exists by well-founded induction (`MaxExists`).
`KeyInv`: the derivation information of the key in the caller's hands is true unless the
caller set it. `GrantsInv`: so it was when keys were added. `TemplatesInv`: each template
of an entry is that of a text it was added with. The bridge from a template to its text is
the proof that the parser accepts nothing but what the text says (`IndexSays`,
`TemplateSays`), over an arbitrary list of numbers and ranges.

**`RPCClient_proofs`**: `TypeOK`, `OwnAnswer` and `RefusedOnlyAfterFailure`, for callers
who do not close a connection while a call is under way (`~CloseInFlight`). A socket
holds at most one request or answer (`ServedInv`); the connection is ready for a
request only when its socket is quiet, and if it is not ready there is a call to blame,
under way or failed (`ConnInv`); what a waiting call will be given is its own answer
(`CallsInv`). `ServiceOfOneNetwork` holds without that premise, for any lines of a
configuration file: `ConfTold` says that what reading it gives was told in the general
part or in the section of the network; what is not looked up is labelled by where `__init__`
takes it from.

**`Outputs_proofs`**: `OutputsCanBeSpent` and `AddressMeansItsScript`, for trees of any
number of scripts within any number of trees, and any keys and data. `TreesInv` says of
each tree that hashing along the path of a leaf, from the hash of that leaf, comes to its
root, and that a tree within it has a smaller number. That `_traverse` establishes this is
by induction on the number of leaves: of both halves by hypothesis (`PartsLead`), and a
path with one more hash at its end climbs to the branch (`Branches`, `ClimbFurther`). The
search for a name then gives a script with that name and a path that climbs from it to the
root of the tree searched, by induction on the number of the tree, where the path within
the inner tree and that of the inner tree are joined (`FindSound`, `ClimbOn`); and it
gives one for every name there is (`FindComplete`). `KeysInv` says that the output is that
of the key and the last tree, as `set_internal_pubkey` leaves it, so that the control block
and the signature are for one root. `AddressInv` says that the text is the one written for
the address; what a text of one kind and chain can be read as is a finite case analysis
over prefixes, versions and lengths (`ReadIsWritten`, `KindOfScript`). A public key here is
even or odd and on the curve or off; that hashing has no collisions is in the terms.

**Induction.** The prover has no induction over data. Where a result about lists is
needed, a recursive function is shown to exist and to have a property at every number by
taking the least number at which it fails, which exists because the natural numbers are
well-founded (lemmas `Least` and `Upto` of several modules, `LeastOf` and `Counting` of
`ScriptEval_proofs`; `WFMin` of the library).
`BIP32`, `KeyStore`, `RPCConfig`, `CoreTx`, `Outputs` and `Opcodes` use recursive functions
in place of folds and RECURSIVE operators for this reason.

**Model-checked only**: `LockReleased` and `EveryCallEnds`, as liveness under fairness
is outside of what the prover does. Every other property of a passing run is the subject
of a theorem.

## 5. What the code does otherwise

Configurations that are not among the runs show behaviours of the code in which a
property fails. `tlc -config <cfg> <module>` prints the steps.

| configuration | module | shows |
|---|---|---|
| `MCDispatchNested.cfg` | `MCClassDispatch` | `OwnDispatcherAlways`: in a core method of a coin that is not selected, a method of the selected coin's wallet class puts the selected coin's core dispatcher back when it returns (`util.py:332-335`), against the comment of the wrapper (`util.py:314-316`) |
| `MCDispatchThread.cfg` | `MCClassDispatch` | `UsableInThreads`: a wrapped method raises TypeError in a thread with no selection ("Threading is actually supported now", `release-notes.md:485` of the repository) |
| `MCDispatchSelection.cfg` | `MCClassDispatch` | `SelectionActivatesDepends`: in such a thread a first call leaves its dispatchers behind, and selecting a chain whose wallet dispatcher is then active does nothing for its core dispatcher (`util.py:115`) |
| `MCCoreTxIterables.cfg` | `MCCoreTx` | `IterablesKept`: a mutable transaction made from generators of inputs and outputs, without a witness, is empty: the default witness is made from them first (`core/__init__.py:1050`), although the doc string says that they are iterables |
| `MCPSBTReadable.cfg` | `MCPSBTSigning` | `SerializedIsReadable`: `combine` makes a PSBT that cannot be read back, with one unknown field twice |
| `MCPSBTWitness.cfg` | `MCPSBTSigning` | `SegwitHasWitnessUtxo`: `merge` does not recompute `witness_utxo` when utxo and scripts meet |
| `MCPSBTHash.cfg` | `MCPSBTAssembly` | `HashIsOfContents`: `add_input` and `add_output` change an immutable transaction after its hash has been computed (`core/serialize.py:189`) |
| `MCRPCChain.cfg` | `MCRPCClient` | `AllOfNamedNetwork`: with `chain=` naming another network than the current chain parameters, the default port and the cookie's subdirectory are still theirs (`rpc.py:275-278`) |
| `MCKeyInfo.cfg` | `MCKeyStore` | `InfoAssignedOnce`: the check of `assign_derivation_info` for information that is there already raises an AttributeError inside the `try` that swallows it (`core/key.py:876-881`) |

With `CloseInFlight` TRUE, the properties of `rpc_client` fail: `connect` and `close` give
the connection away under a call that waits, which then meets another call's state.

Other facts that the models have because the code does:

- *Paths and keys.* In a template, `{3-5,6-4}` is read as a range of two: a part that
  begins where the last one ended extends it before the order is checked. The first
  leading key decides; if its templates forbid the path, another leading key that
  permits it is not asked. Removing a key whose bytes are in the store with other
  derivation information leaves that one.
- *RPC.* Configuration contents lose a last line without line feed. A
  response's id is not compared.
- *Transactions.* A transaction without inputs but with outputs is written in a form
  that is not read back, and `serialize` asserts that there are no witnesses, or one for
  each input. `to_immutable()` within a method of a mutable class gives a mutable object.
- *Taproot and addresses.* A failed `set_internal_pubkey` leaves the key set and the
  output unset. A base58 text with a known prefix and the wrong length raises TypeError
  instead of an error of the address. Testnet, regtest and signet share base58 prefixes,
  testnet and signet the prefix `tb` as well: which chain is meant is not in the text.
- *PSBT.* `p.merge(p, allow_blob_duplicates=True)` appends to the list it iterates over;
  merging with a PSBT whose transaction is null raises IndexError.

## 6. Not modelled, and what is left

- *MuSig2 ceremony*: `key_agg`, tweaks, sessions and partial signatures are functions
  over curve points; a ceremony of several signers with a coordinator that may lose or
  repeat messages, composed with the single-use token, is the next module to write.
- *Signature hashes*: of types other than ALL, and for Taproot. `VerifySignature` only
  looks up the output before it calls `VerifyScript`.
- *`CheckTransaction`, blocks*: predicates without state.
- *`RPCCaller._batch`*: one request and one response as `_call`, with ids of the
  caller's; a connection object or a service URL given by the caller.
- *PSBT*: `PSBT_Output` data, xpubs and proprietary fields (merged like the input fields
  that are modelled), amounts and fees, relaxed sanity checks, the index of a refused
  `PSBT_Output`.
- *Taproot*: a list of leaves holds scripts, or scripts and one tree (`Enclose`); lists of
  several trees, or of a tree and nothing else, are not modelled.
- *KeyStore*: a derivation that fails (with a probability of 2^-127 for an index), which
  ends a search with an exception.
- *Mutable context*: what a method of an immutable class sees when a method of a mutable
  one calls it, or when a generator is resumed; a method call is one step here.
- *Wallet*: private keys as text (WIF), `get_output_size`.
- *Forking*: a copy of the whole process duplicates every `SecNonce`; no code deals
  with it.
- Encodings, hashes, curve arithmetic, the libsecp256k1 and libbitcoinconsensus
  bindings and signed messages are pure computations or foreign calls, left to tests
  and test vectors; class-mapping at import time is static.
