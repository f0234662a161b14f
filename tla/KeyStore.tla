------------------------------ MODULE KeyStore ------------------------------
(* Extended keys and KeyStore (core/key.py): deriving keys, the derivation   *)
(* information they carry, and finding the key for a key id and a derivation *)
(* among the keys a KeyStore holds.                                          *)
(*                                                                           *)
(* A key is named by the master key and the path that lead to it; an         *)
(* extended key also carries `info', its derivation information, which need  *)
(* not be true.  `xkey' is the extended key in the caller's hands; `claimed' *)
(* says whether the caller has set its information by hand, or that of a key *)
(* it was derived from.                                                      *)
EXTENDS BIP32

CONSTANTS
    Masters,        \* master keys
    Fingerprint,    \* [Masters -> fingerprints]; 4 bytes, so not injective
    NoFingerprint,  \* b'', where keys without derivation information are kept
    NoInfo,         \* derivation information that is None
    DeriveIndexes,  \* the child numbers callers derive with
    PathTexts,      \* the paths they call derive_path with
    Claims,         \* the derivation information callers set by hand
    TemplateLists,  \* the lists of template texts callers add keys with
    Settings,       \* [require, default] arguments of KeyStore
    Callbacks,      \* external lookups: [id -> id of the key it returns]
    MaxDepth,       \* depth of an extended key, 255
    Requests,       \* what is asked for: [id, mfp, indexes]
    MaxKeys,        \* bound on the keys and callbacks of a store
    MaxTemplates    \* bound on the templates of a stored key

ASSUME KeyStoreAssumption ==
    /\ DeriveIndexes \subseteq Index
    /\ MaxDepth \in Nat /\ MaxKeys \in Nat
    /\ Fingerprint \in [Masters -> Range(Fingerprint)]
    /\ NoFingerprint \notin Range(Fingerprint)
    /\ \A s \in Settings : s.require \in BOOLEAN /\ Len(s.default) <= 1
    /\ \A texts \in TemplateLists \cup {s.default : s \in Settings} :
          texts \in Seq(Range(texts)) /\ \A text \in Range(texts) : TextOk(text)
    /\ \A text \in PathTexts : TextOk(text)
    /\ \A req \in Requests : req.indexes \in Seq(Index)
    /\ Claims \subseteq [mfp : Range(Fingerprint), path : Seq(Index)]

VARIABLES
    settings,    \* require_path_templates and default_path_template
    xkey,        \* the caller's extended key
    xkeys,       \* _xprivkeys and _xpubkeys, in the order they are searched
    plain,       \* ids of the keys of _privkeys and _pubkeys
    external,    \* the external lookups
    granted      \* the texts keys were added with, since they were last removed

vars == <<settings, xkey, xkeys, plain, external, granted>>

Kinds == {"priv", "pub"}
Kind(k) == IF k.priv THEN "priv" ELSE "pub"

KeyId(k) == <<k.master, k.path>>
Depth(k) == Len(k.path)

-----------------------------------------------------------------------------
(* Extended keys.                                                            *)

(* What assign_derivation_info(None) finds in the bytes of a key.            *)
InfoOfBytes(master, path) ==
    IF Len(path) <= 1 THEN [mfp |-> Fingerprint[master], path |-> path]
    ELSE NoInfo

FromBytes(master, path, priv) ==
    [master |-> master, path |-> path, priv |-> priv,
     info |-> InfoOfBytes(master, path), claimed |-> FALSE]

FromSeed(master) == FromBytes(master, <<>>, TRUE)

(* A key made from another keeps its information, if that has any.           *)
WithInfo(k, parent, info) ==
    IF parent.info = NoInfo THEN [k EXCEPT !.claimed = parent.claimed]
    ELSE [k EXCEPT !.info = info, !.claimed = parent.claimed]

CanDerive(k, n) == Depth(k) < MaxDepth /\ (k.priv \/ ~IsHardened(n))

\* Mutant of Child: the information is that of the parent.
ChildOldInfo(k, n) ==
    WithInfo(FromBytes(k.master, Append(k.path, n), k.priv), k, k.info)
Child(k, n) ==
    WithInfo(FromBytes(k.master, Append(k.path, n), k.priv), k,
             [k.info EXCEPT !.path = Append(@, n)])

Neuter(k) == WithInfo(FromBytes(k.master, k.path, FALSE), k, k.info)

(* The checks of assign_derivation_info.                                     *)
CanClaim(k, info) ==
    /\ Len(info.path) = Depth(k)
    /\ Depth(k) <= 1 => info.mfp = Fingerprint[k.master]

-----------------------------------------------------------------------------
(* Where a KeyStore keeps an extended key, and what it finds.                *)

(* _mfp_and_indexes_from_derivation                                          *)
SlotOf(info) ==
    IF info = NoInfo THEN [mfp |-> NoFingerprint, indexes |-> <<>>]
    ELSE [mfp |-> info.mfp, indexes |-> info.path]

(* A request is [id, mfp, indexes]: a key id and the slot of a derivation.   *)
TailFrom(e, req) ==
    SubSeq(req.indexes, Len(e.slot.indexes) + 1, Len(req.indexes))

Leads(e, kind, req) ==
    /\ e.slot.mfp = req.mfp
    /\ Len(e.slot.indexes) <= Len(req.indexes)
    /\ \A i \in DOMAIN e.slot.indexes : e.slot.indexes[i] = req.indexes[i]
    /\ kind = "pub" =>
          \A i \in DOMAIN TailFrom(e, req) : ~IsHardened(TailFrom(e, req)[i])
    /\ <<e.master, e.path \o TailFrom(e, req)>> = req.id

(* _enforce_path_templates                                                   *)
Permitted(e, req) ==
    \/ e.templates = <<>> /\ ~settings.require
    \/ \E i \in DOMAIN e.templates :
          MatchPath(e.templates[i], e.templates[i].full,
                    IF e.templates[i].full THEN req.indexes
                    ELSE TailFrom(e, req))

(* _find_by_derivation_pub and _priv: the first key that leads to the one    *)
(* asked for decides.                                                        *)
\* Mutant of Leading: the search ends with the first key of the master.
LeadingFirst(kind, req) ==
    {i \in DOMAIN xkeys[kind] :
        /\ Leads(xkeys[kind][i], kind, req)
        /\ \A j \in 1 .. i - 1 : xkeys[kind][j].slot.mfp # req.mfp}
Leading(kind, req) ==
    {i \in DOMAIN xkeys[kind] : Leads(xkeys[kind][i], kind, req)}
FirstLeading(kind, req) ==
    CHOOSE i \in Leading(kind, req) : \A j \in Leading(kind, req) : i <= j

FindByDerivation(kind, req) ==
    IF Leading(kind, req) = {} THEN "none"
    ELSE IF Permitted(xkeys[kind][FirstLeading(kind, req)], req) THEN "key"
         ELSE "violation"

External(kind, req) ==
    IF req.id \notin DOMAIN external[kind] THEN "none"
    ELSE IF external[kind][req.id] = req.id THEN "key" ELSE "mismatch"

GetPrivkey(req) ==
    IF req.id \in plain["priv"] THEN "key"
    ELSE IF FindByDerivation("priv", req) # "none"
         THEN FindByDerivation("priv", req) ELSE External("priv", req)

GetPubkey(req) ==
    IF req.id \in plain["pub"] THEN "key"
    ELSE IF FindByDerivation("pub", req) # "none"
         THEN FindByDerivation("pub", req)
         ELSE IF GetPrivkey(req) # "none" THEN GetPrivkey(req)
              ELSE External("pub", req)

Get(kind, req) == IF kind = "priv" THEN GetPrivkey(req) ELSE GetPubkey(req)

-----------------------------------------------------------------------------
Init ==
    /\ settings \in Settings
    /\ \E m \in Masters : xkey = FromSeed(m)
    /\ xkeys = [kind \in Kinds |-> <<>>]
    /\ plain = [kind \in Kinds |-> {}]
    /\ external = [kind \in Kinds |-> <<>>]
    /\ granted = {}

store == <<settings, xkeys, plain, external, granted>>

TakeSeed == (\E m \in Masters : xkey' = FromSeed(m)) /\ UNCHANGED store

(* The key is serialized and read again; only the bytes survive.             *)
ReadBack ==
    /\ xkey' = FromBytes(xkey.master, xkey.path, xkey.priv)
    /\ UNCHANGED store

Derive ==
    /\ \E n \in DeriveIndexes : CanDerive(xkey, n) /\ xkey' = Child(xkey, n)
    /\ UNCHANGED store

(* The key after each of the indexes.                                        *)
KeysAlong(k, indexes) ==
    LET along[n \in 0 .. Len(indexes)] ==
            IF n = 0 THEN k ELSE Child(along[n - 1], indexes[n])
    IN along

(* derive_path: a full path is for a master key only, and an empty one is    *)
(* taken for a mistake.                                                      *)
DerivePath ==
    /\ \E text \in PathTexts :
          LET path == ParsePath(text)
              along == KeysAlong(xkey, path.indexes)
          IN /\ path # BadPath /\ path.indexes # <<>>
             /\ path.full => Depth(xkey) = 0
             /\ \A i \in DOMAIN path.indexes :
                   CanDerive(along[i - 1], path.indexes[i])
             /\ xkey' = along[Len(path.indexes)]
    /\ UNCHANGED store

TakePub == xkey.priv /\ xkey' = Neuter(xkey) /\ UNCHANGED store

(* The check for information that is there already raises an AttributeError  *)
(* that the except clause next to it swallows.                               *)
AssignDerivationInfo ==
    /\ \E info \in Claims :
          /\ CanClaim(xkey, info)
          /\ xkey' = [xkey EXCEPT !.info = info, !.claimed = TRUE]
    /\ UNCHANGED store

Count == Len(xkeys["priv"]) + Len(xkeys["pub"])
         + Cardinality(plain["priv"]) + Cardinality(plain["pub"])
         + Cardinality({kind \in Kinds : external[kind] # <<>>})

\* Mutant of Holds: the slot is where the key is, not where its information
\* puts it.
HoldsByPath(e, k) ==
    e.master = k.master /\ e.path = k.path /\ e.slot.indexes = k.path
Holds(e, k) == e.master = k.master /\ e.path = k.path /\ e.slot = SlotOf(k.info)

(* The templates add_key stores for the texts it is given.                   *)
InEffect(texts) == IF texts = <<>> THEN settings.default ELSE texts
Templates(texts) ==
    [i \in DOMAIN InEffect(texts) |-> ParseTemplate(InEffect(texts)[i])]
Addable(texts) ==
    /\ \A i \in DOMAIN Templates(texts) : Templates(texts)[i] # BadTemplate
    /\ settings.require => Templates(texts) # <<>>

(* Keys of one slot are next to each other, in the order they came.          *)
Place(seq, k) ==
    LET same == {i \in DOMAIN seq : seq[i].slot = SlotOf(k.info)}
    IN IF same = {} THEN Len(seq) + 1
       ELSE 1 + CHOOSE i \in same : \A j \in same : j <= i

(* The key is held already: more templates for it.                           *)
\* Mutant of Extended: the new templates take the place of the others.
Replaced(e, templates) == [e EXCEPT !.templates = templates]
Extended(e, templates) == [e EXCEPT !.templates = @ \o templates]

AddKey(texts) ==
    LET kind == Kind(xkey)
        seq == xkeys[kind]
        held == {i \in DOMAIN seq : Holds(seq[i], xkey)}
        entry == [master |-> xkey.master, path |-> xkey.path,
                  slot |-> SlotOf(xkey.info), templates |-> Templates(texts)]
    IN /\ Addable(texts)
       /\ xkeys' = [xkeys EXCEPT ![kind] =
             IF held = {} THEN InsertAt(seq, Place(seq, xkey), entry)
             ELSE [i \in DOMAIN seq |->
                      IF i \in held THEN Extended(seq[i], entry.templates)
                      ELSE seq[i]]]
       /\ granted' = granted \cup
             {[kind |-> kind, master |-> xkey.master, path |-> xkey.path,
               slot |-> SlotOf(xkey.info), claimed |-> xkey.claimed,
               texts |-> InEffect(texts)]}
       /\ UNCHANGED <<settings, xkey, plain, external>>

AddExtendedKey ==
    /\ Count < MaxKeys
    /\ \E texts \in TemplateLists : AddKey(texts)
    /\ \A i \in DOMAIN xkeys'[Kind(xkey)] :
          Len(xkeys'[Kind(xkey)][i].templates) <= MaxTemplates

(* remove_key raises a KeyError where other keys of the same master are held *)
(* but this one is not, and does nothing where there are none.               *)
RemoveExtendedKey ==
    LET kind == Kind(xkey)
    IN /\ \E i \in DOMAIN xkeys[kind] :
             /\ Holds(xkeys[kind][i], xkey)
             /\ xkeys' = [xkeys EXCEPT ![kind] = RemoveAt(@, i)]
       /\ granted' = {g \in granted : ~(g.kind = kind /\ Holds(g, xkey))}
       /\ UNCHANGED <<settings, xkey, plain, external>>

(* The key alone, without the chain code, as a CKey or a CPubKey.            *)
AddPlainKey ==
    /\ Count < MaxKeys
    /\ \E kind \in {Kind(xkey), "pub"} :
          plain' = [plain EXCEPT ![kind] = @ \cup {KeyId(xkey)}]
    /\ UNCHANGED <<settings, xkey, xkeys, external, granted>>
RemovePlainKey ==
    /\ \E kind \in {Kind(xkey), "pub"} :
          plain' = [plain EXCEPT ![kind] = @ \ {KeyId(xkey)}]
    /\ UNCHANGED <<settings, xkey, xkeys, external, granted>>

ReplaceExternalLookup ==
    /\ \E kind \in Kinds, callback \in Callbacks :
          /\ Count < MaxKeys \/ callback = <<>>
          /\ external' = [external EXCEPT ![kind] = callback]
    /\ UNCHANGED <<settings, xkey, xkeys, plain, granted>>

Next ==
    \/ TakeSeed \/ ReadBack \/ Derive \/ DerivePath \/ TakePub
    \/ AssignDerivationInfo
    \/ AddExtendedKey \/ RemoveExtendedKey \/ AddPlainKey \/ RemovePlainKey
    \/ ReplaceExternalLookup

Spec == Init /\ [][Next]_vars

-----------------------------------------------------------------------------
(* Properties.                                                               *)

Paths == Seq(Index)
Slots == [mfp : Range(Fingerprint) \cup {NoFingerprint}, indexes : Paths]

EntryOk(e) ==
    /\ e.master \in Masters /\ e.path \in Paths /\ e.slot \in Slots
    /\ settings.require => e.templates # <<>>

(* Types.  A slot holds a key once, and never without a template where       *)
(* templates are required, which _enforce_path_templates asserts.            *)
TypeOK ==
    /\ settings \in Settings
    /\ xkey.master \in Masters /\ xkey.path \in Paths
    /\ xkey.priv \in BOOLEAN /\ xkey.claimed \in BOOLEAN
    /\ SlotOf(xkey.info) \in Slots
    /\ xkey.info # NoInfo => Len(xkey.info.path) = Depth(xkey)
    /\ \A kind \in Kinds :
          /\ \A i \in DOMAIN xkeys[kind] : EntryOk(xkeys[kind][i])
          /\ \A i, j \in DOMAIN xkeys[kind] :
                [xkeys[kind][i] EXCEPT !.templates = <<>>]
                = [xkeys[kind][j] EXCEPT !.templates = <<>>] => i = j
          /\ plain[kind] \subseteq Masters \X Paths

(* What the texts given for a key in one call of add_key let a request have. *)
Allows(g, req) ==
    \E i \in DOMAIN g.texts :
       TextPermits(g.texts[i], g.texts[i].full,
                   IF g.texts[i].full THEN req.indexes ELSE TailFrom(g, req))

SameKey(g, h) == [g EXCEPT !.texts = <<>>, !.claimed = FALSE]
                 = [h EXCEPT !.texts = <<>>, !.claimed = FALSE]

(* A key found through an extended key was derived from one that has been    *)
(* added and not removed since, by a path that a text given for it permits   *)
(* as written.  A key is unrestricted only if no text was ever given for it. *)
OnlyPermittedKeys ==
    \A kind \in Kinds, req \in Requests :
       FindByDerivation(kind, req) = "key" =>
          \E g \in granted :
             /\ g.kind = kind /\ Leads(g, kind, req)
             /\ \/ Allows(g, req)
                \/ /\ ~settings.require
                   /\ \A h \in granted : SameKey(g, h) => h.texts = <<>>

(* get_privkey and get_pubkey do not answer None while a key that leads to   *)
(* the one asked for is held, whatever else is held and in whatever order it *)
(* was added and removed.                                                    *)
HeldKeysAreFound ==
    \A g \in granted, req \in Requests :
       Leads(g, g.kind, req) => Get(g.kind, req) # "none"

(* The information a key carries leads to it: a key derived, neutered or     *)
(* read back without anybody setting its information by hand is found by it  *)
(* wherever one of its ancestors is held.                                    *)
DerivedKeysAreFound ==
    \A g \in granted :
       LET n == Len(g.path)
           tail == SubSeq(xkey.path, n + 1, Len(xkey.path))
       IN /\ xkey.info # NoInfo /\ ~xkey.claimed
          /\ g.slot.mfp # NoFingerprint /\ ~g.claimed
          /\ g.master = xkey.master
          /\ n <= Len(xkey.path) /\ g.path = SubSeq(xkey.path, 1, n)
          /\ g.kind = "pub" => \A i \in DOMAIN tail : ~IsHardened(tail[i])
          => Get(g.kind, [id |-> KeyId(xkey), mfp |-> xkey.info.mfp,
                          indexes |-> xkey.info.path]) # "none"

(* Derivation information that a key has is not replaced ("derivation info   *)
(* already present for this instance").                                      *)
InfoAssignedOnce ==
    [][xkey.info # NoInfo /\ [xkey' EXCEPT !.info = 0, !.claimed = 0]
                              = [xkey EXCEPT !.info = 0, !.claimed = 0]
       => xkey'.info \in {xkey.info, NoInfo}]_vars
=============================================================================
