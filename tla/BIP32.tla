------------------------------- MODULE BIP32 -------------------------------
(* Derivation paths and path templates (core/key.py), from their text to     *)
(* what they match.                                                          *)
(*                                                                           *)
(* A text is [full, elts]: whether it starts with "m", and its elements      *)
(* [item, marker].  A marker is "'", "h" or "" (not hardened).  An item is   *)
(* <<"num", n>>, <<"any">> (the text "*"), <<"set", parts>> (the text        *)
(* "{..,..}", each part <<n>> or <<from, to>>) or <<"junk">> (anything else).*)
(*                                                                           *)
(* A parsed path or template is [full, indexes]; the indexes of a template   *)
(* are sequences of bounds <<from, to>>.  BadPath, BadIndex and BadTemplate *)
(* stand for a ValueError.                                                   *)
EXTENDS Integers, Sequences, FiniteSets, SequencesExt

CONSTANTS
    HardenedOffset,  \* BIP32_HARDENED_KEY_OFFSET, 2^31
    MaxPathLen       \* elements in a path, 255

ASSUME BIP32Assumption == HardenedOffset \in Nat \ {0} /\ MaxPathLen \in Nat

Index == 0 .. 2 * HardenedOffset - 1
IsHardened(n) == n >= HardenedOffset
Offset(elt) == IF elt.marker = "" THEN 0 ELSE HardenedOffset

BadPath == [full |-> FALSE, indexes |-> <<-1>>]
BadIndex == <<>>
BadTemplate == [full |-> FALSE, indexes |-> <<BadIndex>>]

(* The numbers of a text have no sign, and a set has parts of one or two.    *)
ItemOk(item) ==
    /\ item[1] = "num" => item[2] \in Nat
    /\ item[1] = "set" => /\ item[2] \in Seq(Range(item[2]))
                          /\ \A part \in Range(item[2]) :
                                part \in Seq(Nat) /\ Len(part) \in 1 .. 2
TextOk(text) ==
    /\ text.elts \in Seq(Range(text.elts))
    /\ \A elt \in Range(text.elts) : ItemOk(elt.item)

(* A number in a text: it may not reach the offset itself.                   *)
NumberOk(n) == n < HardenedOffset

-----------------------------------------------------------------------------
(* BIP32Path._index_from_str: an index, or -1.                               *)
PathIndex(elt) ==
    IF elt.item[1] = "num" /\ NumberOk(elt.item[2])
    THEN elt.item[2] + Offset(elt) ELSE -1

(* BIP32PathTemplateIndex: bounds on the same side of the offset, in order,  *)
(* and the upper ones increasing.                                            *)
BoundsOk(bounds) ==
    /\ bounds # <<>>
    /\ \A i \in DOMAIN bounds :
          /\ bounds[i][1] \in Index /\ bounds[i][2] \in Index
          /\ IsHardened(bounds[i][1]) = IsHardened(bounds[i][2])
          /\ bounds[i][1] <= bounds[i][2]
          /\ \A j \in 1 .. i - 1 : bounds[j][2] < bounds[i][2]

PartOk(part) ==
    /\ \A i \in DOMAIN part : NumberOk(part[i])
    /\ part # <<0, HardenedOffset - 1>>      \* to be written "*"

(* A range that begins where the last one ended extends it.                  *)
AddPart(bounds, part) ==
    IF bounds # <<>> /\ Last(bounds)[2] + 1 = part[1]
    THEN Append(Front(bounds), <<Last(bounds)[1], Last(part)>>)
    ELSE Append(bounds, <<part[1], Last(part)>>)

(* The bounds after each of the parts.                                       *)
BoundsAfter(parts) ==
    LET after[n \in 0 .. Len(parts)] ==
            IF n = 0 THEN <<>> ELSE AddPart(after[n - 1], parts[n])
    IN after

(* BIP32PathTemplate._index_from_str                                         *)
TemplateIndex(elt) ==
    LET o == Offset(elt)
        item == elt.item
        bounds == CASE item[1] = "num" -> << <<item[2], item[2]>> >>
                    [] item[1] = "any" -> << <<0, HardenedOffset - 1>> >>
                    [] item[1] = "set" -> BoundsAfter(item[2])[Len(item[2])]
                    [] OTHER -> <<>>
        shifted == [i \in DOMAIN bounds |->
                        <<bounds[i][1] + o, bounds[i][2] + o>>]
        readable == CASE item[1] = "num" -> NumberOk(item[2])
                      [] item[1] = "set" ->
                            \A i \in DOMAIN item[2] : PartOk(item[2][i])
                      [] OTHER -> TRUE
    IN IF readable /\ BoundsOk(shifted) THEN shifted ELSE BadIndex

(* BIP32PathGeneric._parse_string and __init__: one marker throughout, and   *)
(* not too many elements.                                                    *)
MarkersAgree(text) ==
    Cardinality({text.elts[i].marker : i \in DOMAIN text.elts} \ {""}) <= 1
Readable(text) == MarkersAgree(text) /\ Len(text.elts) <= MaxPathLen

ParsePath(text) ==
    LET indexes == [i \in DOMAIN text.elts |-> PathIndex(text.elts[i])]
    IN IF Readable(text) /\ \A i \in DOMAIN indexes : indexes[i] # -1
       THEN [full |-> text.full, indexes |-> indexes] ELSE BadPath

ParseTemplate(text) ==
    LET indexes == [i \in DOMAIN text.elts |-> TemplateIndex(text.elts[i])]
    IN IF Readable(text) /\ \A i \in DOMAIN indexes : indexes[i] # BadIndex
       THEN [full |-> text.full, indexes |-> indexes] ELSE BadTemplate

(* BIP32PathTemplate.match_path; `path' is a sequence of indexes.            *)
MatchPath(template, full, path) ==
    /\ template.full = full
    /\ Len(path) = Len(template.indexes)
    /\ \A i \in DOMAIN path : \E k \in DOMAIN template.indexes[i] :
          /\ template.indexes[i][k][1] <= path[i]
          /\ path[i] <= template.indexes[i][k][2]

-----------------------------------------------------------------------------
(* What the text of a template says, read part by part.                      *)

Says(elt, n) ==
    LET m == n - Offset(elt)
    IN /\ m \in 0 .. HardenedOffset - 1
       /\ CASE elt.item[1] = "num" -> elt.item[2] = m
            [] elt.item[1] = "any" -> TRUE
            [] elt.item[1] = "set" -> \E i \in DOMAIN elt.item[2] :
                   elt.item[2][i][1] <= m /\ m <= Last(elt.item[2][i])
            [] OTHER -> FALSE

TextPermits(text, full, path) ==
    /\ text.full = full
    /\ Len(path) = Len(text.elts)
    /\ \A i \in DOMAIN path : Says(text.elts[i], path[i])
=============================================================================
