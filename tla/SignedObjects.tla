--------------------------- MODULE SignedObjects ----------------------------
(***************************************************************************)
(* Signed blocks under way (sign.go, and ParseRestrictBlock of restrict.go).*)
(* An issuer signs and serializes a block; on its way to a verifier other  *)
(* software may serialize it anew, in another order and other spellings,   *)
(* add members of its own, or give it another block's signature, or its    *)
(* own spelled otherwise.                                                  *)
(*                                                                         *)
(* Of a block's members one string (iss), one number (dl) and the          *)
(* signature are kept, under the keys a, d and s.                          *)
(***************************************************************************)
EXTENDS CanonicalJSON

CONSTANTS
    Minted,     \* the blocks signed
    Pieces,     \* what other software spells strings with
    MaxLength,  \* bound on the strings it looks at
    Numbers,    \* what it spells numbers with
    NewMembers, \* the members it adds
    MaxEdits    \* bound on its changes, exchanges of members apart

Member(key, val) == [key |-> key, val |-> val]

Key(c) == <<Literal(c)>>

(* Issuers are strings and depths integers, and only issuers sign.         *)
ASSUME BlockAssumption ==
    /\ Raw["A"] = 65 /\ Raw["a"] = 97 /\ Raw["d"] = 100 /\ Raw["s"] = 115
    /\ {"A", "a", "d", "s"} \subseteq DOMAIN Raw
    /\ \A b \in Minted :
        /\ b.iss \in Seq(Units) /\ b.dl \in DOMAIN IntegerValue
        /\ \A i \in DOMAIN b.iss : ~Alone(writeString(b.iss), i)
    /\ Pieces \subseteq Piece
    /\ Numbers \subseteq DOMAIN IntegerValue \cup FloatingPoint
    /\ \A m \in NewMembers :
        /\ m \in MemberOf(Level[MaxNesting - 1])
        /\ m.val[1] # "sig"
    /\ MaxLength \in Nat /\ MaxEdits \in Nat

VARIABLES
    wire,       \* the document on its way
    edits       \* how many changes it has seen

vars == <<wire, edits>>

-----------------------------------------------------------------------------
(* RestrictBlock and its JSON encoding, members in the struct's order.     *)
Zero == [iss |-> <<>>, dl |-> "0", sig |-> <<>>]

Unsigned(b) ==
    <<Member(Key("d"), <<"num", b.dl>>),
      Member(Key("a"), <<"str", writeString(b.iss)>>)>>

Marshal(b) == <<"obj", Unsigned(b) \o <<Member(Key("s"), <<"sig", b.sig>>)>> >>

(* SignatureInput: the member sig is taken out before.                     *)
SignatureInput(b) == Canonicalize(<<"obj", Unsigned(b)>>)

(* An ideal signature: it is what was signed.                              *)
Sign(b) == SignatureInput(b)

(* base64.RawURLEncoding, which is not strict: it decodes what it never    *)
(* encodes, a line break anywhere and any bits after the last byte.        *)
EncodeSignature(sig) == <<"encoded", sig>>

Decodable == Base64 \ {"padded"}

DecodeSignature(s) == IF s # <<>> /\ s[1] \in Decodable THEN s[2] ELSE <<>>

Verify(b) == DecodeSignature(b.sig) = SignatureInput(b)

Signed(b) == [iss |-> b.iss, dl |-> b.dl, sig |-> EncodeSignature(Sign(b))]

CanonicalBytes(b) == Canonicalize(Marshal(b))

(* encoding/json into the struct: keys match whatever their case, of more  *)
(* than one the last counts, unknown ones are skipped.                     *)
Field == [a |-> {"a", "A"}, d |-> {"d"}, s |-> {"s"}]

LastOf(doc, f) ==
    LET of == {i \in DOMAIN doc[2] :
                \E c \in Field[f] : Decode(doc[2][i].key) = <<Raw[c]>>}
    IN  IF of = {} THEN <<"none">>
        ELSE doc[2][CHOOSE i \in of : \A j \in of : j <= i].val

Typed(doc) ==
    /\ doc[1] = "obj"
    /\ LastOf(doc, "a")[1] \in {"none", "str"}
    /\ LastOf(doc, "d")[1] \in {"none", "num"}
    /\ LastOf(doc, "s")[1] \in {"none", "sig"}

Unmarshal(doc) ==
    LET a == LastOf(doc, "a")  d == LastOf(doc, "d")  s == LastOf(doc, "s")
    IN  [iss |-> IF a[1] = "none" THEN Zero.iss ELSE Decode(a[2]),
         dl  |-> IF d[1] = "none" THEN Zero.dl ELSE writeNumber(d[2]),
         sig |-> IF s[1] = "none" THEN Zero.sig ELSE s[2]]

(* Mutant of ParseRestrictBlock: without the comparison of SD-6.           *)
MutantParseLenient(doc) ==
    /\ ValidateIJSON(doc) /\ Typed(doc)
    /\ Unmarshal(doc).iss # <<>> /\ Unmarshal(doc).sig # <<>>
    /\ Unmarshal(doc).dl # "-1"

(* ParseRestrictBlock passes the bytes of doc.                             *)
ParseRestrictBlock(doc) ==
    /\ ValidateIJSON(doc)                                         \* ValidateIJSON
    /\ Typed(doc)
    /\ Unmarshal(doc).iss # <<>> /\ Unmarshal(doc).sig # <<>>
    /\ Unmarshal(doc).dl # "-1"
    /\ CanonicalBytes(Unmarshal(doc)) = doc                 \* SD-6

-----------------------------------------------------------------------------
Init ==
    /\ edits = 0
    /\ \E b \in Minted : wire = CanonicalBytes(Signed(b))

Members == wire[2]

Change(members) ==
    /\ edits < MaxEdits
    /\ edits' = edits + 1
    /\ wire' = <<"obj", members>>

Swap(i) ==
    /\ i + 1 \in DOMAIN Members
    /\ wire' = <<"obj", [Members EXCEPT ![i] = Members[i + 1], ![i + 1] = Members[i]]>>
    /\ UNCHANGED edits

SpellKey(i, k, p) ==
    /\ k \in DOMAIN Members[i].key
    /\ Change([Members EXCEPT ![i].key[k] = p])

SpellValue(i, k, p) ==
    /\ Members[i].val[1] = "str" /\ k \in DOMAIN Members[i].val[2]
    /\ Change([Members EXCEPT ![i].val[2][k] = p])

Renumber(i, n) ==
    /\ Members[i].val[1] = "num"
    /\ Change([Members EXCEPT ![i].val[2] = n])

Add(m) == Change(Append(Members, m))

Resign(i, b, e) ==
    /\ Members[i].val[1] = "sig"
    /\ Change([Members EXCEPT ![i].val[2] = <<e, Sign(b)>>])

Next ==
    \/ \E m \in NewMembers : Add(m)
    \/ \E i \in DOMAIN Members :
        \/ Swap(i)
        \/ \E k \in 1..MaxLength, p \in Pieces : SpellKey(i, k, p) \/ SpellValue(i, k, p)
        \/ \E n \in Numbers : Renumber(i, n)
        \/ \E b \in Minted, e \in Base64 : Resign(i, b, e)

Spec == Init /\ [][Next]_vars

-----------------------------------------------------------------------------
(* The reference: what RFC 8259 and I-JSON let a document mean.  A string  *)
(* is the code units its pieces name, unless a half of a pair is alone; an *)
(* object is a function of its keys, unless a key comes twice.             *)
Undefined == <<"undefined">>

WellFormed(s) == \A i \in DOMAIN s : ~Alone(s, i)

Named(s) == [i \in DOMAIN s |-> Unit(s[i])]

ArrayMeaning(parts) ==
    IF \E i \in DOMAIN parts : parts[i] = Undefined THEN Undefined ELSE <<"arr", parts>>

ObjectMeaning(spelled, parts) ==
    LET keys == [i \in DOMAIN spelled |-> Named(spelled[i])]
    IN  IF \/ \E i \in DOMAIN keys : ~WellFormed(spelled[i]) \/ parts[i] = Undefined
           \/ \E i, j \in DOMAIN keys : i # j /\ keys[i] = keys[j]
        THEN Undefined
        ELSE <<"obj", [k \in {keys[i] : i \in DOMAIN keys} |->
                        parts[CHOOSE i \in DOMAIN keys : keys[i] = k]]>>

ScalarMeaning(v) ==
    CASE v[1] = "num" ->
            IF v[2] \in DOMAIN IntegerValue THEN <<"num", IntegerValue[v[2]]>> ELSE Undefined
      [] v[1] = "str" -> IF WellFormed(v[2]) THEN <<"str", Named(v[2])>> ELSE Undefined
      [] OTHER -> v

Meaning[v \in Document] ==
    IF v[1] = "arr" THEN ArrayMeaning([i \in DOMAIN v[2] |-> Meaning[v[2][i]]])
    ELSE IF v[1] = "obj"
    THEN ObjectMeaning([i \in DOMAIN v[2] |-> v[2][i].key],
                       [i \in DOMAIN v[2] |-> Meaning[v[2][i].val]])
    ELSE ScalarMeaning(v)

-----------------------------------------------------------------------------
(* Exactly the documents of the profile are canonicalized, and the         *)
(* canonical form means what the document means and is its own canonical   *)
(* form: two documents that are signed as the same bytes mean the same.    *)
MeaningKept ==
    IF Meaning[wire] = Undefined THEN Canonicalize(wire) = Reject
    ELSE /\ Meaning[Canonicalize(wire)] = Meaning[wire]
         /\ Canonicalize(Canonicalize(wire)) = Canonicalize(wire)

(* Whoever serializes a document anew, in any order and spelling: while it *)
(* means the same it is signed and verified as the same bytes.             *)
SpellingForgotten ==
    [][Meaning[wire'] = Meaning[wire] => Canonicalize(wire') = Canonicalize(wire)]_vars

(* A block that parses and whose signature verifies is, but for how base64 *)
(* spells the signature, byte for byte one that was signed: SD-6 leaves it *)
(* one form, and so one CID, per spelling that DecodeSignature takes.      *)
OneForm ==
    ParseRestrictBlock(wire) /\ Verify(Unmarshal(wire)) =>
        \E b \in Minted, e \in Decodable :
            wire = CanonicalBytes([Signed(b) EXCEPT !.sig = <<e, Sign(b)>>])
=============================================================================
