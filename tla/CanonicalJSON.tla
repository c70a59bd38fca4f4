--------------------------- MODULE CanonicalJSON ----------------------------
(***************************************************************************)
(* jcs.go: the canonical form of a JSON document, over which credentials   *)
(* are signed and identified.                                              *)
(*                                                                         *)
(* A document is a value <<kind, content>>: a number by its spelling, a    *)
(* string by the pieces it is spelled with, an array by its values, an     *)
(* object by its members in order.  Strings are counted in UTF-16 code     *)
(* units.  A piece spells one of them, as the symbols of the text: a       *)
(* character beyond the BMP, if it is not escaped, is two pieces, the      *)
(* halves of its bytes.                                                    *)
(***************************************************************************)
EXTENDS Integers, Sequences, FiniteSets, SequencesExt

CONSTANTS
    Raw,            \* the unit of each symbol that stands for itself in a string
    Short,          \* the unit of \c for each symbol c but u
    hex4,           \* the unit of \u and four digits, by the digits
    IntegerValue,   \* the value of each number without fraction and exponent
    FloatingPoint,  \* the other numbers
    MaxNesting      \* bound on the nesting of documents

(* Package unicode/utf16.                                                  *)
IsHigh(unit) == 55296 <= unit /\ unit < 56320
IsLow(unit) == 56320 <= unit /\ unit < 57344
IsSurrogate(unit) == IsHigh(unit) \/ IsLow(unit)

Literal(c) == <<c>>
Escape(c) == <<"\\", c>>
UEscape(digits) == <<"\\", "u", digits>>

Piece ==
    {Literal(c) : c \in DOMAIN Raw} \cup {Escape(c) : c \in DOMAIN Short}
        \cup {UEscape(digits) : digits \in DOMAIN hex4}

Unit(piece) ==
    CASE Len(piece) = 1 -> Raw[piece[1]]
      [] Len(piece) = 2 -> Short[piece[2]]
      [] Len(piece) = 3 -> hex4[piece[3]]

Replacement == 65533

Units == {Unit(p) : p \in Piece} \cup {Replacement}

(* The escapes that writeString uses: all but that of the slash.           *)
Mandatory == {Short[c] : c \in DOMAIN Short \ {"/"}}

(* Symbols are told apart as in JSON, and every unit can be written.       *)
ASSUME CodingAssumption ==
    /\ \A c \in DOMAIN Raw : Raw[c] \in Nat /\ 32 <= Raw[c] /\ Raw[c] \notin Mandatory
    /\ \A c \in DOMAIN Short : Short[c] \in Nat /\ Short[c] < 128
    /\ \A digits \in DOMAIN hex4 : hex4[digits] \in Nat
    /\ \A unit \in Units : unit < 65536
    /\ "\\" \notin DOMAIN Raw /\ "u" \notin DOMAIN Short
    /\ \A unit \in Units \ Mandatory :
        /\ unit < 32 => \E digits \in DOMAIN hex4 : hex4[digits] = unit
        /\ unit >= 32 => \E c \in DOMAIN Raw : Raw[c] = unit

(* Two integers of one value are spelled alike, but for the zeros.         *)
ASSUME NumberAssumption ==
    /\ {"0", "-0"} \subseteq DOMAIN IntegerValue
    /\ DOMAIN IntegerValue \cap FloatingPoint = {}
    /\ \A m, n \in DOMAIN IntegerValue :
        IntegerValue[m] = IntegerValue[n] <=> m = n \/ {m, n} = {"0", "-0"}
    /\ MaxNesting \in Nat \ {0}

-----------------------------------------------------------------------------
(* The documents nested MaxNesting deep at most.  A string that holds a    *)
(* signature is told by what was signed and by how base64 spells it: as    *)
(* the encoder does, with other bits after the last byte, broken into      *)
(* lines, or padded.                                                       *)
Base64 == {"encoded", "trailing bits", "lines", "padded"}

Array(Value) == {"arr"} \X Seq(Value)
MemberOf(Value) == [key : Seq(Piece), val : Value]
Object(Value) == {"obj"} \X Seq(MemberOf(Value))

Plain ==
    ({"num"} \X (DOMAIN IntegerValue \cup FloatingPoint)) \cup ({"str"} \X Seq(Piece))
        \cup ({"lit"} \X {"true", "false", "null"})

SigString == {<<>>} \cup (Base64 \X Object(Plain))

Scalar == Plain \cup ({"sig"} \X SigString)

Level[n \in Nat] ==
    IF n = 0 THEN Scalar
    ELSE Scalar \cup Array(Level[n - 1]) \cup Object(Level[n - 1])

Document == Level[MaxNesting]

-----------------------------------------------------------------------------
(* A half of a surrogate pair without its other half, spelled like it.     *)
Alone(s, i) ==
    LET PairAt(j) ==
            /\ {j, j + 1} \subseteq DOMAIN s /\ Len(s[j]) = Len(s[j + 1])
            /\ IsHigh(Unit(s[j])) /\ IsLow(Unit(s[j + 1]))
    IN  /\ IsSurrogate(Unit(s[i]))
        /\ ~PairAt(i) /\ ~PairAt(i - 1)

(* Package unicode/utf8: the halves of a character's bytes are together.   *)
utf8Valid(s) == \A i \in DOMAIN s : Len(s[i]) = 1 => ~Alone(s, i)

(* Mutant of validateTextEncoding: it is left to the decoder.              *)
MutantUnchecked(s) == TRUE

(* The scan over the text of a string: an escape \u names a character, or  *)
(* the high half of a surrogate pair right before the low half.            *)
validateTextEncoding(s) ==
    LET t == FlattenSeq(s)
        UEscapeAt(i) ==
            i + 2 <= Len(t) /\ t[i] = "\\" /\ t[i + 1] = "u" /\ t[i + 2] \in DOMAIN hex4
        from[i \in 1..(Len(t) + 1)] ==
            \/ i = Len(t) + 1
            \/ t[i] # "\\" /\ from[i + 1]
            \/ /\ t[i] = "\\" /\ i < Len(t) /\ t[i + 1] # "u"
               /\ from[i + 2]
            \/ /\ UEscapeAt(i) /\ ~IsSurrogate(hex4[t[i + 2]])
               /\ from[i + 3]
            \/ /\ UEscapeAt(i) /\ IsHigh(hex4[t[i + 2]])
               /\ UEscapeAt(i + 3) /\ IsLow(hex4[t[i + 5]])
               /\ from[i + 6]
    IN  utf8Valid(s) /\ from[1]

(* What encoding/json decodes a string to.                                 *)
Decode(s) ==
    [i \in DOMAIN s |-> IF Alone(s, i) THEN Replacement ELSE Unit(s[i])]

(* The mandatory escapes and no others.                                    *)
writeString(units) ==
    [i \in DOMAIN units |->
        IF units[i] \in Mandatory
        THEN Escape(CHOOSE c \in DOMAIN Short \ {"/"} : Short[c] = units[i])
        ELSE IF units[i] < 32 THEN UEscape(CHOOSE d \in DOMAIN hex4 : hex4[d] = units[i])
        ELSE Literal(CHOOSE c \in DOMAIN Raw : Raw[c] = units[i])]

(* Mutant of writeNumber: the negative zero stays.                         *)
MutantKeepsSign(n) == n

writeNumber(n) == IF n = "-0" THEN "0" ELSE n

(* Sequences of code units: a comes before b.                              *)
compareUTF16(a, b) ==
    \E i \in DOMAIN b :
        /\ i <= Len(a) + 1 /\ \A j \in 1..(i - 1) : a[j] = b[j]
        /\ i <= Len(a) => a[i] < b[i]

-----------------------------------------------------------------------------
Reject == <<"reject">>

canonicalizeArray(values) ==
    IF \E i \in DOMAIN values : values[i] = Reject THEN Reject ELSE <<"arr", values>>

(* The members of an object whose keys are distinct, in their order.       *)
ByKey(keys, values) ==
    LET K == {keys[i] : i \in DOMAIN keys}
        nth == [n \in 1..Cardinality(K) |->
                 CHOOSE k \in K : Cardinality({l \in K : compareUTF16(l, k)}) = n - 1]
    IN  [n \in DOMAIN nth |->
            [key |-> writeString(nth[n]),
             val |-> values[CHOOSE i \in DOMAIN keys : keys[i] = nth[n]]]]

(* No key, decoded, was seen before in the object.                         *)
canonicalizeObject(spelled, values) ==
    LET keys == [i \in DOMAIN spelled |-> Decode(spelled[i])]
    IN  IF \/ \E i \in DOMAIN keys : ~validateTextEncoding(spelled[i]) \/ values[i] = Reject
           \/ \E i, j \in DOMAIN keys : i # j /\ keys[i] = keys[j]
        THEN Reject
        ELSE <<"obj", ByKey(keys, values)>>

canonicalizeScalar(v) ==
    CASE v[1] = "num" ->
            IF v[2] \in FloatingPoint THEN Reject ELSE <<"num", writeNumber(v[2])>>
      [] v[1] = "str" ->
            IF validateTextEncoding(v[2]) THEN <<"str", writeString(Decode(v[2]))>>
            ELSE Reject
      [] OTHER -> v

canonicalizeToken[v \in Document] ==
    IF v[1] = "arr"
    THEN canonicalizeArray([i \in DOMAIN v[2] |-> canonicalizeToken[v[2][i]]])
    ELSE IF v[1] = "obj"
    THEN canonicalizeObject([i \in DOMAIN v[2] |-> v[2][i].key],
                            [i \in DOMAIN v[2] |-> canonicalizeToken[v[2][i].val]])
    ELSE canonicalizeScalar(v)

Canonicalize(doc) == canonicalizeToken[doc]

ValidateIJSON(doc) == Canonicalize(doc) # Reject
=============================================================================
