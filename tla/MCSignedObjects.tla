-------------------------- MODULE MCSignedObjects ---------------------------
(* SignedObjects with two blocks whose issuers hold what decoders confuse: *)
(* a replacement character, a character beyond the BMP, and text that      *)
(* looks like half of a surrogate pair but for an escaped backslash.       *)
EXTENDS SignedObjects

(* The bytes of U+10000 are F0 90 80 80.  D800 outside an escape is four   *)
(* characters of text, counted as one.                                     *)
MCRaw ==
    [c \in {"A", "D800", "a", "d", "n", "s", "u", "F0 90", "80 80", "U+E000", "U+FFFD"} |->
        CASE c = "A" -> 65 [] c = "D800" -> 68 [] c = "a" -> 97 [] c = "d" -> 100
          [] c = "n" -> 110 [] c = "s" -> 115 [] c = "u" -> 117 [] c = "F0 90" -> 55296
          [] c = "80 80" -> 56320 [] c = "U+E000" -> 57344 [] c = "U+FFFD" -> 65533]

MCShort == [c \in {"\\", "n"} |-> IF c = "n" THEN 10 ELSE 92]

MChex4 ==
    [d \in {"0001", "000A", "0061", "D800", "DC00", "E000", "FFFD"} |->
        CASE d = "0001" -> 1 [] d = "000A" -> 10 [] d = "0061" -> 97 [] d = "D800" -> 55296
          [] d = "DC00" -> 56320 [] d = "E000" -> 57344 [] d = "FFFD" -> 65533]

MCIntegerValue ==
    [n \in {"0", "-0", "1", "-1"} |->
        CASE n = "1" -> 1 [] n = "-1" -> -1 [] OTHER -> 0]

MCMinted ==
    {[iss |-> <<65533, 55296, 56320>>, dl |-> "0"], [iss |-> <<92, 117, 68>>, dl |-> "1"]}

MCPieces ==
    {Literal(c) : c \in {"a", "A", "u", "D800", "U+FFFD", "F0 90", "80 80"}}
        \cup {Escape(c) : c \in {"\\", "n"}}
        \cup {UEscape(h) : h \in {"0001", "0061", "D800", "DC00", "FFFD"}}

MCNumbers == {"0", "-0", "1", "-1", "1.0"}

MCNested ==
    <<"arr", << <<"lit", "true">>,
                <<"obj", <<Member(Key("n"), <<"num", "-0">>),
                           Member(Key("A"), <<"str", <<UEscape("000A")>> >>)>> >> >> >>

(* Keys that decoders take for another's, and two that code points and     *)
(* code units order differently, of a plain value and a nested one; and    *)
(* nested faults.                                                          *)
MCNewMembers ==
    {Member(key, val) :
        key \in {<<UEscape("0061")>>, <<Literal("U+E000")>>, <<Literal("F0 90"), Literal("80 80")>>},
        val \in {<<"num", "-0">>, MCNested}}
    \cup
    {Member(Key("n"), val) :
        val \in {<<"arr", << <<"str", <<UEscape("DC00")>> >> >> >>,
                 <<"obj", <<Member(Key("a"), <<"num", "0">>),
                            Member(<<UEscape("0061")>>, <<"num", "1">>)>> >>}}
=============================================================================
